-------------------------- MODULE EmailIntakeProofs --------------------------
(***************************************************************************)
(* What module EmailIntake promises, for any set of messages, pollers and  *)
(* syncs and for any bounds.                                               *)
(***************************************************************************)
EXTENDS EmailIntake, TLAPS

USE DEF dbVars, histVars, hawbVars, syncVars

-----------------------------------------------------------------------------
(* Types.                                                                  *)

(* A reply is only ever attached to a booking id of the model.             *)
LEMMA FindExistingType ==
    ASSUME TypeOK, NEW m \in Messages
    PROVE  FindExisting(m) \subseteq BookingIds
<1>1. HeaderHits(m) \subseteq BookingIds
  BY DEF TypeOK, HeaderHits
<1>2. ConversationHits(m) \subseteq BookingIds
  BY DEF TypeOK, ConversationHits
<1>3. SubjectHits(m) \subseteq BookingIds
  BY DEF TypeOK, SubjectHits, Booking
<1> QED
  BY <1>1, <1>2, <1>3 DEF FindExisting

(* What is stored are rows of the booking; those that were early are       *)
(* messages.                                                               *)
LEMMA InsertType ==
    ASSUME TypeOK, NEW b \in BookingIds, NEW ms \in SUBSET Messages, Insert(b, ms)
    PROVE  rows' \subseteq BookingIds \X Messages /\ early' \subseteq Messages
<1>1. LookedUp \subseteq Messages
  BY DEF LookedUp
<1> QED
  BY <1>1 DEF TypeOK, Insert

(* The empty database and idle pollers are of the right types.             *)
LEMMA TypeInit == Init => TypeOK
  BY MailAssumption, BoundAssumption DEF Init, TypeOK, Busy, BookingIds

(* No step of a poller, a sync or the desk, and no fault, leaves the types.*)
LEMMA TypeStep == TypeOK /\ [Next]_vars => TypeOK'
<1> SUFFICES ASSUME TypeOK, [Next]_vars PROVE TypeOK'
  OBVIOUS
<1> USE MailAssumption, BoundAssumption DEF TypeOK, Busy, BookingIds
<1>1. ASSUME NEW m \in Messages, Arrive(m) PROVE TypeOK'
  BY <1>1 DEF Arrive
<1>2. ASSUME NEW p \in Pollers, StartPoll(p) PROVE TypeOK'
  BY <1>2 DEF StartPoll
<1>3. ASSUME NEW p \in Pollers, EndPoll(p) PROVE TypeOK'
  BY <1>3 DEF EndPoll
<1>4. ASSUME NEW p \in Pollers, NEW m \in Messages, Skip(p, m) PROVE TypeOK'
  BY <1>4 DEF Skip
<1>5. ASSUME NEW p \in Pollers, NEW m \in Messages, Take(p, m) PROVE TypeOK'
  BY <1>5 DEF Take, Goto, Fault
<1>6. ASSUME NEW p \in Pollers, FetchFiles(p) PROVE TypeOK'
  BY <1>6 DEF FetchFiles, Goto
<1>7. ASSUME NEW p \in Pollers, FetchFails(p) PROVE TypeOK'
  BY <1>7 DEF FetchFails, Continue, Fault
<1>8. ASSUME NEW p \in Pollers, IngestHawb(p) PROVE TypeOK'
  BY <1>8 DEF IngestHawb, Goto
<1>9. ASSUME NEW p \in Pollers, IngestFails(p) PROVE TypeOK'
  BY <1>9 DEF IngestFails, Goto, Fault
<1>10. ASSUME NEW p \in Pollers, Lookup(p) PROVE TypeOK'
  <2>1. msg[p] \in Messages
    BY <1>10 DEF Lookup
  <2>2. FindExisting(msg[p]) \subseteq 1..MaxBookings
    BY <2>1, FindExistingType
  <2> QED
    BY <1>10, <2>1, <2>2 DEF Lookup, Goto, Continue
<1>11. ASSUME NEW p \in Pollers, NextVal(p) PROVE TypeOK'
  BY <1>11 DEF NextVal, Goto, Continue
<1>12. ASSUME NEW p \in Pollers, CommitAppend(p) PROVE TypeOK'
  <2>1. msg[p] \in Messages /\ target[p] \in 1..MaxBookings
    BY <1>12 DEF CommitAppend
  <2>2. rows' \subseteq (1..MaxBookings) \X Messages /\ early' \subseteq Messages
    BY <1>12, <2>1, InsertType DEF CommitAppend
  <2> QED
    BY <1>12, <2>1, <2>2 DEF CommitAppend, Enter, Tally, Continue
<1>13. ASSUME NEW p \in Pollers, CommitOpen(p) PROVE TypeOK'
  <2>1. msg[p] \in Messages /\ target[p] \in 1..MaxBookings
    BY <1>13 DEF CommitOpen
  <2>2. rows' \subseteq (1..MaxBookings) \X Messages /\ early' \subseteq Messages
    BY <1>13, <2>1, InsertType DEF CommitOpen
  <2>3. Opened(target[p], msg[p]) \subseteq Booking
    <3>1. \A present \in BOOLEAN :
            [id |-> target[p], by |-> msg[p], title |-> msg[p], titles |-> {msg[p]},
             assigned |-> present, desk |-> FALSE] \in Booking
      BY <2>1 DEF Booking
    <3>2. SUFFICES ASSUME NEW b \in Opened(target[p], msg[p]) PROVE b \in Booking
      OBVIOUS
    <3>3. PICK present \in BOOLEAN :
            b = [id |-> target[p], by |-> msg[p], title |-> msg[p], titles |-> {msg[p]},
                 assigned |-> present, desk |-> FALSE]
      BY DEF Opened
    <3> QED
      BY <3>1, <3>3
  <2>4. bookings' \subseteq Booking
    BY <1>13, <2>3 DEF CommitOpen
  <2> QED
    BY <1>13, <2>1, <2>2, <2>4 DEF CommitOpen, Enter, Tally, Continue
<1>14. ASSUME NEW p \in Pollers, Refused(p) PROVE TypeOK'
  BY <1>14 DEF Refused, Continue
<1>15. ASSUME NEW p \in Pollers, Rollback(p) PROVE TypeOK'
  BY <1>15 DEF Rollback, Continue, Fault
<1>16. ASSUME NEW p \in Pollers, Crash(p) PROVE TypeOK'
  BY <1>16 DEF Crash, Fault
<1>17. ASSUME NEW s \in Syncs, NEW b \in bookings, StartSync(s, b) PROVE TypeOK'
  <2>1. b.id \in 1..MaxBookings
    BY DEF Booking
  <2> QED
    BY <1>17, <2>1 DEF StartSync
<1>18. ASSUME NEW s \in Syncs, NEW m \in Messages, SyncSkip(s, m) PROVE TypeOK'
  BY <1>18 DEF SyncSkip
<1>19. ASSUME NEW s \in Syncs, NEW m \in Messages, SyncInsert(s, m) PROVE TypeOK'
  BY <1>19 DEF SyncInsert
<1>20. ASSUME NEW s \in Syncs, CommitSync(s) PROVE TypeOK'
  <2>1. dest[s] \in 1..MaxBookings /\ held[s] \subseteq Messages
    BY <1>20 DEF CommitSync
  <2>2. rows' \subseteq (1..MaxBookings) \X Messages /\ early' \subseteq Messages
    BY <1>20, <2>1, InsertType DEF CommitSync
  <2> QED
    BY <1>20, <2>1, <2>2 DEF CommitSync, EndSync
<1>21. ASSUME NEW s \in Syncs, SyncRefused(s) PROVE TypeOK'
  BY <1>21 DEF SyncRefused, EndSync
<1>22. ASSUME NEW s \in Syncs, SyncFails(s) PROVE TypeOK'
  BY <1>22 DEF SyncFails, EndSync, Fault
<1>23. ASSUME NEW id \in BookingIds, NEW t \in DeskTitles, NEW m \in Messages \cup {NoMessage},
              CreateBooking(id, t, m)
       PROVE  TypeOK'
  <2>1. [id |-> id, by |-> m, title |-> t, titles |-> {t}, assigned |-> FALSE, desk |-> TRUE]
          \in Booking
    BY DEF Booking
  <2>2. rows' \subseteq (1..MaxBookings) \X Messages
    BY <1>23 DEF CreateBooking
  <2>3. bookings' \subseteq Booking
    BY <1>23, <2>1 DEF CreateBooking
  <2> QED
    BY <1>23, <2>2, <2>3 DEF CreateBooking
<1>24. ASSUME NEW b \in bookings, NEW t \in DeskTitles \cup {b.title}, NEW a \in BOOLEAN,
              UpdateBooking(b, t, a)
       PROVE  TypeOK'
  <2>1. b \in Booking /\ t \in Messages \cup {NoMessage}
    BY DEF Booking
  <2>2. /\ {b.assigned \/ a} \subseteq BOOLEAN
        /\ b.titles \cup {t} \subseteq Messages \cup {NoMessage}
    BY <2>1 DEF Booking
  <2>3. \A ts \in SUBSET (Messages \cup {NoMessage}), given \in BOOLEAN :
          [b EXCEPT !.title = t, !.titles = ts, !.assigned = given] \in Booking
    BY <2>1 DEF Booking
  <2>4. [b EXCEPT !.title = t, !.titles = @ \cup {t}, !.assigned = @ \/ a] \in Booking
    BY <2>2, <2>3
  <2> QED
    BY <1>24, <2>4 DEF UpdateBooking
<1>25. ASSUME NEW b \in bookings, DeleteBooking(b) PROVE TypeOK'
  <2>1. Coming(b.id) \subseteq (1..MaxBookings) \X Messages
    BY DEF Coming, Booking
  <2> QED
    BY <1>25, <2>1 DEF DeleteBooking
<1>26. ASSUME UNCHANGED vars PROVE TypeOK'
  BY <1>26 DEF vars
<1>27. ASSUME NEW p \in Pollers, PollerStep(p) \/ PollerFault(p) PROVE TypeOK'
  BY <1>2, <1>3, <1>4, <1>5, <1>6, <1>7, <1>8, <1>9, <1>10, <1>11, <1>12, <1>13, <1>14,
     <1>15, <1>16, <1>27 DEF PollerStep, PollerFault
<1>28. ASSUME NEW s \in Syncs, SyncStep(s) \/ SyncFails(s) PROVE TypeOK'
  BY <1>18, <1>19, <1>20, <1>21, <1>22, <1>28 DEF SyncStep
<1>29. ASSUME DeskStep PROVE TypeOK'
  <2> HIDE DEF TypeOK, BookingIds
  <2>1. CASE \E id \in BookingIds, t \in DeskTitles, m \in Messages \cup {NoMessage} :
               CreateBooking(id, t, m)
    BY <1>23, <2>1
  <2>2. CASE \E b \in bookings : \E t \in DeskTitles \cup {b.title}, a \in BOOLEAN :
               UpdateBooking(b, t, a)
    BY <1>24, <2>2
  <2>3. CASE \E b \in bookings : DeleteBooking(b)
    BY <1>25, <2>3
  <2> QED
    BY <1>29, <2>1, <2>2, <2>3 DEF DeskStep
<1> QED
  BY <1>1, <1>17, <1>26, <1>27, <1>28, <1>29 DEF Next

(* The type invariant holds whatever the mail is and however many pollers  *)
(* and syncs run.                                                          *)
THEOREM TypeCorrect == Spec => []TypeOK
  BY TypeInit, TypeStep, PTL DEF Spec

-----------------------------------------------------------------------------
(* The ledger.                                                             *)

(* It is written, and with it the tally, by the two commits of a poller    *)
(* and the commit of a sync.                                               *)
LEMMA LedgerWriters ==
    ASSUME [Next]_vars
    PROVE  \/ UNCHANGED <<processed, recorded>>
           \/ \E p \in Pollers : CommitAppend(p) \/ CommitOpen(p)
           \/ \E s \in Syncs : CommitSync(s)
<1>1. ASSUME NEW m \in Messages, Arrive(m) PROVE UNCHANGED <<processed, recorded>>
  BY <1>1 DEF Arrive
<1>2. ASSUME NEW p \in Pollers, NEW m \in Messages, Skip(p, m) \/ Take(p, m)
      PROVE  UNCHANGED <<processed, recorded>>
  BY <1>2 DEF Skip, Take
<1>3. ASSUME NEW p \in Pollers, PollerStep(p), ~ CommitAppend(p), ~ CommitOpen(p)
      PROVE  UNCHANGED <<processed, recorded>>
  BY <1>2, <1>3 DEF PollerStep, StartPoll, EndPoll, FetchFiles, IngestHawb, Lookup, NextVal,
     Refused
<1>4. ASSUME NEW p \in Pollers, PollerFault(p) PROVE UNCHANGED <<processed, recorded>>
  BY <1>4 DEF PollerFault, FetchFails, IngestFails, Rollback, Crash
<1>5. ASSUME NEW s \in Syncs, NEW b \in bookings, StartSync(s, b)
      PROVE  UNCHANGED <<processed, recorded>>
  BY <1>5 DEF StartSync
<1>6. ASSUME NEW s \in Syncs, SyncStep(s) \/ SyncFails(s), ~ CommitSync(s)
      PROVE  UNCHANGED <<processed, recorded>>
  BY <1>6 DEF SyncStep, SyncSkip, SyncInsert, SyncRefused, SyncFails
<1>7. ASSUME DeskStep PROVE UNCHANGED <<processed, recorded>>
  BY <1>7 DEF DeskStep, CreateBooking, UpdateBooking, DeleteBooking
<1>8. ASSUME UNCHANGED vars PROVE UNCHANGED <<processed, recorded>>
  BY <1>8 DEF vars
<1> QED
  BY <1>1, <1>3, <1>4, <1>5, <1>6, <1>7, <1>8 DEF Next

(* A message with a Message-ID is in the ledger when it was recorded once, *)
(* and it is recorded no other number of times: the tally and the ledger   *)
(* change in the same commits.                                             *)

LedgerInv ==
    /\ \A m \in Identified : recorded[m] \in {0, 1}
    /\ processed = {m \in Identified : recorded[m] = 1}

(* Nothing is recorded and nothing is in the ledger at the start.          *)
LEMMA LedgerInit == Init => LedgerInv
  BY MailAssumption DEF Init, LedgerInv

(* Each commit changes the ledger along with the count.                    *)
LEMMA LedgerStep == TypeOK /\ LedgerInv /\ [Next]_vars => LedgerInv'
<1> SUFFICES ASSUME TypeOK, LedgerInv, [Next]_vars PROVE LedgerInv'
  OBVIOUS
<1>1. ASSUME NEW p \in Pollers, Enter(msg[p]), Tally(msg[p]),
             msg[p] \in Messages, ~ IsProcessed(msg[p])
      PROVE  LedgerInv'
  BY <1>1, MailAssumption DEF Enter, Tally, IsProcessed, LedgerInv, TypeOK
<1>2. ASSUME NEW p \in Pollers, CommitAppend(p) PROVE LedgerInv'
  BY <1>1, <1>2 DEF CommitAppend, TypeOK, Busy
<1>3. ASSUME NEW p \in Pollers, CommitOpen(p) PROVE LedgerInv'
  BY <1>1, <1>3 DEF CommitOpen, TypeOK, Busy
<1>4. ASSUME NEW s \in Syncs, CommitSync(s) PROVE LedgerInv'
  <2>1. processed' = processed \cup (held[s] \cap Identified)
    BY <1>4 DEF CommitSync
  <2>2. \A m \in Identified :
          recorded'[m] = IF m \in held[s] /\ m \notin processed
                         THEN recorded[m] + 1 ELSE recorded[m]
    BY <1>4, MailAssumption DEF CommitSync
  <2> QED
    BY <2>1, <2>2 DEF LedgerInv
<1>5. ASSUME UNCHANGED <<processed, recorded>> PROVE LedgerInv'
  BY <1>5 DEF LedgerInv
<1> QED
  BY <1>2, <1>3, <1>4, <1>5, LedgerWriters

(* The inductive invariant of the ledger: an identified message has been   *)
(* recorded no or one time, and the ledger has exactly the latter.         *)
THEOREM LedgerCorrect == Spec => []LedgerInv
<1>1. TypeOK /\ LedgerInv /\ [Next]_vars => LedgerInv'
  BY LedgerStep
<1> QED
  BY <1>1, LedgerInit, TypeCorrect, PTL DEF Spec

(* However many pollers and syncs race, fail and crash, and whatever is    *)
(* deleted, no message with a Message-ID is recorded twice.                *)
THEOREM RecordedOnce == Spec => []IngestedOnce
<1>1. LedgerInv => IngestedOnce
  BY DEF LedgerInv, IngestedOnce
<1> QED
  BY <1>1, LedgerCorrect, PTL

(* The ledger has exactly the messages that were recorded.                 *)
THEOREM LedgerExact == Spec => []LedgerIsExact
<1>1. LedgerInv => LedgerIsExact
  BY DEF LedgerInv, LedgerIsExact
<1> QED
  BY <1>1, LedgerCorrect, PTL

-----------------------------------------------------------------------------
(* The intake implements OnceLedger.                                       *)

(* The initial state is one of the ledger's.                               *)
LEMMA RefineInit == Init => Ledger!Init
  BY MailAssumption DEF Init, Ledger!Init

(* A commit that enters new identified messages and counts each of them    *)
(* once is a step of the ledger.                                           *)
LEMMA RefineRecord ==
    ASSUME TypeOK, NEW new \in SUBSET Identified, new \cap processed = {},
           processed' = processed \cup new,
           \A i \in Identified :
             recorded'[i] = IF i \in new THEN recorded[i] + 1 ELSE recorded[i]
    PROVE  Ledger!Next
<1> DEFINE E == [i \in Identified |-> recorded[i]]
<1>1. E' = [i \in Identified |-> IF i \in new THEN E[i] + 1 ELSE E[i]]
  OBVIOUS
<1>2. Ledger!Record(new)
  BY <1>1 DEF Ledger!Record
<1> QED
  BY <1>2 DEF Ledger!Next

(* A poller enters the message in hand, if it has a Message-ID.            *)
LEMMA RefineCommit ==
    ASSUME TypeOK, NEW p \in Pollers, msg[p] \in Messages,
           Enter(msg[p]), Tally(msg[p]), ~ IsProcessed(msg[p])
    PROVE  Ledger!Next
<1> DEFINE new == {msg[p]} \cap Identified
<1>1. new \in SUBSET Identified /\ new \cap processed = {}
  BY DEF IsProcessed
<1>2. processed' = processed \cup new
  BY DEF Enter
<1>3. \A i \in Identified : recorded'[i] = IF i \in new THEN recorded[i] + 1 ELSE recorded[i]
  BY MailAssumption DEF Tally, TypeOK
<1> HIDE DEF new
<1> QED
  BY <1>1, <1>2, <1>3, RefineRecord

(* Every step of the intake is a step of the ledger or leaves it alone.    *)
LEMMA RefineStep == TypeOK /\ [Next]_vars => [Ledger!Next]_Ledger!vars
<1> SUFFICES ASSUME TypeOK, [Next]_vars
             PROVE  [Ledger!Next]_Ledger!vars
  OBVIOUS
<1>1. ASSUME UNCHANGED <<processed, recorded>> PROVE [Ledger!Next]_Ledger!vars
  BY <1>1 DEF Ledger!vars
<1>2. ASSUME NEW p \in Pollers, CommitAppend(p) PROVE Ledger!Next
  BY <1>2, RefineCommit DEF CommitAppend, TypeOK, Busy
<1>3. ASSUME NEW p \in Pollers, CommitOpen(p) PROVE Ledger!Next
  BY <1>3, RefineCommit DEF CommitOpen, TypeOK, Busy
<1>4. ASSUME NEW s \in Syncs, CommitSync(s) PROVE Ledger!Next
  <2> DEFINE new == (held[s] \cap Identified) \ processed
  <2>1. new \in SUBSET Identified /\ new \cap processed = {}
    OBVIOUS
  <2>2. processed' = processed \cup new
    BY <1>4 DEF CommitSync
  <2>3. \A i \in Identified :
          recorded'[i] = IF i \in new THEN recorded[i] + 1 ELSE recorded[i]
    BY <1>4, MailAssumption DEF CommitSync
  <2> HIDE DEF new
  <2> QED
    BY <2>1, <2>2, <2>3, RefineRecord
<1> QED
  BY <1>1, <1>2, <1>3, <1>4, LedgerWriters

(* The intake is a ledger: an effect and its entry are one step, and there *)
(* is no way back.                                                         *)
THEOREM IntakeIsALedger == Spec => ImplementsLedger
<1>1. TypeOK /\ [Next]_vars => [Ledger!Next]_Ledger!vars
  BY RefineStep
<1> QED
  BY <1>1, RefineInit, TypeCorrect, PTL DEF Spec, ImplementsLedger, Ledger!Spec

(* What every ledger guarantees, and the intake with it: a message takes   *)
(* effect once if it was entered and never otherwise.                      *)
THEOREM LedgerIsExactlyOnce == Ledger!Spec => [](Ledger!TypeOK /\ Ledger!ExactlyOnce)
<1> DEFINE Effects == [m \in Identified |-> recorded[m]]
           Promise == Ledger!TypeOK /\ Ledger!ExactlyOnce
<1>1. Ledger!Init => Promise
  BY DEF Ledger!Init, Ledger!TypeOK, Ledger!ExactlyOnce
<1>2. Promise /\ [Ledger!Next]_Ledger!vars => Promise'
  <2> SUFFICES ASSUME Promise, [Ledger!Next]_Ledger!vars PROVE Promise'
    OBVIOUS
  <2>1. ASSUME UNCHANGED Ledger!vars PROVE Promise'
    <3>1. processed' = processed /\ Effects' = Effects
      BY <2>1 DEF Ledger!vars
    <3> QED
      BY <3>1 DEF Ledger!TypeOK, Ledger!ExactlyOnce
  <2>2. ASSUME NEW new \in SUBSET Identified, Ledger!Record(new) PROVE Promise'
    <3>1. /\ new \cap processed = {} /\ processed' = processed \cup new
          /\ Effects' = [i \in Identified |->
                           IF i \in new THEN Effects[i] + 1 ELSE Effects[i]]
      BY <2>2 DEF Ledger!Record
    <3>2. Effects \in [Identified -> Nat] /\ processed \subseteq Identified
      BY DEF Ledger!TypeOK
    <3>3. \A m \in Identified : Effects[m] = IF m \in processed THEN 1 ELSE 0
      BY DEF Ledger!ExactlyOnce
    <3> HIDE DEF Effects
    <3>4. /\ Effects' \in [Identified -> Nat] /\ processed' \subseteq Identified
          /\ \A m \in Identified : Effects'[m] = IF m \in processed' THEN 1 ELSE 0
      BY <3>1, <3>2, <3>3
    <3> QED
      BY <3>4 DEF Effects, Ledger!TypeOK, Ledger!ExactlyOnce
  <2> QED
    BY <2>1, <2>2 DEF Ledger!Next
<1> HIDE DEF Promise
<1>3. Ledger!Spec => []Promise
  BY <1>1, <1>2, PTL DEF Ledger!Spec
<1> QED
  BY <1>3 DEF Promise

(* An entry is never taken out of the ledger, whatever is deleted.         *)
THEOREM EntriesStay == Spec => [][processed \subseteq processed']_processed
<1>1. [Ledger!Next]_Ledger!vars => [processed \subseteq processed']_processed
  BY DEF Ledger!Next, Ledger!Record, Ledger!vars
<1>2. Ledger!Spec => [][processed \subseteq processed']_processed
  BY <1>1, PTL DEF Ledger!Spec
<1> QED
  BY <1>2, IntakeIsALedger DEF ImplementsLedger

-----------------------------------------------------------------------------
(* Attachments.  A poller that has gone past the HAWB step with a message  *)
(* in hand has had its attachments claimed, or has seen the claim raise.   *)

Past == {"lookup", "append", "create", "open"}

HawbInv ==
    /\ HawbBeforeLedger
    /\ \A p \in Pollers :
         pc[p] \in Past /\ msg[p] \in WithFiles \cap Identified
           => msg[p] \in claimed \cup unclaimed

(* No message is closed at the start.                                      *)
LEMMA HawbInit == Init => HawbInv
  BY DEF Init, HawbInv, HawbBeforeLedger, Past

(* A poller reaches the recording transaction of a message with files only *)
(* through the HAWB pipeline, and what a sync enters it has stored.        *)
LEMMA HawbStep == TypeOK /\ HawbInv /\ [Next]_vars => HawbInv'
<1> SUFFICES ASSUME TypeOK, HawbInv, [Next]_vars PROVE HawbInv'
  OBVIOUS
<1> USE MailAssumption DEF HawbInv, HawbBeforeLedger, Past
<1>1. ASSUME UNCHANGED <<processed, claimed, unclaimed, synced>>,
             \A p \in Pollers : pc'[p] \in Past => pc[p] \in Past /\ msg'[p] = msg[p]
      PROVE  HawbInv'
  BY <1>1
<1>2. ASSUME NEW m \in Messages, Arrive(m) PROVE HawbInv'
  BY <1>1, <1>2 DEF Arrive
<1>3. ASSUME NEW p \in Pollers, StartPoll(p) \/ EndPoll(p) PROVE HawbInv'
  BY <1>1, <1>3 DEF StartPoll, EndPoll, TypeOK
<1>4. ASSUME NEW p \in Pollers, NEW m \in Messages, Skip(p, m) PROVE HawbInv'
  BY <1>1, <1>4 DEF Skip
<1>5. ASSUME NEW p \in Pollers, NEW m \in Messages, Take(p, m) PROVE HawbInv'
  BY <1>5 DEF Take, Goto, TypeOK
<1>6. ASSUME NEW p \in Pollers, FetchFiles(p) PROVE HawbInv'
  BY <1>6 DEF FetchFiles, Goto, TypeOK
<1>7. ASSUME NEW p \in Pollers, IngestHawb(p) PROVE HawbInv'
  BY <1>7 DEF IngestHawb, Goto, TypeOK
<1>8. ASSUME NEW p \in Pollers, IngestFails(p) PROVE HawbInv'
  BY <1>8 DEF IngestFails, Goto, TypeOK
<1>9. ASSUME NEW p \in Pollers, Lookup(p) PROVE HawbInv'
  BY <1>1, <1>9 DEF Lookup, Goto, Continue, TypeOK
<1>10. ASSUME NEW p \in Pollers, NextVal(p) PROVE HawbInv'
  BY <1>1, <1>10 DEF NextVal, Goto, Continue, TypeOK
<1>11. ASSUME NEW p \in Pollers, CommitAppend(p) \/ CommitOpen(p) PROVE HawbInv'
  BY <1>11 DEF CommitAppend, CommitOpen, Enter, Continue, TypeOK
<1>12. ASSUME NEW p \in Pollers, Refused(p) PROVE HawbInv'
  BY <1>1, <1>12 DEF Refused, Continue, TypeOK
<1>13. ASSUME NEW p \in Pollers, FetchFails(p) \/ Rollback(p) \/ Crash(p) PROVE HawbInv'
  BY <1>1, <1>13 DEF FetchFails, Rollback, Crash, Continue, TypeOK
<1>14. ASSUME NEW s \in Syncs, NEW b \in bookings, StartSync(s, b) PROVE HawbInv'
  BY <1>1, <1>14 DEF StartSync
<1>15. ASSUME NEW s \in Syncs, CommitSync(s) PROVE HawbInv'
  BY <1>15 DEF CommitSync
<1>16. ASSUME NEW s \in Syncs, SyncStep(s) \/ SyncFails(s), ~ CommitSync(s) PROVE HawbInv'
  BY <1>1, <1>16 DEF SyncStep, SyncSkip, SyncInsert, SyncRefused, SyncFails
<1>17. ASSUME DeskStep PROVE HawbInv'
  BY <1>1, <1>17 DEF DeskStep, CreateBooking, UpdateBooking, DeleteBooking
<1>18. ASSUME UNCHANGED vars PROVE HawbInv'
  BY <1>1, <1>18 DEF vars
<1> QED
  BY <1>2, <1>3, <1>4, <1>5, <1>6, <1>7, <1>8, <1>9, <1>10, <1>11, <1>12, <1>13, <1>14,
     <1>15, <1>16, <1>17, <1>18 DEF Next, PollerStep, PollerFault

(* Whoever closes a message with attachments, a poller gave the HAWB       *)
(* pipeline its turn before, or a sync stored the message.                 *)
THEOREM HawbFirst == Spec => []HawbBeforeLedger
<1>1. TypeOK /\ HawbInv /\ [Next]_vars => HawbInv'
  BY HawbStep
<1>2. HawbInv => HawbBeforeLedger
  BY DEF HawbInv
<1> QED
  BY <1>1, <1>2, HawbInit, TypeCorrect, PTL DEF Spec

-----------------------------------------------------------------------------
(* Bookings and their messages.  The number a poller holds was free when   *)
(* it drew it, the desk waits for it, and the sequence gives it to no      *)
(* other poller; a booking waits for the rows a sync has inserted.         *)

Opening(p) == pc[p] = "open"

BookInv ==
    /\ \A p \in Pollers : Opening(p) => target[p] <= seq /\ target[p] \notin Ids(bookings)
    /\ \A p, q \in Pollers : Opening(p) /\ Opening(q) /\ p # q => target[p] # target[q]
    /\ \A s \in Syncs : held[s] # {} => dest[s] \in Ids(bookings)
    /\ \A b \in bookings : b.title \in b.titles
    /\ UniqueIds
    /\ RowsMatchBookings

(* No booking and no number in use at the start.                           *)
LEMMA BookInit == Init => BookInv
  BY DEF Init, BookInv, UniqueIds, RowsMatchBookings, Opening

(* No step gives two bookings one number, or parts a row from its booking. *)
LEMMA BookStep == TypeOK /\ BookInv /\ [Next]_vars => BookInv'
<1> SUFFICES ASSUME TypeOK, BookInv, [Next]_vars PROVE BookInv'
  OBVIOUS
<1> USE DEF Ids
<1>1. ASSUME UNCHANGED <<bookings, rows, seq, dest, held>>,
             \A p \in Pollers : Opening(p)' => Opening(p) /\ target'[p] = target[p]
      PROVE  BookInv'
  BY <1>1 DEF BookInv, UniqueIds, RowsMatchBookings
<1>2. ASSUME UNCHANGED <<bookings, rows, seq, pc, target>>,
             \A s \in Syncs : held'[s] # {} => dest'[s] \in Ids(bookings)
      PROVE  BookInv'
  BY <1>2 DEF BookInv, UniqueIds, RowsMatchBookings, Opening
<1>3. ASSUME NEW m \in Messages, Arrive(m) PROVE BookInv'
  BY <1>1, <1>3 DEF Arrive, Opening
<1>4. ASSUME NEW p \in Pollers, StartPoll(p) \/ EndPoll(p) PROVE BookInv'
  BY <1>1, <1>4 DEF StartPoll, EndPoll, Opening, TypeOK
<1>5. ASSUME NEW p \in Pollers, NEW m \in Messages, Skip(p, m) \/ Take(p, m) PROVE BookInv'
  BY <1>1, <1>5 DEF Skip, Take, Goto, Opening, TypeOK
<1>6. ASSUME NEW p \in Pollers, FetchFiles(p) \/ IngestHawb(p) PROVE BookInv'
  BY <1>1, <1>6 DEF FetchFiles, IngestHawb, Goto, Opening, TypeOK
<1>7. ASSUME NEW p \in Pollers, PollerFault(p) PROVE BookInv'
  BY <1>1, <1>7 DEF PollerFault, FetchFails, IngestFails, Rollback, Crash, Goto, Continue,
     Opening, TypeOK
<1>8. ASSUME NEW p \in Pollers, Lookup(p) PROVE BookInv'
  BY <1>1, <1>8 DEF Lookup, Goto, Continue, Opening, TypeOK
<1>9. ASSUME NEW p \in Pollers, Refused(p) PROVE BookInv'
  BY <1>1, <1>9 DEF Refused, Continue, Opening, TypeOK
<1>10. ASSUME NEW p \in Pollers, NextVal(p) PROVE BookInv'
  <2>1. seq \in Nat /\ seq' = seq + 1 /\ UNCHANGED <<bookings, rows, dest, held>>
    BY <1>10, BoundAssumption DEF NextVal, TypeOK
  <2>2. \A q \in Pollers \ {p} : Opening(q)' => Opening(q) /\ target'[q] = target[q]
    BY <1>10 DEF NextVal, Goto, Continue, Opening, TypeOK
  <2>3. Opening(p)' => target'[p] = seq + 1 /\ seq + 1 \notin Ids(bookings)
    BY <1>10 DEF NextVal, Goto, Continue, Opening, TypeOK
  <2>4. \A q \in Pollers : Opening(q) => target[q] \in Nat /\ target[q] <= seq
    BY BoundAssumption DEF BookInv, TypeOK, Opening, BookingIds
  <2>5. \A q \in Pollers : Opening(q)' => target'[q] <= seq' /\ target'[q] \notin Ids(bookings')
    BY <2>1, <2>2, <2>3, <2>4 DEF BookInv
  <2>6. \A q, r \in Pollers : Opening(q)' /\ Opening(r)' /\ q # r => target'[q] # target'[r]
    BY <2>1, <2>2, <2>3, <2>4 DEF BookInv
  <2> QED
    BY <2>1, <2>5, <2>6 DEF BookInv, UniqueIds, RowsMatchBookings
<1>11. ASSUME NEW p \in Pollers, CommitAppend(p) PROVE BookInv'
  <2>1. /\ UNCHANGED <<bookings, seq, dest, held>>
        /\ rows' = rows \cup {<<target[p], msg[p]>>} /\ target[p] \in Ids(bookings)
    BY <1>11 DEF CommitAppend, Insert
  <2>2. \A q \in Pollers : Opening(q)' => Opening(q) /\ target'[q] = target[q]
    BY <1>11 DEF CommitAppend, Continue, Opening, TypeOK
  <2>3. RowsMatchBookings'
    BY <2>1 DEF BookInv, RowsMatchBookings
  <2> QED
    BY <2>1, <2>2, <2>3 DEF BookInv, UniqueIds
<1>12. ASSUME NEW p \in Pollers, CommitOpen(p) PROVE BookInv'
  <2>1. PICK new \in Opened(target[p], msg[p]) : bookings' = bookings \cup {new}
    BY <1>12 DEF CommitOpen
  <2>2. new.id = target[p] /\ new.by = msg[p] /\ new.title \in new.titles
    BY <2>1 DEF Opened
  <2>3. UNCHANGED <<seq, dest, held>> /\ rows' = rows \cup {<<new.id, new.by>>}
    BY <1>12, <2>2 DEF CommitOpen, Insert
  <2>4. \A q \in Pollers : Opening(q)' => q # p /\ Opening(q) /\ target'[q] = target[q]
    BY <1>12 DEF CommitOpen, Continue, Opening, TypeOK
  <2>5. Opening(p) /\ new.id \notin Ids(bookings)
    BY <1>12, <2>2 DEF CommitOpen, Opening, BookInv
  <2>6. \A q \in Pollers : Opening(q)' => target'[q] <= seq' /\ target'[q] \notin Ids(bookings')
    BY <2>1, <2>2, <2>3, <2>4, <2>5 DEF BookInv
  <2>7. \A q, r \in Pollers : Opening(q)' /\ Opening(r)' /\ q # r => target'[q] # target'[r]
    BY <2>4 DEF BookInv
  <2>8. UniqueIds'
    BY <2>1, <2>5 DEF BookInv, UniqueIds
  <2>9. RowsMatchBookings'
    BY <2>1, <2>3 DEF BookInv, RowsMatchBookings
  <2> QED
    BY <2>1, <2>2, <2>3, <2>6, <2>7, <2>8, <2>9 DEF BookInv
<1>13. ASSUME NEW s \in Syncs, NEW b \in bookings, StartSync(s, b) PROVE BookInv'
  <2>1. held[s] = {} /\ held' = held /\ \A t \in Syncs \ {s} : dest'[t] = dest[t]
    BY <1>13 DEF StartSync, TypeOK
  <2>2. \A t \in Syncs : held'[t] # {} => dest'[t] \in Ids(bookings)
    BY <2>1 DEF BookInv
  <2> QED
    BY <1>2, <1>13, <2>2 DEF StartSync
<1>14. ASSUME NEW s \in Syncs, NEW m \in Messages, SyncSkip(s, m) PROVE BookInv'
  BY <1>2, <1>14 DEF SyncSkip, BookInv
<1>15. ASSUME NEW s \in Syncs, NEW m \in Messages, SyncInsert(s, m) PROVE BookInv'
  <2>1. \A t \in Syncs : held'[t] # {} => dest'[t] \in Ids(bookings)
    BY <1>15 DEF SyncInsert, BookInv, TypeOK
  <2> QED
    BY <1>2, <1>15, <2>1 DEF SyncInsert
<1>16. ASSUME NEW s \in Syncs, EndSync(s)
       PROVE  \A t \in Syncs : held'[t] # {} => dest'[t] \in Ids(bookings)
  BY <1>16 DEF EndSync, BookInv, TypeOK
<1>17. ASSUME NEW s \in Syncs, CommitSync(s) PROVE BookInv'
  <2>1. /\ UNCHANGED <<bookings, seq, pc, target>>
        /\ rows' = rows \cup {<<dest[s], m>> : m \in held[s]}
    BY <1>17 DEF CommitSync, Insert
  <2>2. \A t \in Syncs : held'[t] # {} => dest'[t] \in Ids(bookings)
    BY <1>16, <1>17 DEF CommitSync
  <2>3. RowsMatchBookings'
    BY <2>1 DEF BookInv, RowsMatchBookings
  <2> QED
    BY <2>1, <2>2, <2>3 DEF BookInv, UniqueIds, Opening
<1>18. ASSUME NEW s \in Syncs, SyncRefused(s) \/ SyncFails(s) PROVE BookInv'
  BY <1>2, <1>16, <1>18 DEF SyncRefused, SyncFails
<1>19. ASSUME NEW id \in BookingIds, NEW t \in DeskTitles, NEW m \in Messages \cup {NoMessage},
              CreateBooking(id, t, m)
       PROVE  BookInv'
  <2> DEFINE new == [id |-> id, by |-> m, title |-> t, titles |-> {t},
                     assigned |-> FALSE, desk |-> TRUE]
  <2>1. /\ bookings' = bookings \cup {new} /\ UNCHANGED <<seq, dest, held, pc, target>>
        /\ rows' = rows \cup ({id} \X ({m} \ {NoMessage})) /\ id \notin Ids(bookings)
        /\ \A p \in Pollers : ~ (Opening(p) /\ target[p] = id)
    BY <1>19 DEF CreateBooking, Opening
  <2>2. new.id = id /\ new.by = m /\ new.title \in new.titles
    OBVIOUS
  <2> HIDE DEF new
  <2>3. Ids(bookings') = Ids(bookings) \cup {id}
    BY <2>1, <2>2
  <2>4. UniqueIds'
    BY <2>1, <2>2 DEF BookInv, UniqueIds
  <2>5. RowsMatchBookings'
    BY <2>1, <2>2, <2>3 DEF BookInv, RowsMatchBookings
  <2> QED
    BY <2>1, <2>2, <2>3, <2>4, <2>5 DEF BookInv, Opening
<1>20. ASSUME NEW b \in bookings, NEW t \in DeskTitles \cup {b.title}, NEW a \in BOOLEAN,
              UpdateBooking(b, t, a)
       PROVE  BookInv'
  <2>1. PICK new : /\ new = [b EXCEPT !.title = t, !.titles = @ \cup {t}, !.assigned = @ \/ a]
                   /\ bookings' = (bookings \ {b}) \cup {new}
    BY <1>20 DEF UpdateBooking
  <2>2. /\ new.id = b.id /\ new.by = b.by /\ new.title \in new.titles
        /\ bookings' = (bookings \ {b}) \cup {new}
    BY <2>1 DEF TypeOK, Booking
  <2>3. UNCHANGED <<rows, seq, dest, held, pc, target>>
    BY <1>20 DEF UpdateBooking
  <2>4. Ids(bookings') = Ids(bookings)
    BY <2>2
  <2>5. UniqueIds'
    BY <2>2 DEF BookInv, UniqueIds
  <2>6. RowsMatchBookings'
    BY <2>2, <2>3, <2>4 DEF BookInv, RowsMatchBookings
  <2> QED
    BY <2>2, <2>3, <2>4, <2>5, <2>6 DEF BookInv, Opening
<1>21. ASSUME NEW b \in bookings, DeleteBooking(b) PROVE BookInv'
  <2>1. /\ bookings' = bookings \ {b} /\ rows' = {r \in rows : r[1] # b.id}
        /\ UNCHANGED <<seq, dest, held, pc, target>>
        /\ \A s \in Syncs : dest[s] = b.id => held[s] = {}
    BY <1>21 DEF DeleteBooking, Deletable
  <2>2. Ids(bookings') = Ids(bookings) \ {b.id}
    BY <2>1 DEF BookInv, UniqueIds
  <2>3. RowsMatchBookings'
    BY <2>1, <2>2 DEF BookInv, RowsMatchBookings
  <2> QED
    BY <2>1, <2>2, <2>3 DEF BookInv, UniqueIds, Opening
<1>22. ASSUME UNCHANGED vars PROVE BookInv'
  BY <1>1, <1>22 DEF vars, Opening
<1> HIDE DEF Ids
<1>23. ASSUME NEW p \in Pollers, PollerStep(p) \/ PollerFault(p) PROVE BookInv'
  BY <1>4, <1>5, <1>6, <1>7, <1>8, <1>9, <1>10, <1>11, <1>12, <1>23 DEF PollerStep
<1>24. ASSUME NEW s \in Syncs, SyncStep(s) \/ SyncFails(s) PROVE BookInv'
  BY <1>14, <1>15, <1>17, <1>18, <1>24 DEF SyncStep
<1>25. ASSUME DeskStep PROVE BookInv'
  <2>1. CASE \E id \in BookingIds, t \in DeskTitles, m \in Messages \cup {NoMessage} :
               CreateBooking(id, t, m)
    BY <1>19, <2>1
  <2>2. CASE \E b \in bookings : \E t \in DeskTitles \cup {b.title}, a \in BOOLEAN :
               UpdateBooking(b, t, a)
    BY <1>20, <2>2
  <2>3. CASE \E b \in bookings : DeleteBooking(b)
    BY <1>21, <2>3
  <2> QED
    BY <1>25, <2>1, <2>2, <2>3 DEF DeskStep
<1> QED
  BY <1>3, <1>13, <1>22, <1>23, <1>24, <1>25 DEF Next

(* The inductive invariant of the bookings: no two have one number, no     *)
(* poller or sync is about to write under a number that is another's, and  *)
(* rows and bookings match.                                                *)
THEOREM BookingsCorrect == Spec => []BookInv
<1>1. TypeOK /\ BookInv /\ [Next]_vars => BookInv'
  BY BookStep
<1> QED
  BY <1>1, BookInit, TypeCorrect, PTL DEF Spec

(* Pollers that draw numbers from a sequence and a desk that takes any     *)
(* never give one number to two bookings.                                  *)
THEOREM IdsUnique == Spec => []UniqueIds
<1>1. BookInv => UniqueIds
  BY DEF BookInv
<1> QED
  BY <1>1, BookingsCorrect, PTL

(* A deletion that comes between the lookup and the commit of a reply, or  *)
(* in the middle of a sync, leaves no message without a booking, and no    *)
(* booking loses the message that opened it.                               *)
THEOREM RowsCorrect == Spec => []RowsMatchBookings
<1>1. BookInv => RowsMatchBookings
  BY DEF BookInv
<1> QED
  BY <1>1, BookingsCorrect, PTL

-----------------------------------------------------------------------------
(* Threads.  What links a message to the booking found for it, or to the   *)
(* booking of a sync, still does when it is stored: nothing leaves a       *)
(* thread but with its booking, and when that goes, what was on its way to *)
(* it is misled if its number is ever taken again.                         *)

Appending(p) == pc[p] = "append"

Fits(i, m) ==
    \/ <<i, m>> \in misled
    \/ /\ i \in Ids(bookings)
       /\ <<i, m>> \in rows \/ \A b \in bookings : b.id = i => LinkedTo(m, b)

SyncFits(i, m) ==
    \/ <<i, m>> \in misled
    \/ /\ i \in Ids(bookings)
       /\ \/ <<i, m>> \in rows
          \/ \E r \in rows : /\ r[1] = i /\ r[2] # m
                             /\ Conversation[r[2]] = Conversation[m]

LinkInv ==
    /\ FiledWhereLinked
    /\ \A p \in Pollers : Appending(p) => Fits(target[p], msg[p])
    /\ \A s \in Syncs : \A m \in list[s] \cup held[s] : SyncFits(dest[s], m)

(* Whatever strategy finds a booking, the message is linked to it.         *)
LEMMA FoundFits ==
  ASSUME TypeOK, BookInv, NEW m \in Messages, NEW i \in FindExisting(m)
  PROVE  Fits(i, m)
<1>1. CASE i \in HeaderHits(m)
  <2>1. PICK r \in rows : r[1] = i /\ r[2] \in Refs[m]
    BY <1>1 DEF HeaderHits
  <2> QED
    BY <2>1 DEF Fits, LinkedTo, BookInv, RowsMatchBookings
<1>2. CASE i \in ConversationHits(m)
  <2>1. PICK r \in rows : r[1] = i /\ IsMarked(m) /\ Conversation[r[2]] = Conversation[m]
    BY <1>2 DEF ConversationHits
  <2>2. r[2] = m => <<i, m>> \in rows
    BY <2>1 DEF TypeOK
  <2> QED
    BY <2>1, <2>2 DEF Fits, LinkedTo, BookInv, RowsMatchBookings
<1>3. CASE i \in SubjectHits(m)
  <2>1. PICK c \in bookings : /\ c.id = i /\ IsMarked(m) /\ c.title \in Messages
                              /\ Topic[c.title] = Topic[m]
    BY <1>3 DEF SubjectHits
  <2>2. \A b \in bookings : b.id = i => b = c
    BY <2>1 DEF BookInv, UniqueIds
  <2>3. LinkedTo(m, c)
    BY <2>1 DEF LinkedTo, BookInv
  <2> QED
    BY <2>1, <2>2, <2>3 DEF Fits, Ids
<1> QED
  BY <1>1, <1>2, <1>3 DEF FindExisting

(* More rows, more syncs and more bookings break no link.                  *)
LEMMA LinksGrow ==
  ASSUME BookInv, rows \subseteq rows', synced \subseteq synced', misled' = misled,
         bookings \subseteq bookings',
         \A b \in bookings' \ bookings : b.id \notin Ids(bookings)
  PROVE  /\ \A b, m : LinkedTo(m, b) => LinkedTo(m, b)'
         /\ \A i, m : Fits(i, m) => Fits(i, m)'
         /\ \A i, m : SyncFits(i, m) => SyncFits(i, m)'
<1>1. \A b, m : LinkedTo(m, b) => LinkedTo(m, b)'
  BY DEF LinkedTo, IsMarked
<1>2. Ids(bookings) \subseteq Ids(bookings')
  BY DEF Ids
<1>3. \A i, m : Fits(i, m) => Fits(i, m)'
  BY <1>1, <1>2 DEF Fits
<1>4. \A i, m : SyncFits(i, m) => SyncFits(i, m)'
  BY <1>2 DEF SyncFits
<1> QED
  BY <1>1, <1>3, <1>4

(* No step files a message in a booking it has no link to.                 *)
LEMMA LinkStep == TypeOK /\ BookInv /\ LinkInv /\ [Next]_vars => LinkInv'
<1> SUFFICES ASSUME TypeOK, BookInv, LinkInv, [Next]_vars PROVE LinkInv'
  OBVIOUS
<1> DEFINE Carried ==
             \A p \in Pollers : Appending(p)' =>
               Appending(p) /\ target'[p] = target[p] /\ msg'[p] = msg[p]
           Kept ==
             \A s \in Syncs : \A m \in (list[s] \cup held[s])' :
               m \in list[s] \cup held[s] /\ dest'[s] = dest[s]
<1>1. ASSUME UNCHANGED <<bookings, rows, misled, synced>>
      PROVE  /\ FiledWhereLinked'
             /\ \A i, m : Fits(i, m) => Fits(i, m)'
             /\ \A i, m : SyncFits(i, m) => SyncFits(i, m)'
  BY <1>1 DEF LinkInv, FiledWhereLinked, LinkedTo, IsMarked, Fits, SyncFits
<1>2. ASSUME UNCHANGED <<bookings, rows, misled, synced>>, Carried, Kept PROVE LinkInv'
  BY <1>1, <1>2 DEF LinkInv
<1>3. ASSUME UNCHANGED <<pc, target, msg>> PROVE Carried
  BY <1>3 DEF Appending
<1>4. ASSUME UNCHANGED syncVars PROVE Kept
  BY <1>4
<1>5. ASSUME NEW m \in Messages, Arrive(m) PROVE LinkInv'
  BY <1>2, <1>3, <1>4, <1>5 DEF Arrive
<1>6. ASSUME NEW p \in Pollers, StartPoll(p) \/ EndPoll(p) PROVE LinkInv'
  BY <1>2, <1>4, <1>6 DEF StartPoll, EndPoll, Appending, TypeOK
<1>7. ASSUME NEW p \in Pollers, NEW m \in Messages, Skip(p, m) \/ Take(p, m) PROVE LinkInv'
  BY <1>2, <1>4, <1>7 DEF Skip, Take, Goto, Appending, TypeOK
<1>8. ASSUME NEW p \in Pollers, FetchFiles(p) \/ IngestHawb(p) PROVE LinkInv'
  BY <1>2, <1>4, <1>8 DEF FetchFiles, IngestHawb, Goto, Appending, TypeOK
<1>9. ASSUME NEW p \in Pollers, PollerFault(p) PROVE LinkInv'
  BY <1>2, <1>4, <1>9 DEF PollerFault, FetchFails, IngestFails, Rollback, Crash, Goto,
     Continue, Appending, TypeOK
<1>10. ASSUME NEW p \in Pollers, Refused(p) \/ NextVal(p) PROVE LinkInv'
  BY <1>2, <1>4, <1>10 DEF Refused, NextVal, Goto, Continue, Appending, TypeOK
<1>11. ASSUME NEW p \in Pollers, Lookup(p) PROVE LinkInv'
  <2>1. msg[p] \in Messages /\ UNCHANGED <<bookings, rows, misled, synced, syncVars>>
    BY <1>11 DEF Lookup, TypeOK, Busy
  <2>2. \A q \in Pollers \ {p} : Appending(q)' =>
          Appending(q) /\ target'[q] = target[q] /\ msg'[q] = msg[q]
    BY <1>11 DEF Lookup, Goto, Continue, Appending, TypeOK
  <2>3. Appending(p)' => target'[p] \in FindExisting(msg[p]) /\ msg'[p] = msg[p]
    BY <1>11 DEF Lookup, Goto, Continue, Appending, TypeOK
  <2>4. Appending(p)' => Fits(target'[p], msg'[p])
    BY <2>1, <2>3, FoundFits
  <2> HIDE DEF Appending
  <2> QED
    BY <1>1, <2>1, <2>2, <2>4 DEF LinkInv
<1>12. ASSUME NEW p \in Pollers, CommitAppend(p) PROVE LinkInv'
  <2>1. /\ UNCHANGED <<bookings, misled, synced, syncVars>> /\ Appending(p)
        /\ rows' = rows \cup {<<target[p], msg[p]>>} /\ target[p] \in Ids(bookings)
    BY <1>12 DEF CommitAppend, Insert, Appending
  <2>2. Carried
    BY <1>12 DEF CommitAppend, Continue, Appending, TypeOK
  <2>3. /\ \A b, m : LinkedTo(m, b) => LinkedTo(m, b)'
        /\ \A i, m : Fits(i, m) => Fits(i, m)'
        /\ \A i, m : SyncFits(i, m) => SyncFits(i, m)'
    BY <2>1, LinksGrow
  <2>4. Fits(target[p], msg[p])
    BY <2>1 DEF LinkInv
  <2>5. FiledWhereLinked'
    BY <2>1, <2>3, <2>4 DEF LinkInv, FiledWhereLinked, Fits
  <2> QED
    BY <2>1, <2>2, <2>3, <2>5 DEF LinkInv
<1>13. ASSUME NEW p \in Pollers, CommitOpen(p) PROVE LinkInv'
  <2>1. PICK new \in Opened(target[p], msg[p]) : bookings' = bookings \cup {new}
    BY <1>13 DEF CommitOpen
  <2>2. new.id = target[p] /\ new.by = msg[p]
    BY <2>1 DEF Opened
  <2>3. /\ UNCHANGED <<misled, synced, syncVars>>
        /\ rows' = rows \cup {<<new.id, new.by>>}
    BY <1>13, <2>2 DEF CommitOpen, Insert
  <2>4. new.id \notin Ids(bookings)
    BY <1>13, <2>2 DEF CommitOpen, BookInv, Opening
  <2>5. Carried
    BY <1>13 DEF CommitOpen, Continue, Appending, TypeOK
  <2>6. /\ \A b, m : LinkedTo(m, b) => LinkedTo(m, b)'
        /\ \A i, m : Fits(i, m) => Fits(i, m)'
        /\ \A i, m : SyncFits(i, m) => SyncFits(i, m)'
    BY <2>1, <2>3, <2>4, LinksGrow
  <2>7. (\A r \in rows : r[1] # new.id) /\ (\A b \in bookings : b.id # new.id)
    BY <2>4 DEF BookInv, RowsMatchBookings, Ids
  <2>8. FiledWhereLinked'
    BY <2>1, <2>3, <2>6, <2>7 DEF LinkInv, FiledWhereLinked
  <2> QED
    BY <2>3, <2>5, <2>6, <2>8 DEF LinkInv
<1>14. ASSUME NEW s \in Syncs, NEW b \in bookings, StartSync(s, b) PROVE LinkInv'
  <2>1. PICK r \in rows :
          /\ r[1] = b.id
          /\ list' = [list EXCEPT
                ![s] = {m \in mailbox : Conversation[m] = Conversation[r[2]]}]
    BY <1>14 DEF StartSync
  <2>2. /\ held' = held /\ held[s] = {} /\ dest'[s] = b.id
        /\ \A t \in Syncs \ {s} : list'[t] = list[t] /\ dest'[t] = dest[t]
        /\ \A m \in list'[s] : Conversation[m] = Conversation[r[2]]
        /\ UNCHANGED <<bookings, rows, misled, synced, pc, target, msg>>
    BY <1>14, <2>1 DEF StartSync, TypeOK
  <2>3. \A m \in list'[s] : r[2] = m => <<b.id, m>> \in rows
    BY <2>1 DEF TypeOK
  <2>4. \A m \in list'[s] : SyncFits(b.id, m)
    BY <2>1, <2>2, <2>3 DEF SyncFits, Ids
  <2>5. /\ FiledWhereLinked'
        /\ \A i, m : Fits(i, m) => Fits(i, m)'
        /\ \A i, m : SyncFits(i, m) => SyncFits(i, m)'
    BY <1>1, <2>2
  <2>6. \A p \in Pollers : Appending(p)' => Fits(target[p], msg[p])'
    BY <2>2, <2>5 DEF LinkInv, Appending
  <2>7. \A t \in Syncs \ {s} : \A m \in list[t] \cup held[t] : SyncFits(dest[t], m)'
    BY <2>2, <2>5 DEF LinkInv
  <2>8. \A t \in Syncs : \A m \in (list[t] \cup held[t])' : SyncFits(dest[t], m)'
    BY <2>2, <2>4, <2>5, <2>7
  <2> QED
    BY <2>5, <2>6, <2>8 DEF LinkInv
<1>15. ASSUME NEW s \in Syncs, NEW m \in Messages, SyncSkip(s, m) \/ SyncInsert(s, m)
       PROVE  LinkInv'
  <2>1. Kept
    BY <1>15 DEF SyncSkip, SyncInsert, TypeOK
  <2> QED
    BY <1>2, <1>3, <1>15, <2>1 DEF SyncSkip, SyncInsert
<1>16. ASSUME NEW s \in Syncs, EndSync(s) PROVE Kept
  BY <1>16 DEF EndSync, TypeOK
<1>17. ASSUME NEW s \in Syncs, SyncRefused(s) \/ SyncFails(s) PROVE LinkInv'
  BY <1>2, <1>3, <1>16, <1>17 DEF SyncRefused, SyncFails
<1>18. ASSUME NEW s \in Syncs, CommitSync(s) PROVE LinkInv'
  <2>1. /\ rows' = rows \cup {<<dest[s], m>> : m \in held[s]} /\ synced' = synced \cup held[s]
        /\ UNCHANGED <<bookings, misled, pc, target, msg>> /\ EndSync(s)
    BY <1>18 DEF CommitSync, Insert
  <2>2. /\ \A b, m : LinkedTo(m, b) => LinkedTo(m, b)'
        /\ \A i, m : Fits(i, m) => Fits(i, m)'
        /\ \A i, m : SyncFits(i, m) => SyncFits(i, m)'
    BY <2>1, LinksGrow
  <2>3. \A m \in held[s] : SyncFits(dest[s], m)
    BY DEF LinkInv
  <2>4. \A m \in held[s] : \A b \in bookings :
          b.id = dest[s] => \/ <<dest[s], m>> \in misled \cup rows
                            \/ LinkedTo(m, b)'
    BY <2>1, <2>3 DEF SyncFits, LinkedTo
  <2>5. FiledWhereLinked'
    BY <2>1, <2>2, <2>4 DEF LinkInv, FiledWhereLinked
  <2> QED
    BY <1>3, <1>16, <2>1, <2>2, <2>5 DEF LinkInv
<1>19. ASSUME NEW id \in BookingIds, NEW t \in DeskTitles, NEW m \in Messages \cup {NoMessage},
              CreateBooking(id, t, m)
       PROVE  LinkInv'
  <2> DEFINE new == [id |-> id, by |-> m, title |-> t, titles |-> {t},
                     assigned |-> FALSE, desk |-> TRUE]
  <2>1. /\ bookings' = bookings \cup {new} /\ id \notin Ids(bookings)
        /\ rows' = rows \cup ({id} \X ({m} \ {NoMessage}))
        /\ UNCHANGED <<misled, synced, syncVars, pc, target, msg>>
    BY <1>19 DEF CreateBooking
  <2>2. new.id = id /\ new.by = m
    OBVIOUS
  <2> HIDE DEF new
  <2>3. /\ \A b, n : LinkedTo(n, b) => LinkedTo(n, b)'
        /\ \A i, n : Fits(i, n) => Fits(i, n)'
        /\ \A i, n : SyncFits(i, n) => SyncFits(i, n)'
    BY <2>1, <2>2, LinksGrow
  <2>4. (\A r \in rows : r[1] # id) /\ (\A b \in bookings : b.id # id)
    BY <2>1 DEF BookInv, RowsMatchBookings, Ids
  <2>5. FiledWhereLinked'
    BY <2>1, <2>2, <2>3, <2>4 DEF LinkInv, FiledWhereLinked
  <2> QED
    BY <1>3, <1>4, <2>1, <2>3, <2>5 DEF LinkInv
<1>20. ASSUME NEW b \in bookings, NEW t \in DeskTitles \cup {b.title}, NEW a \in BOOLEAN,
              UpdateBooking(b, t, a)
       PROVE  LinkInv'
  <2>1. PICK new : /\ new = [b EXCEPT !.title = t, !.titles = @ \cup {t}, !.assigned = @ \/ a]
                   /\ bookings' = (bookings \ {b}) \cup {new}
    BY <1>20 DEF UpdateBooking
  <2>2. /\ new.id = b.id /\ new.by = b.by /\ b.titles \subseteq new.titles
        /\ bookings' = (bookings \ {b}) \cup {new}
        /\ UNCHANGED <<rows, misled, synced, syncVars, pc, target, msg>>
    BY <1>20, <2>1 DEF UpdateBooking, TypeOK, Booking
  <2>3. Ids(bookings') = Ids(bookings)
    BY <2>2 DEF Ids
  <2>4. \A c, m : LinkedTo(m, c) => LinkedTo(m, c)'
    BY <2>2 DEF LinkedTo, IsMarked
  <2>5. \A m : LinkedTo(m, b) => LinkedTo(m, new)'
    BY <2>2 DEF LinkedTo, IsMarked
  <2>6. \A i, m : Fits(i, m) => Fits(i, m)'
    BY <2>2, <2>3, <2>4, <2>5 DEF Fits
  <2>7. \A i, m : SyncFits(i, m) => SyncFits(i, m)'
    BY <2>2, <2>3 DEF SyncFits
  <2>8. FiledWhereLinked'
    BY <2>2, <2>4, <2>5 DEF LinkInv, FiledWhereLinked
  <2> QED
    BY <1>3, <1>4, <2>2, <2>6, <2>7, <2>8 DEF LinkInv
<1>21. ASSUME NEW b \in bookings, DeleteBooking(b) PROVE LinkInv'
  <2>1. /\ bookings' = bookings \ {b} /\ rows' = {r \in rows : r[1] # b.id}
        /\ misled' = misled \cup Coming(b.id)
        /\ UNCHANGED <<synced, syncVars, pc, target, msg>>
        /\ \A s \in Syncs : dest[s] = b.id => held[s] = {}
    BY <1>21 DEF DeleteBooking, Deletable
  <2>2. Ids(bookings') = Ids(bookings) \ {b.id}
    BY <2>1 DEF BookInv, UniqueIds, Ids
  <2>3. \A c, m : c.id # b.id /\ LinkedTo(m, c) => LinkedTo(m, c)'
    BY <2>1 DEF LinkedTo, IsMarked
  <2>4. \A c \in bookings' : c.id # b.id
    BY <2>1 DEF BookInv, UniqueIds
  <2>5. \A i, m : i # b.id /\ Fits(i, m) => Fits(i, m)'
    BY <2>1, <2>2, <2>3 DEF Fits
  <2>6. \A i, m : i # b.id /\ SyncFits(i, m) => SyncFits(i, m)'
    BY <2>1, <2>2 DEF SyncFits
  <2>7. FiledWhereLinked'
    BY <2>1, <2>3, <2>4 DEF LinkInv, FiledWhereLinked
  <2>8. \A p \in Pollers : Appending(p)' => Fits(target[p], msg[p])'
    <3>1. \A p \in Pollers : Appending(p) /\ target[p] = b.id
                               => <<b.id, msg[p]>> \in misled'
      BY <2>1 DEF Coming, Appending
    <3> QED
      BY <2>1, <2>5, <3>1 DEF LinkInv, Fits, Appending
  <2>9. \A s \in Syncs : \A m \in (list[s] \cup held[s])' : SyncFits(dest[s], m)'
    <3>1. \A s \in Syncs : dest[s] = b.id => \A m \in list[s] : <<b.id, m>> \in misled'
      BY <2>1 DEF Coming
    <3>2. ASSUME NEW s \in Syncs, NEW m \in list[s] \cup held[s] PROVE SyncFits(dest[s], m)'
      <4>1. CASE dest[s] = b.id
        BY <2>1, <3>1, <4>1 DEF SyncFits
      <4>2. CASE dest[s] # b.id
        BY <2>1, <2>6, <4>2 DEF LinkInv
      <4> QED
        BY <4>1, <4>2
    <3> QED
      BY <2>1, <3>2
  <2> QED
    BY <2>1, <2>7, <2>8, <2>9 DEF LinkInv
<1>22. ASSUME UNCHANGED vars PROVE LinkInv'
  BY <1>2, <1>3, <1>4, <1>22 DEF vars
<1> HIDE DEF Carried, Kept
<1>23. ASSUME NEW p \in Pollers, PollerStep(p) \/ PollerFault(p) PROVE LinkInv'
  BY <1>6, <1>7, <1>8, <1>9, <1>10, <1>11, <1>12, <1>13, <1>23 DEF PollerStep
<1>24. ASSUME NEW s \in Syncs, SyncStep(s) \/ SyncFails(s) PROVE LinkInv'
  BY <1>15, <1>17, <1>18, <1>24 DEF SyncStep
<1>25. ASSUME DeskStep PROVE LinkInv'
  <2>1. CASE \E id \in BookingIds, t \in DeskTitles, m \in Messages \cup {NoMessage} :
               CreateBooking(id, t, m)
    BY <1>19, <2>1
  <2>2. CASE \E b \in bookings : \E t \in DeskTitles \cup {b.title}, a \in BOOLEAN :
               UpdateBooking(b, t, a)
    BY <1>20, <2>2
  <2>3. CASE \E b \in bookings : DeleteBooking(b)
    BY <1>21, <2>3
  <2> QED
    BY <1>25, <2>1, <2>2, <2>3 DEF DeskStep
<1> QED
  BY <1>5, <1>14, <1>22, <1>23, <1>24, <1>25 DEF Next

(* A message is only ever found in the booking it opened or in one that    *)
(* some link of its thread leads to, though the booking is found in one    *)
(* transaction and written in a later one, with deletions, syncs and the   *)
(* desk in between.                                                        *)
THEOREM RepliesAreLinked == Spec => []FiledWhereLinked
<1>1. Init => LinkInv
  BY DEF Init, LinkInv, FiledWhereLinked, Appending
<1>2. TypeOK /\ BookInv /\ LinkInv /\ [Next]_vars => LinkInv'
  BY LinkStep
<1>3. LinkInv => FiledWhereLinked
  BY DEF LinkInv
<1> QED
  BY <1>1, <1>2, <1>3, TypeCorrect, BookingsCorrect, PTL DEF Spec

-----------------------------------------------------------------------------
(* Splits.  A message that opened a booking, or is about to, and names a   *)
(* stored message was early: the lookup would have found what was there,   *)
(* and whatever is stored afterwards marks the messages looked up before.  *)

Named(m) == \E r \in rows : r[2] \in Refs[m] \cap Identified

EarlyInv ==
    /\ \A b \in bookings : ~ b.desk =>
         b.by \in Messages /\ recorded[b.by] > 0 /\ (Named(b.by) => b.by \in early)
    /\ \A p \in Pollers :
         pc[p] \in {"create", "open"} /\ Named(msg[p]) => msg[p] \in early

(* After an insert, what was looked up before is early or names nothing.   *)
LEMMA InsertMarks ==
  ASSUME NEW b, NEW ms, Insert(b, ms), NEW m \in LookedUp, Named(m) => m \in early
  PROVE  Named(m)' => m \in early'
<1>1. rows' = rows \cup {<<b, x>> : x \in ms} /\ early \subseteq early'
  BY DEF Insert
<1> SUFFICES ASSUME NEW r \in rows', r[2] \in Refs[m] \cap Identified PROVE m \in early'
  BY DEF Named
<1>2. CASE \E q \in rows : q[2] = r[2]
  BY <1>1, <1>2 DEF Named
<1>3. CASE \A q \in rows : q[2] # r[2]
  <2>1. r[2] \in ms \cap Refs[m] /\ ~ Stored(r[2])
    BY <1>1, <1>3 DEF Stored
  <2> QED
    BY <2>1 DEF Insert
<1> QED
  BY <1>2, <1>3

(* No step splits a thread whose messages are stored in order.             *)
LEMMA EarlyStep == TypeOK /\ EarlyInv /\ [Next]_vars => EarlyInv'
<1> SUFFICES ASSUME TypeOK, EarlyInv, [Next]_vars PROVE EarlyInv'
  OBVIOUS
<1> DEFINE Carried ==
             \A p \in Pollers : pc'[p] \in {"create", "open"} =>
               pc[p] \in {"create", "open"} /\ msg'[p] = msg[p]
<1>1. ASSUME UNCHANGED <<bookings, rows, early, recorded>>, Carried PROVE EarlyInv'
  BY <1>1 DEF EarlyInv, Named
<1>2. ASSUME UNCHANGED <<pc, msg>> PROVE Carried
  BY <1>2
<1>3. ASSUME NEW b, NEW ms, Insert(b, ms) PROVE
        /\ early \subseteq early'
        /\ \A c \in bookings : ~ c.desk => (Named(c.by)' => c.by \in early')
        /\ \A p \in Pollers, m \in Messages :
             pc[p] \in {"create", "open"} /\ msg[p] = m => (Named(m)' => m \in early')
        /\ \A p \in Pollers : pc[p] \in {"create", "open"} => msg[p] \in Messages
  <2>1. \A c \in bookings : ~ c.desk => c.by \in LookedUp
    BY DEF EarlyInv, LookedUp
  <2>2. \A p \in Pollers : pc[p] \in {"create", "open"} => msg[p] \in LookedUp
    BY DEF LookedUp, TypeOK, Busy
  <2>3. \A m \in LookedUp : (Named(m) => m \in early) => (Named(m)' => m \in early')
    BY <1>3, InsertMarks
  <2>4. early \subseteq early'
    BY <1>3 DEF Insert
  <2> HIDE DEF LookedUp
  <2>5. \A c \in bookings : ~ c.desk => (Named(c.by)' => c.by \in early')
    BY <2>1, <2>3 DEF EarlyInv
  <2>6. \A p \in Pollers, m \in Messages :
          pc[p] \in {"create", "open"} /\ msg[p] = m => (Named(m)' => m \in early')
    BY <2>2, <2>3 DEF EarlyInv
  <2>7. \A p \in Pollers : pc[p] \in {"create", "open"} => msg[p] \in Messages
    BY DEF TypeOK, Busy
  <2> QED
    BY <2>4, <2>5, <2>6, <2>7
<1>4. ASSUME NEW m \in Messages, Arrive(m) PROVE EarlyInv'
  BY <1>1, <1>2, <1>4 DEF Arrive
<1>5. ASSUME NEW p \in Pollers, StartPoll(p) \/ EndPoll(p) PROVE EarlyInv'
  BY <1>1, <1>5 DEF StartPoll, EndPoll, TypeOK
<1>6. ASSUME NEW p \in Pollers, NEW m \in Messages, Skip(p, m) \/ Take(p, m) PROVE EarlyInv'
  BY <1>1, <1>6 DEF Skip, Take, Goto, TypeOK
<1>7. ASSUME NEW p \in Pollers, FetchFiles(p) \/ IngestHawb(p) PROVE EarlyInv'
  BY <1>1, <1>7 DEF FetchFiles, IngestHawb, Goto, TypeOK
<1>8. ASSUME NEW p \in Pollers, PollerFault(p) PROVE EarlyInv'
  BY <1>1, <1>8 DEF PollerFault, FetchFails, IngestFails, Rollback, Crash, Goto, Continue,
     TypeOK
<1>9. ASSUME NEW p \in Pollers, Refused(p) \/ NextVal(p) PROVE EarlyInv'
  BY <1>1, <1>9 DEF Refused, NextVal, Continue, Goto, TypeOK
<1>10. ASSUME NEW p \in Pollers, Lookup(p) PROVE EarlyInv'
  <2>1. /\ UNCHANGED <<bookings, rows, early, recorded>>
        /\ \A q \in Pollers \ {p} : pc'[q] = pc[q] /\ msg'[q] = msg[q]
    BY <1>10 DEF Lookup, Goto, Continue, TypeOK
  <2>2. pc'[p] \in {"create", "open"} => FindExisting(msg[p]) = {} /\ msg'[p] = msg[p]
    BY <1>10 DEF Lookup, Goto, Continue, TypeOK
  <2>3. FindExisting(msg[p]) = {} => ~ Named(msg[p])
    BY DEF FindExisting, HeaderHits, Named
  <2> QED
    BY <2>1, <2>2, <2>3 DEF EarlyInv, Named
<1>11. ASSUME NEW p \in Pollers, CommitAppend(p) PROVE EarlyInv'
  <2>1. /\ bookings' = bookings /\ Insert(target[p], {msg[p]}) /\ msg[p] \in Messages
        /\ recorded' = [recorded EXCEPT ![msg[p]] = @ + 1]
    BY <1>11 DEF CommitAppend, Tally, TypeOK, Busy
  <2>2. \A m \in Messages : recorded[m] > 0 => recorded'[m] > 0
    BY <2>1 DEF TypeOK
  <2>3. Carried
    BY <1>11 DEF CommitAppend, Continue, TypeOK
  <2> QED
    BY <1>3, <2>1, <2>2, <2>3 DEF EarlyInv
<1>12. ASSUME NEW p \in Pollers, CommitOpen(p) PROVE EarlyInv'
  <2>1. PICK new \in Opened(target[p], msg[p]) : bookings' = bookings \cup {new}
    BY <1>12 DEF CommitOpen
  <2>2. new.by = msg[p] /\ msg[p] \in Messages /\ pc[p] = "open"
    BY <1>12, <2>1 DEF Opened, CommitOpen, TypeOK, Busy
  <2>3. /\ Insert(target[p], {msg[p]})
        /\ recorded' = [recorded EXCEPT ![msg[p]] = @ + 1]
    BY <1>12 DEF CommitOpen, Tally
  <2>4. recorded'[msg[p]] > 0 /\ \A m \in Messages : recorded[m] > 0 => recorded'[m] > 0
    BY <2>2, <2>3 DEF TypeOK
  <2>5. \A m \in Messages : msg[p] = m => (Named(m)' => m \in early')
    BY <1>3, <2>2, <2>3
  <2>6. Carried
    BY <1>12 DEF CommitOpen, Continue, TypeOK
  <2>7. \A b \in bookings' : ~ b.desk =>
          /\ b.by \in Messages /\ recorded'[b.by] > 0
          /\ Named(b.by)' => b.by \in early'
    BY <1>3, <2>1, <2>2, <2>3, <2>4, <2>5 DEF EarlyInv
  <2>8. (\A q \in Pollers :
          pc[q] \in {"create", "open"} /\ Named(msg[q]) => msg[q] \in early)'
    BY <1>3, <2>3, <2>6
  <2> QED
    BY <2>7, <2>8 DEF EarlyInv
<1>13. ASSUME NEW s \in Syncs, CommitSync(s) PROVE EarlyInv'
  <2>1. /\ UNCHANGED <<bookings, pc, msg>> /\ Insert(dest[s], held[s])
        /\ \A m \in Messages : recorded'[m] = recorded[m] \/ recorded'[m] = recorded[m] + 1
    BY <1>13 DEF CommitSync
  <2>2. \A m \in Messages : recorded[m] > 0 => recorded'[m] > 0
    BY <2>1 DEF TypeOK
  <2> QED
    BY <1>3, <2>1, <2>2 DEF EarlyInv
<1>14. ASSUME NEW s \in Syncs, NEW b \in bookings, StartSync(s, b) PROVE EarlyInv'
  BY <1>1, <1>2, <1>14 DEF StartSync
<1>15. ASSUME NEW s \in Syncs, SyncStep(s) \/ SyncFails(s), ~ CommitSync(s) PROVE EarlyInv'
  BY <1>1, <1>2, <1>15 DEF SyncStep, SyncSkip, SyncInsert, SyncRefused, SyncFails
<1>16. ASSUME NEW id \in BookingIds, NEW t \in DeskTitles, NEW m \in Messages \cup {NoMessage},
              CreateBooking(id, t, m)
       PROVE  EarlyInv'
  <2> DEFINE new == [id |-> id, by |-> m, title |-> t, titles |-> {t},
                     assigned |-> FALSE, desk |-> TRUE]
  <2>1. /\ bookings' = bookings \cup {new} /\ UNCHANGED <<early, recorded, pc, msg>>
        /\ rows' = rows \cup ({id} \X ({m} \ {NoMessage}))
        /\ m # NoMessage => Stored(m)
    BY <1>16 DEF CreateBooking
  <2>2. new.desk
    OBVIOUS
  <2> HIDE DEF new
  <2>3. \A n : Named(n)' => Named(n)
    BY <2>1 DEF Named, Stored
  <2> QED
    BY <2>1, <2>2, <2>3 DEF EarlyInv
<1>17. ASSUME NEW b \in bookings, NEW t \in DeskTitles \cup {b.title}, NEW a \in BOOLEAN,
              UpdateBooking(b, t, a)
       PROVE  EarlyInv'
  <2>1. PICK new : /\ new = [b EXCEPT !.title = t, !.titles = @ \cup {t}, !.assigned = @ \/ a]
                   /\ bookings' = (bookings \ {b}) \cup {new}
    BY <1>17 DEF UpdateBooking
  <2>2. /\ new.by = b.by /\ new.desk = b.desk
        /\ bookings' = (bookings \ {b}) \cup {new}
        /\ UNCHANGED <<rows, early, recorded, pc, msg>>
    BY <1>17, <2>1 DEF UpdateBooking, TypeOK, Booking
  <2> QED
    BY <2>2 DEF EarlyInv, Named
<1>18. ASSUME NEW b \in bookings, DeleteBooking(b) PROVE EarlyInv'
  <2>1. /\ bookings' \subseteq bookings /\ rows' \subseteq rows
        /\ UNCHANGED <<early, recorded, pc, msg>>
    BY <1>18 DEF DeleteBooking
  <2> QED
    BY <2>1 DEF EarlyInv, Named
<1>19. ASSUME UNCHANGED vars PROVE EarlyInv'
  BY <1>1, <1>2, <1>19 DEF vars
<1> HIDE DEF Carried
<1>20. ASSUME NEW p \in Pollers, PollerStep(p) \/ PollerFault(p) PROVE EarlyInv'
  BY <1>5, <1>6, <1>7, <1>8, <1>9, <1>10, <1>11, <1>12, <1>20 DEF PollerStep
<1>21. ASSUME DeskStep PROVE EarlyInv'
  <2>1. CASE \E id \in BookingIds, t \in DeskTitles, m \in Messages \cup {NoMessage} :
               CreateBooking(id, t, m)
    BY <1>16, <2>1
  <2>2. CASE \E b \in bookings : \E t \in DeskTitles \cup {b.title}, a \in BOOLEAN :
               UpdateBooking(b, t, a)
    BY <1>17, <2>2
  <2>3. CASE \E b \in bookings : DeleteBooking(b)
    BY <1>18, <2>3
  <2> QED
    BY <1>21, <2>1, <2>2, <2>3 DEF DeskStep
<1> QED
  BY <1>4, <1>13, <1>14, <1>15, <1>19, <1>20, <1>21 DEF Next

(* However many pollers and syncs run, and whatever fails or is deleted, a *)
(* thread is split only by a reply that was looked up before the message   *)
(* it names was stored.                                                    *)
THEOREM SplitsAreEarly == Spec => []SplitsHaveACause
<1>1. Init => EarlyInv
  BY DEF Init, EarlyInv
<1>2. TypeOK /\ EarlyInv /\ [Next]_vars => EarlyInv'
  BY EarlyStep
<1>3. EarlyInv => SplitsHaveACause
  BY DEF EarlyInv, Named, SplitsHaveACause
<1> QED
  BY <1>1, <1>2, <1>3, TypeCorrect, PTL DEF Spec

=============================================================================
