-------------------------- MODULE MailThreadProofs --------------------------
(***************************************************************************)
(* What module MailThread promises, for any mail, any number of pollers    *)
(* and of syncs.                                                           *)
(***************************************************************************)
EXTENDS MailThread, TLAPS

-----------------------------------------------------------------------------
(* Types.                                                                  *)

(* An empty thread without writers is of the right types.                  *)
LEMMA TypeInit == Init => TypeOK
  BY ThreadAssumption DEF Init, TypeOK, Kinds

(* No writer leaves the types.                                             *)
LEMMA TypeStep == TypeOK /\ [Next]_vars => TypeOK'
<1> SUFFICES ASSUME TypeOK, [Next]_vars PROVE TypeOK'
  OBVIOUS
<1> USE ThreadAssumption DEF TypeOK, Kinds, Mails, Fault, Overlap, replyVars, pollVars, syncVars
<1>1. ASSUME NEW m \in Others, Appear(m) PROVE TypeOK'
  BY <1>1 DEF Appear
<1>2. ASSUME NEW r \in Replies, StartReply(r) PROVE TypeOK'
  BY <1>2 DEF StartReply
<1>3. ASSUME NEW r \in Replies, GraphSends(r) PROVE TypeOK'
  BY <1>3 DEF GraphSends
<1>4. ASSUME NEW r \in Replies, PersistReply(r) PROVE TypeOK'
  BY <1>4 DEF PersistReply
<1>5. ASSUME NEW r \in Replies, SendFails(r) \/ ReplyDies(r) PROVE TypeOK'
  <2>1. faults' \in 0..MaxFaults
    BY <1>5 DEF SendFails, ReplyDies
  <2>2. reply' \in [Replies -> {"new", "sending", "sent", "stored", "dead"}]
    BY <1>5 DEF SendFails, ReplyDies
  <2> QED
    BY <1>5, <2>1, <2>2 DEF SendFails, ReplyDies
<1>6. ASSUME NEW p \in Pollers, NEW m \in Mails, PollerTakes(p, m) PROVE TypeOK'
  BY <1>6 DEF PollerTakes
<1>7. ASSUME NEW p \in Pollers, PollerStores(p) PROVE TypeOK'
  BY <1>7 DEF PollerStores, PollerDone
<1>8. ASSUME NEW p \in Pollers, PollerRefused(p) \/ PollerFails(p) PROVE TypeOK'
  BY <1>8 DEF PollerRefused, PollerFails, PollerDone
<1>9. ASSUME NEW s \in Syncs, StartSync(s) PROVE TypeOK'
  BY <1>9 DEF StartSync
<1>10. ASSUME NEW s \in Syncs, NEW m \in Mails, SyncSkips(s, m) PROVE TypeOK'
  BY <1>10 DEF SyncSkips
<1>11. ASSUME NEW s \in Syncs, NEW m \in Mails, SyncAdds(s, m) PROVE TypeOK'
  BY <1>11 DEF SyncAdds
<1>12. ASSUME NEW s \in Syncs, SyncEnters(s) PROVE TypeOK'
  BY <1>12 DEF SyncEnters
<1>13. ASSUME NEW s \in Syncs, SyncCommits(s) PROVE TypeOK'
  BY <1>13 DEF SyncCommits, SyncEnds
<1>14. ASSUME NEW s \in Syncs, SyncFails(s) PROVE TypeOK'
  BY <1>14 DEF SyncFails, SyncEnds
<1>15. ASSUME UNCHANGED vars PROVE TypeOK'
  BY <1>15 DEF vars
<1> QED
  BY <1>1, <1>2, <1>3, <1>4, <1>5, <1>6, <1>7, <1>8, <1>9, <1>10, <1>11, <1>12,
     <1>13, <1>14, <1>15 DEF Next, ReplyStep, PollerStep, SyncStep

(* The type invariant holds for any thread and any writers.                *)
THEOREM TypeCorrect == Spec => []TypeOK
  BY TypeInit, TypeStep, PTL DEF Spec

-----------------------------------------------------------------------------
(* The writers and what they have in hand.  A mail that a poller or a sync *)
(* is at work on was sent, and a sync enters only what it has stored.      *)

HandInv ==
    /\ \A p \in Pollers : pc[p] = "store" => mail[p] \in visible
    /\ \A s \in Syncs :
         /\ list[s] \subseteq visible /\ draft[s] \subseteq visible
         /\ held[s] \subseteq draft[s]
         /\ sync[s] = "enter" => entry[s] \in draft[s]
         /\ sync[s] = "idle" => draft[s] = {}
    /\ \A r \in Replies :
         /\ reply[r] \in {"new", "sending"} => r \notin visible
         /\ reply[r] = "sent" => r \in visible

(* Nobody has anything in hand at the start.                               *)
LEMMA HandInit == Init => HandInv
  BY DEF Init, HandInv

(* What a writer takes was listed by Graph, and stays so.                  *)
LEMMA HandStep == TypeOK /\ HandInv /\ [Next]_vars => HandInv'
<1> SUFFICES ASSUME TypeOK, HandInv, [Next]_vars PROVE HandInv'
  OBVIOUS
<1> USE ThreadAssumption DEF TypeOK, HandInv, Mails, replyVars, pollVars, syncVars
<1>1. ASSUME NEW m \in Others, Appear(m) PROVE HandInv'
  BY <1>1 DEF Appear
<1>2. ASSUME NEW r \in Replies, StartReply(r) PROVE HandInv'
  BY <1>2 DEF StartReply
<1>3. ASSUME NEW r \in Replies, GraphSends(r) PROVE HandInv'
  BY <1>3 DEF GraphSends
<1>4. ASSUME NEW r \in Replies, PersistReply(r) \/ SendFails(r) \/ ReplyDies(r)
      PROVE  HandInv'
  BY <1>4 DEF PersistReply, SendFails, ReplyDies
<1>5. ASSUME NEW p \in Pollers, NEW m \in Mails, PollerTakes(p, m) PROVE HandInv'
  BY <1>5 DEF PollerTakes
<1>6. ASSUME NEW p \in Pollers, PollerStores(p) \/ PollerRefused(p) \/ PollerFails(p)
      PROVE  HandInv'
  BY <1>6 DEF PollerStores, PollerRefused, PollerFails, PollerDone
<1>7. ASSUME NEW s \in Syncs, StartSync(s) PROVE HandInv'
  BY <1>7 DEF StartSync
<1>8. ASSUME NEW s \in Syncs, NEW m \in Mails, SyncSkips(s, m) \/ SyncAdds(s, m)
      PROVE  HandInv'
  BY <1>8 DEF SyncSkips, SyncAdds
<1>9. ASSUME NEW s \in Syncs, SyncEnters(s) PROVE HandInv'
  BY <1>9 DEF SyncEnters
<1>10. ASSUME NEW s \in Syncs, SyncCommits(s) \/ SyncFails(s) PROVE HandInv'
  BY <1>10 DEF SyncCommits, SyncFails, SyncEnds
<1>11. ASSUME UNCHANGED vars PROVE HandInv'
  BY <1>11 DEF vars
<1> QED
  BY <1>1, <1>2, <1>3, <1>4, <1>5, <1>6, <1>7, <1>8, <1>9, <1>10, <1>11
     DEF Next, ReplyStep, PollerStep, SyncStep

-----------------------------------------------------------------------------
(* Rows and ledger.  A stored mail was sent, and it is in the ledger; a    *)
(* row that a sync has yet to commit is in the ledger, or held for it, or  *)
(* next to be entered.                                                     *)

StoreInv ==
    /\ LedgeredIsStored
    /\ NoPhantomReply
    /\ \A m \in Mails : RowsOf(m) > 0 => SeenByPoller(m)
    /\ \A s \in Syncs : \A m \in draft[s] :
         \/ m \in held[s]
         \/ <<"raw", m>> \in ledger
         \/ sync[s] = "enter" /\ entry[s] = m

(* The thread is empty at the start.                                       *)
LEMMA StoreInit == Init => StoreInv
<1> SUFFICES ASSUME Init PROVE StoreInv
  OBVIOUS
<1>1. \A m \in Mails : rows[<<"raw", m>>] = 0 /\ rows[<<"bts", m>>] = 0
  BY DEF Init, Kinds
<1>2. ASSUME NEW m \in Mails PROVE RowsOf(m) = 0
  <2>1. rows[<<"raw", m>>] = 0 /\ rows[<<"bts", m>>] = 0
    BY <1>1
  <2> QED
    BY <2>1 DEF RowsOf
<1> QED
  BY <1>2 DEF Init, StoreInv, LedgeredIsStored, NoPhantomReply

(* A step that changes neither rows nor ledger, nor what the syncs have    *)
(* flushed, keeps the invariant if no mail disappears.                     *)
LEMMA StoreKept ==
    ASSUME StoreInv, UNCHANGED <<ledger, rows, draft, held, sync, entry>>,
           visible \subseteq visible'
    PROVE  StoreInv'
  BY DEF StoreInv, LedgeredIsStored, NoPhantomReply, RowsOf, SeenByPoller

(* The rows of a mail when one is added for it under the id k.             *)
LEMMA RowAdded ==
    ASSUME TypeOK, NEW k \in Kinds, NEW m \in Mails,
           rows' = [rows EXCEPT ![<<k, m>>] = @ + 1]
    PROVE  /\ RowsOf(m)' = RowsOf(m) + 1
           /\ \A n \in Mails \ {m} : RowsOf(n)' = RowsOf(n)
           /\ \A n \in Mails : RowsOf(n) \in Nat
<1>1. \A n \in Mails : rows[<<"raw", n>>] \in Nat /\ rows[<<"bts", n>>] \in Nat
  BY DEF TypeOK, Kinds
<1>2. \A n \in Mails \ {m} : /\ rows'[<<"raw", n>>] = rows[<<"raw", n>>]
                            /\ rows'[<<"bts", n>>] = rows[<<"bts", n>>]
  BY DEF TypeOK, Kinds
<1>3. CASE k = "raw"
  <2>1. /\ rows'[<<"raw", m>>] = rows[<<"raw", m>>] + 1
        /\ rows'[<<"bts", m>>] = rows[<<"bts", m>>]
    BY <1>3 DEF TypeOK, Kinds
  <2> QED
    BY <1>1, <1>2, <2>1 DEF RowsOf
<1>4. CASE k = "bts"
  <2>1. /\ rows'[<<"bts", m>>] = rows[<<"bts", m>>] + 1
        /\ rows'[<<"raw", m>>] = rows[<<"raw", m>>]
    BY <1>4 DEF TypeOK, Kinds
  <2> QED
    BY <1>1, <1>2, <2>1 DEF RowsOf
<1> QED
  BY <1>3, <1>4 DEF Kinds

(* The rows of a mail when a sync commits.                                 *)
LEMMA RowsCommitted ==
    ASSUME TypeOK, NEW s \in Syncs, SyncCommits(s)
    PROVE  \A m \in Mails :
             /\ RowsOf(m) \in Nat
             /\ RowsOf(m)' = IF m \in draft[s] THEN RowsOf(m) + 1 ELSE RowsOf(m)
<1>1. \A m \in Mails : rows[<<"raw", m>>] \in Nat /\ rows[<<"bts", m>>] \in Nat
  BY DEF TypeOK, Kinds
<1>2. \A m \in Mails :
        /\ rows'[<<"bts", m>>] = rows[<<"bts", m>>]
        /\ rows'[<<"raw", m>>] = IF m \in draft[s] THEN rows[<<"raw", m>>] + 1
                                ELSE rows[<<"raw", m>>]
  BY DEF SyncCommits, Kinds
<1>3. ASSUME NEW m \in Mails
      PROVE  /\ RowsOf(m) \in Nat
             /\ RowsOf(m)' = IF m \in draft[s] THEN RowsOf(m) + 1 ELSE RowsOf(m)
  <2>1. CASE m \in draft[s]
    <3>1. /\ rows'[<<"bts", m>>] = rows[<<"bts", m>>]
          /\ rows'[<<"raw", m>>] = rows[<<"raw", m>>] + 1
      BY <1>2, <2>1
    <3> QED
      BY <1>1, <2>1, <3>1 DEF RowsOf
  <2>2. CASE m \notin draft[s]
    <3>1. /\ rows'[<<"bts", m>>] = rows[<<"bts", m>>]
          /\ rows'[<<"raw", m>>] = rows[<<"raw", m>>]
      BY <1>2, <2>2
    <3> QED
      BY <1>1, <2>2, <3>1 DEF RowsOf
  <2> QED
    BY <2>1, <2>2
<1> QED
  BY <1>3

(* Whoever stores a mail enters it, or has seen that it is entered.        *)
LEMMA StoreStep == TypeOK /\ HandInv /\ StoreInv /\ [Next]_vars => StoreInv'
<1> SUFFICES ASSUME TypeOK, HandInv, StoreInv, [Next]_vars PROVE StoreInv'
  OBVIOUS
<1> USE DEF replyVars, pollVars, syncVars
<1>1. ASSUME NEW m \in Others, Appear(m) PROVE StoreInv'
  BY <1>1, StoreKept DEF Appear
<1>2. ASSUME NEW r \in Replies, StartReply(r) \/ SendFails(r) \/ ReplyDies(r)
      PROVE  StoreInv'
  BY <1>2, StoreKept DEF StartReply, SendFails, ReplyDies
<1>3. ASSUME NEW r \in Replies, GraphSends(r) PROVE StoreInv'
  BY <1>3, StoreKept DEF GraphSends
<1>4. ASSUME NEW r \in Replies, PersistReply(r) PROVE StoreInv'
  <2>1. r \in Mails /\ r \in visible
    BY <1>4 DEF PersistReply, Mails, HandInv
  <2>2. /\ RowsOf(r)' = RowsOf(r) + 1
        /\ \A n \in Mails \ {r} : RowsOf(n)' = RowsOf(n)
        /\ \A n \in Mails : RowsOf(n) \in Nat
    BY <1>4, <2>1, RowAdded DEF PersistReply, Kinds
  <2> QED
    BY <1>4, <2>1, <2>2
       DEF PersistReply, StoreInv, LedgeredIsStored, NoPhantomReply, SeenByPoller, TypeOK
<1>5. ASSUME NEW p \in Pollers, NEW m \in Mails, PollerTakes(p, m) PROVE StoreInv'
  BY <1>5, StoreKept DEF PollerTakes
<1>6. ASSUME NEW p \in Pollers, PollerStores(p) PROVE StoreInv'
  <2>1. PICK m \in Mails : m = mail[p] /\ m \in visible
    BY <1>6, ThreadAssumption DEF PollerStores, TypeOK, HandInv
  <2>2. /\ RowsOf(m)' = RowsOf(m) + 1
        /\ \A n \in Mails \ {m} : RowsOf(n)' = RowsOf(n)
        /\ \A n \in Mails : RowsOf(n) \in Nat
    <3>1. rows' = [rows EXCEPT ![<<"raw", m>>] = @ + 1]
      BY <1>6, <2>1 DEF PollerStores
    <3>2. "raw" \in Kinds
      BY DEF Kinds
    <3> QED
      BY <3>1, <3>2, RowAdded
  <2>3. /\ visible' = visible /\ ledger' = ledger \cup {<<"raw", m>>}
        /\ UNCHANGED syncVars
    BY <1>6, <2>1 DEF PollerStores
  <2>4. LedgeredIsStored'
    BY <2>1, <2>2, <2>3 DEF StoreInv, LedgeredIsStored, TypeOK, Kinds
  <2>5. NoPhantomReply'
    BY <2>1, <2>2, <2>3 DEF StoreInv, NoPhantomReply
  <2>6. ASSUME NEW n \in Mails, RowsOf(n)' > 0 PROVE SeenByPoller(n)'
    BY <2>1, <2>2, <2>3, <2>6 DEF StoreInv, SeenByPoller
  <2>7. ASSUME NEW t \in Syncs, NEW n \in draft'[t]
        PROVE  \/ n \in held'[t]
               \/ <<"raw", n>> \in ledger'
               \/ sync'[t] = "enter" /\ entry'[t] = n
    BY <2>3, <2>7 DEF StoreInv
  <2> QED
    BY <2>4, <2>5, <2>6, <2>7 DEF StoreInv
<1>7. ASSUME NEW p \in Pollers, PollerRefused(p) \/ PollerFails(p) PROVE StoreInv'
  BY <1>7, StoreKept DEF PollerRefused, PollerFails
<1>8. ASSUME NEW s \in Syncs, StartSync(s) PROVE StoreInv'
  BY <1>8 DEF StartSync, StoreInv, LedgeredIsStored, NoPhantomReply, RowsOf,
              SeenByPoller, TypeOK
<1>9. ASSUME NEW s \in Syncs, NEW m \in Mails, SyncSkips(s, m) PROVE StoreInv'
  BY <1>9, StoreKept DEF SyncSkips
<1>10. ASSUME NEW s \in Syncs, NEW m \in Mails, SyncAdds(s, m) PROVE StoreInv'
  BY <1>10 DEF SyncAdds, StoreInv, LedgeredIsStored, NoPhantomReply, RowsOf,
               SeenByPoller, TypeOK
<1>11. ASSUME NEW s \in Syncs, SyncEnters(s) PROVE StoreInv'
  BY <1>11 DEF SyncEnters, StoreInv, LedgeredIsStored, NoPhantomReply, RowsOf,
               SeenByPoller, TypeOK
<1>12. ASSUME NEW s \in Syncs, SyncCommits(s) PROVE StoreInv'
  <2>1. \A m \in Mails :
          /\ RowsOf(m) \in Nat
          /\ RowsOf(m)' = IF m \in draft[s] THEN RowsOf(m) + 1 ELSE RowsOf(m)
    BY <1>12, RowsCommitted
  <2>2. /\ held[s] \subseteq draft[s] /\ draft[s] \subseteq visible
        /\ \A m \in draft[s] : m \in held[s] \/ <<"raw", m>> \in ledger
    BY <1>12 DEF SyncCommits, HandInv, StoreInv
  <2>3. visible' = visible /\ ledger' = ledger \cup {<<"raw", m>> : m \in held[s]}
    BY <1>12 DEF SyncCommits
  <2>4. LedgeredIsStored'
    BY <2>1, <2>2, <2>3 DEF StoreInv, LedgeredIsStored, TypeOK
  <2>5. NoPhantomReply'
    BY <2>1, <2>2, <2>3 DEF StoreInv, NoPhantomReply, TypeOK
  <2>6. ASSUME NEW m \in Mails, RowsOf(m)' > 0 PROVE SeenByPoller(m)'
    BY <2>1, <2>2, <2>3, <2>6 DEF StoreInv, SeenByPoller
  <2>7. ASSUME NEW t \in Syncs, NEW m \in draft'[t]
        PROVE  \/ m \in held'[t]
               \/ <<"raw", m>> \in ledger'
               \/ sync'[t] = "enter" /\ entry'[t] = m
    BY <1>12, <2>3, <2>7 DEF SyncCommits, SyncEnds, StoreInv, TypeOK
  <2> QED
    BY <2>4, <2>5, <2>6, <2>7 DEF StoreInv
<1>13. ASSUME NEW s \in Syncs, SyncFails(s) PROVE StoreInv'
  BY <1>13 DEF SyncFails, SyncEnds, StoreInv, LedgeredIsStored, NoPhantomReply, RowsOf,
               SeenByPoller, TypeOK
<1>14. ASSUME UNCHANGED vars PROVE StoreInv'
  BY <1>14, StoreKept DEF vars
<1> QED
  BY <1>1, <1>2, <1>3, <1>4, <1>5, <1>6, <1>7, <1>8, <1>9, <1>10, <1>11, <1>12,
     <1>13, <1>14 DEF Next, ReplyStep, PollerStep, SyncStep

(* What the ledger closes is stored, for any writers.                      *)
THEOREM StoredIfLedgered == Spec => []LedgeredIsStored
<1>1. TypeOK /\ HandInv /\ StoreInv /\ [Next]_vars => StoreInv'
  BY StoreStep
<1>2. TypeOK /\ HandInv /\ [Next]_vars => HandInv'
  BY HandStep
<1>3. StoreInv => LedgeredIsStored
  BY DEF StoreInv
<1> QED
  BY <1>1, <1>2, <1>3, TypeInit, TypeStep, HandInit, StoreInit, PTL DEF Spec

(* Only what was sent, or received, is in the thread.                      *)
THEOREM NothingPhantom == Spec => []NoPhantomReply
<1>1. TypeOK /\ HandInv /\ StoreInv /\ [Next]_vars => StoreInv'
  BY StoreStep
<1>2. TypeOK /\ HandInv /\ [Next]_vars => HandInv'
  BY HandStep
<1>3. StoreInv => NoPhantomReply
  BY DEF StoreInv
<1> QED
  BY <1>1, <1>2, <1>3, TypeInit, TypeStep, HandInit, StoreInit, PTL DEF Spec

-----------------------------------------------------------------------------
(* Duplicates.  A mail that no two writers were storing at once has at     *)
(* most one writer, and as long as it has one it is not stored.            *)

Alone(m) ==
    /\ RowsOf(m) <= 1
    /\ \A p \in Pollers : mail[p] = m =>
         /\ RowsOf(m) = 0
         /\ \A q \in Pollers \ {p} : mail[q] # m
         /\ \A s \in Syncs : m \notin draft[s]
         /\ m \in Replies => reply[m] # "sent"
    /\ \A s \in Syncs : m \in draft[s] =>
         /\ RowsOf(m) = 0
         /\ \A t \in Syncs \ {s} : m \notin draft[t]
         /\ m \in Replies => reply[m] # "sent"
    /\ m \in Replies /\ reply[m] = "sent" => RowsOf(m) = 0

RaceInv == \A m \in Mails \ raced : Alone(m)

(* Nobody is at work at the start.                                         *)
LEMMA RaceInit == Init => RaceInv
<1> SUFFICES ASSUME Init PROVE RaceInv
  OBVIOUS
<1> SUFFICES ASSUME NEW m \in Mails PROVE Alone(m)
  BY DEF RaceInv
<1>1. rows[<<"raw", m>>] = 0 /\ rows[<<"bts", m>>] = 0
  BY DEF Init, Kinds
<1>2. RowsOf(m) = 0
  BY <1>1 DEF RowsOf
<1> QED
  BY <1>2, ThreadAssumption DEF Init, Alone, Mails

(* Losing a writer without a row, and anything done about other mail,      *)
(* leaves a mail alone.                                                    *)
LEMMA AloneKept ==
    ASSUME NEW m \in Mails, Alone(m), RowsOf(m)' = RowsOf(m),
           \A p \in Pollers : mail'[p] = m => mail[p] = m,
           \A s \in Syncs : m \in draft'[s] => m \in draft[s],
           m \in Replies /\ reply'[m] = "sent" => reply[m] = "sent"
    PROVE  Alone(m)'
  BY DEF Alone

(* A mail that is stored while nobody has it in hand stays alone.          *)
LEMMA AloneStored ==
    ASSUME NEW m \in Mails, RowsOf(m)' = 1,
           \A p \in Pollers : mail'[p] # m,
           \A s \in Syncs : m \notin draft'[s],
           m \in Replies => reply'[m] # "sent"
    PROVE  Alone(m)'
  BY DEF Alone

(* A second writer is noticed when it starts, and the one that has a mail  *)
(* to itself is done with it when it commits.                              *)
LEMMA RaceStep ==
    TypeOK /\ HandInv /\ StoreInv /\ RaceInv /\ [Next]_vars => RaceInv'
<1> SUFFICES ASSUME TypeOK, HandInv, StoreInv, RaceInv, [Next]_vars PROVE RaceInv'
  OBVIOUS
<1> USE DEF replyVars, pollVars, syncVars
<1>a. \A m \in Mails : RowsOf(m) \in Nat
  <2> SUFFICES ASSUME NEW m \in Mails PROVE RowsOf(m) \in Nat
    OBVIOUS
  <2>1. rows[<<"raw", m>>] \in Nat /\ rows[<<"bts", m>>] \in Nat
    BY DEF TypeOK, Kinds
  <2> QED
    BY <2>1 DEF RowsOf
<1>1. ASSUME UNCHANGED <<rows, replyVars, mail, draft>>, raced' = raced PROVE RaceInv'
  BY <1>1, AloneKept DEF RaceInv, RowsOf
<1>2. ASSUME NEW r \in Replies, StartReply(r) \/ SendFails(r) \/ ReplyDies(r)
      PROVE  RaceInv'
  <2>1. /\ UNCHANGED <<rows, mail, draft, raced>>
        /\ \A m \in Replies : reply'[m] = "sent" => reply[m] = "sent"
    BY <1>2 DEF StartReply, SendFails, ReplyDies, TypeOK
  <2> QED
    BY <2>1, AloneKept DEF RaceInv, RowsOf
<1>3. ASSUME NEW r \in Replies, GraphSends(r) PROVE RaceInv'
  <2>1. /\ UNCHANGED <<rows, mail, draft, raced>>
        /\ \A m \in Replies \ {r} : reply'[m] = reply[m]
    BY <1>3 DEF GraphSends, TypeOK
  <2>2. r \in Mails /\ r \notin visible
    BY <1>3 DEF GraphSends, HandInv, Mails
  <2>3. RowsOf(r) = 0
    BY <1>a, <2>2 DEF StoreInv, NoPhantomReply
  <2>4. /\ \A p \in Pollers : mail[p] # r
        /\ \A s \in Syncs : r \notin draft[s]
    BY <2>2, ThreadAssumption DEF TypeOK, HandInv
  <2>5. Alone(r)'
    BY <2>1, <2>3, <2>4 DEF Alone, RowsOf
  <2> QED
    BY <2>1, <2>5, AloneKept DEF RaceInv, RowsOf
<1>4. ASSUME NEW r \in Replies, PersistReply(r) PROVE RaceInv'
  <2>1. /\ UNCHANGED <<mail, draft, raced>> /\ reply[r] = "sent" /\ reply'[r] = "stored"
        /\ \A m \in Replies \ {r} : reply'[m] = reply[m]
        /\ r \in Mails
    BY <1>4 DEF PersistReply, TypeOK, Mails
  <2>2. /\ RowsOf(r)' = RowsOf(r) + 1
        /\ \A n \in Mails \ {r} : RowsOf(n)' = RowsOf(n)
    <3>1. rows' = [rows EXCEPT ![<<"bts", r>>] = @ + 1] /\ "bts" \in Kinds
      BY <1>4 DEF PersistReply, Kinds
    <3> QED
      BY <2>1, <3>1, RowAdded
  <2>3. ASSUME r \notin raced PROVE Alone(r)'
    <3>1. Alone(r)
      BY <2>1, <2>3 DEF RaceInv
    <3>2. /\ RowsOf(r) = 0 /\ \A p \in Pollers : mail[p] # r
          /\ \A s \in Syncs : r \notin draft[s]
      BY <2>1, <3>1 DEF Alone
    <3> QED
      BY <2>1, <2>2, <3>2, AloneStored
  <2> QED
    BY <2>1, <2>2, <2>3, AloneKept DEF RaceInv
<1>5. ASSUME NEW p \in Pollers, NEW m \in Mails, PollerTakes(p, m) PROVE RaceInv'
  <2>1. /\ UNCHANGED <<rows, reply, draft>>
        /\ mail'[p] = m /\ \A q \in Pollers \ {p} : mail'[q] = mail[q]
        /\ ~ SeenByPoller(m)
        /\ raced' = IF Writers(m) = {} THEN raced ELSE raced \cup {m}
    BY <1>5 DEF PollerTakes, Overlap, TypeOK
  <2>2. RowsOf(m) = 0
    BY <1>a, <2>1 DEF StoreInv
  <2>3. ASSUME Writers(m) = {} PROVE Alone(m)'
    BY <2>1, <2>2, <2>3 DEF Writers, Alone, RowsOf
  <2> QED
    BY <2>1, <2>3, AloneKept DEF RaceInv, RowsOf
<1>6. ASSUME NEW p \in Pollers, PollerStores(p) PROVE RaceInv'
  <2>1. PICK m \in Mails : m = mail[p]
    BY <1>6, ThreadAssumption DEF PollerStores, TypeOK
  <2>2. /\ UNCHANGED <<reply, draft, raced>> /\ m \notin {NoMail}
        /\ mail'[p] = NoMail /\ \A q \in Pollers \ {p} : mail'[q] = mail[q]
    BY <1>6, ThreadAssumption DEF PollerStores, PollerDone, TypeOK
  <2>3. /\ RowsOf(m)' = RowsOf(m) + 1
        /\ \A n \in Mails \ {m} : RowsOf(n)' = RowsOf(n)
    <3>1. rows' = [rows EXCEPT ![<<"raw", m>>] = @ + 1] /\ "raw" \in Kinds
      BY <1>6, <2>1 DEF PollerStores, Kinds
    <3> QED
      BY <3>1, RowAdded
  <2>4. ASSUME m \notin raced PROVE Alone(m)'
    <3>1. Alone(m)
      BY <2>4 DEF RaceInv
    <3>2. /\ RowsOf(m) = 0 /\ \A q \in Pollers \ {p} : mail[q] # m
          /\ \A s \in Syncs : m \notin draft[s]
          /\ m \in Replies => reply[m] # "sent"
      BY <2>1, <3>1 DEF Alone
    <3> QED
      BY <2>2, <2>3, <3>2, AloneStored
  <2> QED
    BY <2>2, <2>3, <2>4, ThreadAssumption, AloneKept DEF RaceInv
<1>7. ASSUME NEW p \in Pollers, PollerRefused(p) \/ PollerFails(p) PROVE RaceInv'
  <2>1. /\ UNCHANGED <<rows, reply, draft, raced>>
        /\ mail'[p] = NoMail /\ \A q \in Pollers \ {p} : mail'[q] = mail[q]
    BY <1>7 DEF PollerRefused, PollerFails, PollerDone, TypeOK
  <2> QED
    BY <2>1, ThreadAssumption, AloneKept DEF RaceInv, RowsOf
<1>8. ASSUME NEW s \in Syncs, NEW m \in Mails, SyncAdds(s, m) PROVE RaceInv'
  <2>1. /\ UNCHANGED <<rows, reply, mail>> /\ ~ AlreadySaved(s, m)
        /\ draft'[s] = draft[s] \cup {m} /\ \A t \in Syncs \ {s} : draft'[t] = draft[t]
        /\ raced' = IF Writers(m) = {} THEN raced ELSE raced \cup {m}
    BY <1>8 DEF SyncAdds, Overlap, TypeOK
  <2>2. RowsOf(m) = 0
    <3>1. rows[<<"raw", m>>] \in Nat /\ rows[<<"bts", m>>] \in Nat
      BY DEF TypeOK, Kinds
    <3> QED
      BY <2>1, <3>1 DEF AlreadySaved, RowsOf
  <2>3. ASSUME Writers(m) = {} PROVE Alone(m)'
    BY <2>1, <2>2, <2>3 DEF Writers, Alone, RowsOf
  <2> QED
    BY <2>1, <2>3, AloneKept DEF RaceInv, RowsOf
<1>9. ASSUME NEW s \in Syncs, SyncCommits(s) PROVE RaceInv'
  <2>1. /\ UNCHANGED <<reply, mail, raced>>
        /\ draft'[s] = {} /\ \A t \in Syncs \ {s} : draft'[t] = draft[t]
    BY <1>9 DEF SyncCommits, SyncEnds, TypeOK
  <2>2. \A m \in Mails : RowsOf(m)' = IF m \in draft[s] THEN RowsOf(m) + 1 ELSE RowsOf(m)
    BY <1>9, RowsCommitted
  <2>3. ASSUME NEW m \in Mails \ raced, m \in draft[s] PROVE Alone(m)'
    <3>1. Alone(m)
      BY DEF RaceInv
    <3>2. /\ RowsOf(m) = 0 /\ \A t \in Syncs \ {s} : m \notin draft[t]
          /\ m \in Replies => reply[m] # "sent"
      BY <2>3, <3>1 DEF Alone
    <3>3. \A p \in Pollers : mail[p] # m
      BY <2>3, <3>1 DEF Alone
    <3> QED
      BY <2>1, <2>2, <2>3, <3>2, <3>3, AloneStored
  <2>4. ASSUME NEW m \in Mails \ raced, m \notin draft[s] PROVE Alone(m)'
    BY <2>1, <2>2, <2>4, AloneKept DEF RaceInv
  <2> QED
    BY <2>1, <2>3, <2>4 DEF RaceInv
<1>10. ASSUME NEW s \in Syncs, SyncFails(s) PROVE RaceInv'
  <2>1. /\ UNCHANGED <<rows, reply, mail, raced>>
        /\ draft'[s] = {} /\ \A t \in Syncs \ {s} : draft'[t] = draft[t]
    BY <1>10 DEF SyncFails, SyncEnds, TypeOK
  <2> QED
    BY <2>1, AloneKept DEF RaceInv, RowsOf
<1>11. ASSUME NEW m \in Others, Appear(m) PROVE RaceInv'
  BY <1>1, <1>11 DEF Appear
<1>12. ASSUME NEW s \in Syncs, StartSync(s) \/ SyncEnters(s) PROVE RaceInv'
  BY <1>1, <1>12 DEF StartSync, SyncEnters
<1>13. ASSUME NEW s \in Syncs, NEW m \in Mails, SyncSkips(s, m) PROVE RaceInv'
  BY <1>1, <1>13 DEF SyncSkips
<1>14. ASSUME UNCHANGED vars PROVE RaceInv'
  BY <1>1, <1>14 DEF vars
<1> QED
  BY <1>2, <1>3, <1>4, <1>5, <1>6, <1>7, <1>8, <1>9, <1>10, <1>11, <1>12, <1>13, <1>14
     DEF Next, ReplyStep, PollerStep, SyncStep

(* A message is stored twice only if two writers were storing it at once,  *)
(* whatever the number of messages, pollers, syncs and failures.           *)
THEOREM OnlyRacesDuplicate == Spec => []DuplicatesNeedARace
<1>1. TypeOK /\ HandInv /\ StoreInv /\ RaceInv /\ [Next]_vars => RaceInv'
  BY RaceStep
<1>2. TypeOK /\ HandInv /\ StoreInv /\ [Next]_vars => StoreInv'
  BY StoreStep
<1>3. TypeOK /\ HandInv /\ [Next]_vars => HandInv'
  BY HandStep
<1>4. TypeOK /\ RaceInv => DuplicatesNeedARace
  <2> SUFFICES ASSUME TypeOK, RaceInv, NEW m \in Mails, m \notin raced
               PROVE  ~ (RowsOf(m) > 1)
    BY DEF DuplicatesNeedARace
  <2>1. rows[<<"raw", m>>] \in Nat /\ rows[<<"bts", m>>] \in Nat
    BY DEF TypeOK, Kinds
  <2>2. RowsOf(m) \in Nat /\ RowsOf(m) <= 1
    BY <2>1 DEF RaceInv, Alone, RowsOf
  <2> QED
    BY <2>2
<1> QED
  BY <1>1, <1>2, <1>3, <1>4, TypeInit, TypeStep, HandInit, StoreInit, RaceInit, PTL DEF Spec

=============================================================================
