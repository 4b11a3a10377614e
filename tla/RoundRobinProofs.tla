-------------------------- MODULE RoundRobinProofs --------------------------
(***************************************************************************)
(* The attendance of module RoundRobin keeps one row per agent, and its    *)
(* pollers give the agents equally many turns, for any roster, any number  *)
(* of saves, rows, pollers and bookings.                                   *)
(***************************************************************************)
EXTENDS RoundRobin, FiniteSetTheorems, WellFoundedInduction, NaturalsInduction, TLAPS

-----------------------------------------------------------------------------
(* The rows that a save read are rows of its agent; it keeps one at most.  *)
SavesOwn ==
    \A s \in Savers :
        /\ \A r \in save[s].keep \cup save[s].drop : r.agent = save[s].agent
        /\ \A r, t \in save[s].keep : r = t

(* An id belongs to one agent for ever, and in the table to one row.       *)
Known == rows \cup UNION {save[s].keep \cup save[s].drop : s \in Savers}

IdsOwned ==
    /\ \A r \in Known : r.id \in 1..made
    /\ \A r, t \in Known : r.id = t.id => r.agent = t.agent
    /\ \A r, t \in rows : r.id = t.id => r = t

(* What a save has read is still so while no other save of the agent runs. *)
UpToDate(s, a) ==
    /\ Saving(a) = {s}
    /\ save[s].keep \cup save[s].drop = RowsOf(a)
    /\ save[s].keep = {} => RowsOf(a) = {}

AloneReads ==
    \A s \in Savers, a \in Agents : save[s].agent = a /\ save[s].alone => UpToDate(s, a)

Single == \A a \in Agents \ doubled : \A r, t \in RowsOf(a) : r = t

Types ==
    /\ made \in 0..MaxRows
    /\ rows \subseteq Row
    /\ doubled \subseteq Agents
    /\ save \in [Savers -> [agent : Agents \cup {None}, status : Statuses,
                            shift : Shifts \cup {None}, keep : SUBSET Row,
                            drop : SUBSET Row, alone : BOOLEAN]]

RowsInv == Types /\ SavesOwn /\ IdsOwned /\ AloneReads /\ Single

(* Nobody is saved, and no row is there.                                   *)
LEMMA RowsInit == Init => RowsInv
<1> SUFFICES ASSUME Init PROVE RowsInv
  OBVIOUS
<1>1. Types
  BY RosterAssumption DEF Init, Types, NoSave, Statuses
<1>2. Known = {}
  BY DEF Init, Known, NoSave
<1>3. \A s \in Savers : save[s].agent \notin Agents /\ save[s].keep = {} /\ save[s].drop = {}
  BY RosterAssumption DEF Init, NoSave, Agents
<1>4. rows = {} /\ SavesOwn /\ AloneReads
  BY <1>3 DEF Init, SavesOwn, AloneReads
<1> QED
  BY <1>1, <1>2, <1>4 DEF RowsInv, IdsOwned, Single, RowsOf

(* A save forgets what it has read.                                        *)
LEMMA Forgets ==
  ASSUME RowsInv, NEW s \in Savers, save' = [save EXCEPT ![s] = NoSave]
  PROVE  /\ save'[s] = NoSave /\ \A q \in Savers \ {s} : save'[q] = save[q]
         /\ \A a \in Agents : Saving(a)' = Saving(a) \ {s}
         /\ SavesOwn'
<1>1. save'[s] = NoSave /\ \A q \in Savers \ {s} : save'[q] = save[q]
  BY DEF RowsInv, Types
<1>2. NoSave.agent = None /\ NoSave.keep = {} /\ NoSave.drop = {} /\ None \notin Agents
  BY RosterAssumption DEF NoSave, Agents
<1>3. \A a \in Agents : Saving(a)' = Saving(a) \ {s}
  BY <1>1, <1>2 DEF Saving
<1>4. SavesOwn'
  BY <1>1, <1>2 DEF RowsInv, SavesOwn
<1> QED
  BY <1>1, <1>3, <1>4

(* The table is finite, since its rows have ids of their own.              *)
LEMMA RowsFinite == RowsInv => IsFiniteSet(rows)
<1> SUFFICES ASSUME RowsInv PROVE IsFiniteSet(rows)
  OBVIOUS
<1> DEFINE f == [r \in rows |-> r.id]
<1>1. f \in [rows -> 1..made]
  BY DEF RowsInv, IdsOwned, Known
<1>2. \A r, t \in rows : f[r] = f[t] => r = t
  BY DEF RowsInv, IdsOwned
<1>3. f \in Injection(rows, 1..made)
  BY <1>1, <1>2 DEF Injection, IsInjective
<1>4. IsFiniteSet(1..made)
  BY FS_Interval, RosterAssumption DEF RowsInv, Types
<1> QED
  BY <1>3, <1>4, FS_Injection

(* What a save that begins has read.                                       *)
LEMMA ReadRowsKeeps ==
  ASSUME RowsInv, NEW s \in Savers, NEW a \in Agents, ReadRows(s, a)
  PROVE  RowsInv'
<1>1. PICK status \in Statuses, shift \in Shifts \cup {None},
           keep \in {k \in SUBSET RowsOf(a) : Cardinality(k) = 1 \/ RowsOf(a) = {}} :
        save' = [q \in Savers |->
           IF q = s THEN [agent |-> a, status |-> status, shift |-> shift, keep |-> keep,
                          drop |-> RowsOf(a) \ keep, alone |-> Saving(a) = {}]
           ELSE IF q \in Saving(a) THEN [save[q] EXCEPT !.alone = FALSE]
           ELSE save[q]]
  BY DEF ReadRows
<1> DEFINE k == [agent |-> a, status |-> status, shift |-> shift, keep |-> keep,
                 drop |-> RowsOf(a) \ keep, alone |-> Saving(a) = {}]
<1>2. /\ Types /\ SavesOwn /\ IdsOwned /\ AloneReads /\ Single
      /\ UNCHANGED <<rows, made, doubled>> /\ save[s] = NoSave
  BY DEF RowsInv, ReadRows
<1>3. save'[s] = k
  BY <1>1
<1>4. \A q \in Savers \ {s} :
        /\ save'[q].agent = save[q].agent /\ save'[q].keep = save[q].keep
        /\ save'[q].drop = save[q].drop
        /\ save'[q].alone => save[q].alone /\ q \notin Saving(a)
  BY <1>1, <1>2 DEF Types
<1>5. RowsOf(a) \subseteq rows /\ keep \subseteq RowsOf(a) /\ \A r \in RowsOf(a) : r.agent = a
  BY DEF RowsOf
<1>6. Types'
  <2>1. k \in [agent : Agents \cup {None}, status : Statuses, shift : Shifts \cup {None},
               keep : SUBSET Row, drop : SUBSET Row, alone : BOOLEAN]
    BY <1>2, <1>5 DEF Types
  <2> HIDE DEF k
  <2>2. save' = [q \in Savers |-> IF q = s THEN k
                   ELSE IF q \in Saving(a) THEN [save[q] EXCEPT !.alone = FALSE] ELSE save[q]]
    BY <1>1 DEF k
  <2> QED
    BY <1>2, <2>1, <2>2 DEF Types
<1>7. \A r, t \in keep : r = t
  <2>1. CASE Cardinality(keep) = 1
    <3>1. IsFiniteSet(keep)
      BY <1>2, <1>5, RowsFinite, FS_Subset
    <3> QED
      BY <2>1, <3>1, FS_Singleton
  <2>2. CASE RowsOf(a) = {}
    BY <1>5, <2>2
  <2> QED
    BY <2>1, <2>2
<1>8. SavesOwn'
  BY <1>2, <1>3, <1>4, <1>5, <1>7 DEF SavesOwn
<1>9. IdsOwned'
  <2>1. Known' \subseteq Known
    BY <1>2, <1>3, <1>4, <1>5 DEF Known
  <2> QED
    BY <1>2, <2>1 DEF IdsOwned
<1>10. AloneReads'
  <2>1. keep = {} => RowsOf(a) = {}
    <3>1. Cardinality({}) = 0
      BY FS_EmptySet
    <3> QED
      BY <3>1
  <2>2. Saving(a) = {} => Saving(a)' = {s}
    BY <1>3, <1>4 DEF Saving
  <2>3. \A b : RowsOf(b)' = RowsOf(b)
    BY <1>2 DEF RowsOf
  <2>4. ASSUME NEW q \in Savers \ {s}, NEW b \in Agents, save'[q].agent = b, save'[q].alone
        PROVE  UpToDate(q, b)'
    <3>1. UpToDate(q, b) /\ b # a
      BY <1>2, <1>4, <2>4 DEF AloneReads, Saving
    <3>2. Saving(b)' = {q}
      BY <1>3, <1>4, <3>1 DEF Saving, UpToDate
    <3> QED
      BY <1>4, <2>3, <3>1, <3>2 DEF UpToDate
  <2>5. ASSUME save'[s].alone PROVE UpToDate(s, a)'
    <3>1. Saving(a) = {}
      <4>1. save'[s].alone = (Saving(a) = {})
        BY <1>3
      <4> QED
        BY <2>5, <4>1
    <3>2. save'[s].keep = keep /\ save'[s].drop = RowsOf(a) \ keep
      BY <1>3
    <3> QED
      BY <1>5, <2>1, <2>2, <2>3, <3>1, <3>2 DEF UpToDate
  <2> QED
    BY <1>3, <2>4, <2>5 DEF AloneReads
<1>11. Single'
  BY <1>2 DEF Single, RowsOf
<1> QED
  BY <1>6, <1>8, <1>9, <1>10, <1>11 DEF RowsInv

(* The rows after a save.                                                  *)
LEMMA CommitRows ==
  ASSUME RowsInv, NEW s \in Savers, CommitSave(s)
  PROVE  /\ save[s].agent \in Agents
         /\ rows' \subseteq Row /\ made' \in 0..MaxRows /\ made <= made'
         /\ \A r \in rows' : r.id \in 1..made'
         /\ \A r \in rows' : r \in rows \/ r.agent = save[s].agent
         /\ \A r \in rows : r.agent # save[s].agent => r \in rows'
         /\ \A r \in rows', t \in Known : r.id = t.id => r.agent = t.agent
         /\ \A r, t \in rows' : r.id = t.id => r = t
         /\ save[s].alone =>
              \A r, t \in rows' : r.agent = save[s].agent /\ t.agent = save[s].agent => r = t
<1> DEFINE a == save[s].agent
           kept == {r \in rows : r.id \notin Ids(save[s].keep \cup save[s].drop)}
           found == {r \in rows : r.id \in Ids(save[s].keep)}
           new == [id |-> made + 1, agent |-> a, status |-> save[s].status,
                   shift |-> save[s].shift]
<1>1. /\ save[s] \in [agent : Agents \cup {None}, status : Statuses, shift : Shifts \cup {None},
                      keep : SUBSET Row, drop : SUBSET Row, alone : BOOLEAN]
      /\ rows \subseteq Row /\ made \in 0..MaxRows /\ MaxRows \in Nat
      /\ SavesOwn /\ IdsOwned /\ AloneReads
  BY RosterAssumption DEF RowsInv, Types
<1>2. a \in Agents
  BY <1>1 DEF CommitSave
<1>3. save[s].keep \cup save[s].drop \subseteq Known /\ rows \subseteq Known
  BY DEF Known
<1>4. /\ \A r \in save[s].keep \cup save[s].drop : r.agent = a
      /\ \A r, t \in save[s].keep : r = t
  BY <1>1 DEF SavesOwn
<1>5. CASE /\ save[s].keep = {} /\ made < MaxRows
           /\ rows' = rows \cup {new} /\ made' = made + 1
  <2>1. new \in Row /\ new.id = made + 1 /\ new.agent = a
    BY <1>1, <1>2, <1>5 DEF Row
  <2>2. \A r \in Known : r.id \in 1..made /\ r.id # new.id
    BY <1>1, <2>1 DEF IdsOwned
  <2>3. save[s].alone => RowsOf(a) = {}
    BY <1>1, <1>2, <1>5 DEF AloneReads, UpToDate
  <2>4. \A r \in rows' : r.id \in 1..made'
    BY <1>1, <1>3, <1>5, <2>1, <2>2
  <2> HIDE DEF new
  <2>5. \A r \in rows', t \in Known : r.id = t.id => r.agent = t.agent
    BY <1>1, <1>3, <1>5, <2>2 DEF IdsOwned
  <2>6. \A r, t \in rows' : r.id = t.id => r = t
    BY <1>1, <1>3, <1>5, <2>2 DEF IdsOwned
  <2>7. save[s].alone => \A r, t \in rows' : r.agent = a /\ t.agent = a => r = t
    BY <1>5, <2>3 DEF RowsOf
  <2>8. rows' \subseteq Row /\ made' \in 0..MaxRows /\ made <= made'
    BY <1>1, <1>5, <2>1
  <2> QED
    BY <1>2, <1>5, <2>1, <2>4, <2>5, <2>6, <2>7, <2>8
<1>6. CASE save[s].keep # {} /\ rows' = kept \cup UpdatedRows(s) /\ made' = made
  <2>1. ASSUME NEW read \in save[s].keep, NEW now \in found
        PROVE  /\ Updated(s, read, now) \in Row /\ Updated(s, read, now).id = now.id
               /\ Updated(s, read, now).agent = now.agent /\ now.agent = a
    <3>1. read \in Row /\ now \in Row
      BY <1>1
    <3>2. now.agent = a
      BY <1>1, <1>3, <1>4 DEF Ids, IdsOwned
    <3> QED
      BY <1>1, <3>1, <3>2 DEF Updated, Column, Row
  <2>2. \A r \in UpdatedRows(s) :
          r \in Row /\ r.agent = a /\ \E t \in found : r.id = t.id /\ r.agent = t.agent
    BY <2>1 DEF UpdatedRows
  <2>3. \A r \in rows' : \E t \in rows : r.id = t.id /\ r.agent = t.agent
    BY <1>6, <2>2
  <2>4. rows' \subseteq Row
    BY <1>1, <1>6, <2>2
  <2>5. \A r \in rows : r.agent # a => r \in rows'
    <3>1. \A r \in rows, t \in save[s].keep \cup save[s].drop : r.id = t.id => r.agent = a
      BY <1>1, <1>3, <1>4 DEF IdsOwned
    <3>2. \A r \in rows : r.agent # a => r \in kept
      BY <3>1 DEF Ids
    <3> HIDE DEF kept
    <3> QED
      BY <1>6, <3>2
  <2>6. \A r \in rows', t \in Known : r.id = t.id => r.agent = t.agent
    BY <1>1, <1>3, <2>3 DEF IdsOwned
  <2>7. \A r, t \in found : r = t
    BY <1>1, <1>4 DEF Ids, IdsOwned
  <2>8. \A r, t \in UpdatedRows(s) : r = t
    BY <1>4, <2>7 DEF UpdatedRows
  <2>9. \A r \in kept, t \in UpdatedRows(s) : r.id # t.id
    BY <2>2 DEF Ids
  <2>10. \A r, t \in rows' : r.id = t.id => r = t
    BY <1>1, <1>6, <2>8, <2>9 DEF IdsOwned
  <2>11. ASSUME save[s].alone PROVE \A r \in kept : r.agent # a
    <3>1. RowsOf(a) \subseteq save[s].keep \cup save[s].drop
      BY <1>1, <1>2, <2>11 DEF AloneReads, UpToDate
    <3> QED
      BY <3>1 DEF RowsOf, Ids
  <2>12. save[s].alone => \A r, t \in rows' : r.agent = a /\ t.agent = a => r = t
    BY <1>6, <2>8, <2>11
  <2>13. \A r \in rows' : r.id \in 1..made'
    BY <1>1, <1>3, <1>6, <2>3 DEF IdsOwned
  <2>14. made' \in 0..MaxRows /\ made <= made'
    BY <1>1, <1>6
  <2>15. \A r \in rows' : r \in rows \/ r.agent = a
    BY <1>6, <2>2
  <2> HIDE DEF kept, found
  <2> QED
    BY <1>2, <2>4, <2>5, <2>6, <2>10, <2>12, <2>13, <2>14, <2>15
<1>7. \/ /\ save[s].keep = {} /\ made < MaxRows
         /\ rows' = rows \cup {new} /\ made' = made + 1
      \/ save[s].keep # {} /\ rows' = kept \cup UpdatedRows(s) /\ made' = made
  BY DEF CommitSave
<1> HIDE DEF kept, found, new
<1> QED
  BY <1>5, <1>6, <1>7

(* A save that is committed.                                               *)
LEMMA CommitSaveKeeps ==
  ASSUME RowsInv, NEW s \in Savers, CommitSave(s)
  PROVE  RowsInv'
<1>1. /\ Types /\ SavesOwn /\ IdsOwned /\ AloneReads /\ Single
      /\ save' = [save EXCEPT ![s] = NoSave]
      /\ doubled' = IF save[s].alone THEN doubled \ {save[s].agent}
                    ELSE doubled \cup {save[s].agent}
  BY DEF RowsInv, CommitSave
<1>2. PICK a \in Agents : a = save[s].agent
  BY CommitRows
<1>3. \A b \in Agents \ {a} : RowsOf(b)' = RowsOf(b)
  BY <1>2, CommitRows DEF RowsOf
<1>4. /\ save'[s] = NoSave /\ \A q \in Savers \ {s} : save'[q] = save[q]
      /\ \A b \in Agents : Saving(b)' = Saving(b) \ {s}
      /\ SavesOwn'
  BY <1>1, Forgets
<1>5. Types'
  <2>1. NoSave \in [agent : Agents \cup {None}, status : Statuses, shift : Shifts \cup {None},
                    keep : SUBSET Row, drop : SUBSET Row, alone : BOOLEAN]
    BY DEF NoSave, Statuses
  <2>2. rows' \subseteq Row /\ made' \in 0..MaxRows
    BY CommitRows
  <2>3. doubled' \subseteq Agents
    BY <1>1, <1>2 DEF Types
  <2> QED
    BY <1>1, <2>1, <2>2, <2>3 DEF Types
<1>6. IdsOwned'
  <2>1. Known' \subseteq rows' \cup Known
    BY <1>4 DEF Known, NoSave
  <2>2. \A r \in Known : r.id \in 1..made'
    BY <1>1, CommitRows, RosterAssumption DEF IdsOwned, Types
  <2>3. /\ \A r \in rows' : r.id \in 1..made'
        /\ \A r \in rows', t \in Known : r.id = t.id => r.agent = t.agent
        /\ \A r, t \in rows' : r.id = t.id => r = t
    BY CommitRows
  <2> QED
    BY <1>1, <2>1, <2>2, <2>3 DEF IdsOwned
<1>7. AloneReads'
  <2> SUFFICES ASSUME NEW q \in Savers, NEW b \in Agents, save'[q].agent = b, save'[q].alone
               PROVE  UpToDate(q, b)'
    BY DEF AloneReads
  <2>1. q # s
    BY <1>4, RosterAssumption DEF NoSave, Agents
  <2>2. save'[q] = save[q] /\ UpToDate(q, b)
    BY <1>1, <1>4, <2>1 DEF AloneReads
  <2>3. b # a
    BY <1>2, <2>1, <2>2 DEF UpToDate, Saving
  <2> QED
    BY <1>3, <1>4, <2>1, <2>2, <2>3 DEF UpToDate
<1>8. Single'
  <2> SUFFICES ASSUME NEW b \in Agents, b \notin doubled'
               PROVE  (\A r, t \in RowsOf(b) : r = t)'
    BY DEF Single
  <2>1. CASE b = a
    <3>1. save[s].alone
      BY <1>1, <1>2, <2>1
    <3> QED
      BY <1>2, <2>1, <3>1, CommitRows DEF RowsOf
  <2>2. CASE b # a
    BY <1>1, <1>2, <1>3, <2>2 DEF Single
  <2> QED
    BY <2>1, <2>2
<1> QED
  BY <1>4, <1>5, <1>6, <1>7, <1>8 DEF RowsInv

(* A save that is refused.                                                 *)
LEMMA RefuseSaveKeeps ==
  ASSUME RowsInv, NEW s \in Savers, RefuseSave(s)
  PROVE  RowsInv'
<1>1. /\ Types /\ SavesOwn /\ IdsOwned /\ AloneReads /\ Single
      /\ save' = [save EXCEPT ![s] = NoSave] /\ UNCHANGED <<rows, made, doubled>>
  BY DEF RowsInv, RefuseSave
<1>2. /\ save'[s] = NoSave /\ \A q \in Savers \ {s} : save'[q] = save[q]
      /\ \A b \in Agents : Saving(b)' = Saving(b) \ {s}
      /\ SavesOwn'
  BY <1>1, Forgets
<1>3. NoSave \in [agent : Agents \cup {None}, status : Statuses, shift : Shifts \cup {None},
                  keep : SUBSET Row, drop : SUBSET Row, alone : BOOLEAN]
  BY DEF NoSave, Statuses
<1>4. Types'
  BY <1>1, <1>3 DEF Types
<1>5. IdsOwned'
  <2>1. Known' \subseteq Known
    BY <1>1, <1>2 DEF Known, NoSave
  <2> QED
    BY <1>1, <2>1 DEF IdsOwned
<1>6. AloneReads'
  <2> SUFFICES ASSUME NEW q \in Savers, NEW b \in Agents, save'[q].agent = b, save'[q].alone
               PROVE  UpToDate(q, b)'
    BY DEF AloneReads
  <2>1. q # s
    BY <1>2, RosterAssumption DEF NoSave, Agents
  <2>2. save'[q] = save[q] /\ UpToDate(q, b)
    BY <1>1, <1>2, <2>1 DEF AloneReads
  <2>3. RowsOf(b)' = RowsOf(b)
    BY <1>1 DEF RowsOf
  <2> QED
    BY <1>2, <2>1, <2>2, <2>3 DEF UpToDate
<1>7. Single'
  BY <1>1 DEF Single, RowsOf
<1> QED
  BY <1>2, <1>4, <1>5, <1>6, <1>7 DEF RowsInv

(* No step adds a second row for an agent whose saves do not overlap.      *)
LEMMA RowsStep == RowsInv /\ [Next]_vars => RowsInv'
<1> SUFFICES ASSUME RowsInv, [Next]_vars PROVE RowsInv'
  OBVIOUS
<1>1. ASSUME UNCHANGED attendance PROVE RowsInv'
  BY <1>1 DEF attendance, RowsInv, Types, SavesOwn, IdsOwned, Known, AloneReads, UpToDate,
              Saving, RowsOf, Single
<1>2. ASSUME NEW p \in Pollers,
             ReadPool(p) \/ Draw(p) \/ Choose(p) \/ CommitBooking(p) \/ LoseBooking(p)
      PROVE  UNCHANGED attendance
  BY <1>2 DEF ReadPool, Draw, Choose, CommitBooking, LoseBooking
<1>3. ASSUME UNCHANGED vars PROVE UNCHANGED attendance
  BY <1>3 DEF vars
<1> QED
  BY <1>1, <1>2, <1>3, ReadRowsKeeps, CommitSaveKeeps, RefuseSaveKeeps DEF Next

(* An agent has one row a day, unless saves of the agent overlapped and    *)
(* none has run alone since: for any roster, and any number of saves.      *)
THEOREM RowsAreSingle == Spec => []OneRowPerAgent
<1>1. ASSUME RowsInv PROVE OneRowPerAgent
  <2> SUFFICES ASSUME NEW a \in Agents \ doubled PROVE Cardinality(RowsOf(a)) <= 1
    BY DEF OneRowPerAgent
  <2>1. \A r, t \in RowsOf(a) : r = t
    BY <1>1 DEF RowsInv, Single
  <2>2. RowsOf(a) = {} \/ \E x : RowsOf(a) = {x}
    BY <2>1
  <2>3. Cardinality(RowsOf(a)) = 0 \/ Cardinality(RowsOf(a)) = 1
    BY <2>2, FS_EmptySet, FS_Singleton
  <2> QED
    BY <2>3
<1> QED
  BY <1>1, RowsInit, RowsStep, PTL DEF Spec

-----------------------------------------------------------------------------
(* Remainders.                                                             *)

(* Quotient and remainder.                                                 *)
LEMMA Division ==
  ASSUME NEW x \in Nat, NEW n \in Nat \ {0}
  PROVE  x = n * (x \div n) + (x % n) /\ x \div n \in Nat /\ x % n \in 0..(n - 1)
  OBVIOUS

(* Multiples of n are n apart.                                             *)
LEMMA Apart ==
  ASSUME NEW n \in Nat \ {0}, NEW p \in Int, NEW q \in Int, p < q
  PROVE  n * p + n <= n * q
<1>1. p + 1 <= q
  OBVIOUS
<1>2. n * (p + 1) = n * p + n
  OBVIOUS
<1>3. n * (p + 1) <= n * q
  BY <1>1
<1> QED
  BY <1>2, <1>3

(* The remainder is the only one.                                          *)
LEMMA Remainder ==
  ASSUME NEW x \in Nat, NEW n \in Nat \ {0}, NEW q \in Nat, NEW r \in 0..(n - 1), x = n * q + r
  PROVE  x % n = r
<1> DEFINE p == x \div n
           s == x % n
<1>1. x = n * p + s /\ p \in Nat /\ s \in 0..(n - 1)
  BY Division
<1> HIDE DEF p, s
<1>2. ~ (p < q) /\ ~ (q < p)
  BY <1>1, Apart
<1>3. p = q
  BY <1>1, <1>2
<1>4. s = r
  BY <1>1, <1>3
<1> QED
  BY <1>4 DEF s

(* A remainder is its own.                                                 *)
LEMMA RemainderStays ==
  ASSUME NEW n \in Nat \ {0}, NEW r \in 0..(n - 1)
  PROVE  r % n = r
<1>1. r = n * 0 + r /\ r \in Nat
  OBVIOUS
<1> QED
  BY <1>1, Remainder

(* The next ticket is for the next place, or for the first again.          *)
LEMMA NextPlace ==
  ASSUME NEW x \in Nat, NEW n \in Nat \ {0}
  PROVE  (x + 1) % n = IF x % n = n - 1 THEN 0 ELSE (x % n) + 1
<1> DEFINE p == x \div n
           s == x % n
<1>1. x = n * p + s /\ p \in Nat /\ s \in 0..(n - 1)
  BY Division
<1> HIDE DEF p, s
<1>2. CASE s = n - 1
  <2>1. x + 1 = n * (p + 1) + 0 /\ p + 1 \in Nat /\ 0 \in 0..(n - 1)
    BY <1>1, <1>2
  <2>2. (x + 1) % n = 0
    BY <2>1, Remainder
  <2> QED
    BY <1>2, <2>2 DEF s
<1>3. CASE s # n - 1
  <2>1. x + 1 = n * p + (s + 1) /\ s + 1 \in 0..(n - 1)
    BY <1>1, <1>3
  <2>2. (x + 1) % n = s + 1
    BY <1>1, <2>1, Remainder
  <2> QED
    BY <1>3, <2>2 DEF s
<1> QED
  BY <1>2, <1>3

-----------------------------------------------------------------------------
(* The pool.                                                               *)

(* A set of numbers that is not empty has a least one.                     *)
LEMMA LeastIsIn ==
  ASSUME NEW S \in SUBSET Nat, S # {}
  PROVE  Min(S) \in S
<1>1. IsWellFoundedOn(OpToRel(<, Nat), Nat)
  BY NatLessThanWellFounded
<1>2. PICK i \in S : \A j \in S : ~ <<j, i>> \in OpToRel(<, Nat)
  BY <1>1, WFMin, Zenon
<1>3. \A j \in S : ~ j < i
  BY <1>2, Zenon DEF OpToRel
<1>4. \A j \in S : i <= j
  BY <1>3
<1> QED
  BY <1>4 DEF Min

(* The table has no more rows than were inserted.                          *)
LEMMA RowsBounded == RowsInv => Cardinality(rows) <= MaxRows /\ Cardinality(rows) \in Nat
<1> SUFFICES ASSUME RowsInv PROVE Cardinality(rows) <= MaxRows /\ Cardinality(rows) \in Nat
  OBVIOUS
<1> DEFINE f == [r \in rows |-> r.id]
<1>1. f \in [rows -> 1..MaxRows]
  BY RosterAssumption DEF RowsInv, Types, IdsOwned, Known
<1>2. \A r, t \in rows : f[r] = f[t] => r = t
  BY DEF RowsInv, IdsOwned
<1>3. f \in Injection(rows, 1..MaxRows)
  BY <1>1, <1>2 DEF Injection, IsInjective
<1>4. IsFiniteSet(1..MaxRows) /\ Cardinality(1..MaxRows) = MaxRows
  BY FS_Interval, RosterAssumption
<1>5. Cardinality(rows) <= Cardinality(1..MaxRows) /\ IsFiniteSet(rows)
  BY <1>3, <1>4, FS_Injection
<1> QED
  BY <1>4, <1>5, FS_CardinalityType

(* A pool is a list of agents, at most one for each row.                   *)
LEMMA PoolIsAList == RowsInv => Pool \in Seq(Agents) /\ Len(Pool) <= MaxRows
<1> SUFFICES ASSUME RowsInv PROVE Pool \in Seq(Agents) /\ Len(Pool) <= MaxRows
  OBVIOUS
<1> DEFINE Until(k) == {r \in rows : r.status = "Present" /\ \E j \in 1..k : Roster[j] = r.agent}
           size == Cardinality(Until(Len(Roster)))
           Places(i) == {k \in DOMAIN Roster : i <= Cardinality(Until(k))}
<1>1. IsFiniteSet(rows) /\ Cardinality(rows) <= MaxRows
  BY RowsFinite, RowsBounded
<1>2. Until(Len(Roster)) \subseteq rows
  OBVIOUS
<1>3. IsFiniteSet(Until(Len(Roster))) /\ size <= Cardinality(rows)
  BY <1>1, <1>2, FS_Subset
<1>4. size \in Nat /\ size <= MaxRows
  BY <1>1, <1>3, FS_CardinalityType, RosterAssumption, RowsBounded
<1>5. /\ Roster \in Seq(Agents) /\ Len(Roster) \in Nat /\ Len(Roster) # 0
      /\ DOMAIN Roster = 1..Len(Roster)
  BY RosterAssumption DEF Agents
<1>6. ASSUME NEW i \in 1..size PROVE Min(Places(i)) \in DOMAIN Roster
  <2>1. Len(Roster) \in Places(i)
    BY <1>4, <1>5
  <2>2. Places(i) \in SUBSET Nat
    BY <1>5
  <2> HIDE DEF Places
  <2>3. Min(Places(i)) \in Places(i)
    BY <2>1, <2>2, LeastIsIn
  <2> QED
    BY <2>3 DEF Places
<1>7. Pool = [i \in 1..size |-> Roster[Min(Places(i))]]
  BY DEF Pool, PoolOf
<1> HIDE DEF size, Places
<1>8. \A i \in 1..size : Roster[Min(Places(i))] \in Agents
  BY <1>5, <1>6
<1>9. Pool \in [1..size -> Agents]
  BY <1>7, <1>8
<1>10. Pool \in Seq(Agents) /\ Len(Pool) = size
  BY <1>4, <1>9
<1> QED
  BY <1>4, <1>10

-----------------------------------------------------------------------------
(* The pollers.                                                            *)

Drawn == {p \in Pollers : poll[p].stage = "drawn"}

AllocTypes ==
    /\ poll \in [Pollers -> [stage : {"idle", "pool", "drawn", "decided"}, pool : Seq(Agents),
                             ticket : Nat, agent : Agents \cup {None}]]
    /\ \A p \in Pollers : poll[p].stage \in {"pool", "drawn"} => poll[p].pool # <<>>
    /\ pointer \in Nat
    /\ bookings \in 0..MaxBookings
    /\ faults \in 0..MaxFaults
    /\ turns \in [Agents -> Nat]
    /\ uneven \in BOOLEAN

(* Nothing is drawn at the start.                                          *)
LEMMA AllocInit == Init => AllocTypes
<1> SUFFICES ASSUME Init PROVE AllocTypes
  OBVIOUS
<1>1. NoPoll \in [stage : {"idle", "pool", "drawn", "decided"}, pool : Seq(Agents),
                  ticket : Nat, agent : Agents \cup {None}] /\ NoPoll.stage = "idle"
  BY DEF NoPoll
<1>2. /\ poll = [p \in Pollers |-> NoPoll] /\ pointer = 0 /\ bookings = 0 /\ faults = 0
      /\ turns = [a \in Agents |-> 0] /\ uneven = FALSE
  BY DEF Init
<1>3. uneven \in BOOLEAN
  BY <1>2, Zenon
<1> QED
  BY <1>1, <1>2, <1>3, RosterAssumption DEF AllocTypes

(* The agent that a ticket is for.                                         *)
LEMMA TicketIsForAnAgent ==
  ASSUME AllocTypes, NEW p \in Pollers, poll[p].stage = "drawn"
  PROVE  /\ Size(p) \in Nat \ {0}
         /\ poll[p].ticket % Size(p) \in 0..(Size(p) - 1)
         /\ (poll[p].ticket % Size(p)) + 1 \in 1..Size(p)
         /\ poll[p].pool[(poll[p].ticket % Size(p)) + 1] \in Agents
<1>1. poll[p].pool \in Seq(Agents) /\ poll[p].pool # <<>> /\ poll[p].ticket \in Nat
  BY DEF AllocTypes
<1>2. Size(p) \in Nat \ {0}
  BY <1>1 DEF Size
<1>3. poll[p].ticket % Size(p) \in 0..(Size(p) - 1)
  BY <1>1, <1>2, Division
<1>4. (poll[p].ticket % Size(p)) + 1 \in 1..Size(p)
  BY <1>2, <1>3
<1> HIDE DEF Size
<1>5. poll[p].pool[(poll[p].ticket % Size(p)) + 1] \in Agents
  BY <1>1, <1>4 DEF Size
<1> QED
  BY <1>2, <1>3, <1>4, <1>5

(* No step takes a poller or the counts out of their types.                *)
LEMMA AllocStep == RowsInv /\ AllocTypes /\ [Next]_vars => AllocTypes'
<1> SUFFICES ASSUME RowsInv, AllocTypes, [Next]_vars PROVE AllocTypes'
  OBVIOUS
<1>1. MaxBookings \in Nat /\ MaxFaults \in Nat /\ None \notin Agents
  BY RosterAssumption DEF Agents
<1>2. ASSUME UNCHANGED <<allocation, turns, uneven>> PROVE AllocTypes'
  BY <1>2 DEF allocation, AllocTypes
<1>3. ASSUME NEW s \in Savers, NEW a \in Agents, ReadRows(s, a) PROVE AllocTypes'
  BY <1>2, <1>3 DEF ReadRows, allocation
<1>4. ASSUME NEW s \in Savers, RefuseSave(s) PROVE AllocTypes'
  BY <1>2, <1>4 DEF RefuseSave, allocation
<1>5. ASSUME NEW s \in Savers, CommitSave(s) PROVE AllocTypes'
  <2>1. UNCHANGED allocation /\ NewCount
    BY <1>5 DEF CommitSave
  <2>2. turns' \in [Agents -> Nat]
    <3>1. turns' = turns \/ turns' = [a \in Agents |-> 0]
      BY <2>1, Zenon DEF NewCount
    <3> QED
      BY <3>1 DEF AllocTypes
  <2>3. uneven \in BOOLEAN
    BY DEF AllocTypes
  <2>4. uneven' = uneven \/ uneven' = (\E p \in Pollers : poll[p].stage \in {"pool", "drawn"})
    BY <2>1, Zenon DEF NewCount
  <2>5. uneven' \in BOOLEAN
    BY <2>3, <2>4, Zenon
  <2> QED
    BY <2>1, <2>2, <2>5 DEF allocation, AllocTypes
<1>6. ASSUME NEW p \in Pollers, ReadPool(p) PROVE AllocTypes'
  <2>1. Pool \in Seq(Agents) /\ <<>> \in Seq(Agents)
    BY PoolIsAList
  <2>2. Range(Pool) \subseteq Agents
    BY <2>1 DEF Range
  <2>3. bookings' \in 0..MaxBookings
    <3>1. bookings < MaxBookings /\ bookings' = bookings + 1 /\ bookings \in 0..MaxBookings
      BY <1>6 DEF ReadPool, AllocTypes
    <3> QED
      BY <1>1, <3>1
  <2>4. \E k \in [stage : {"decided", "pool"}, pool : Seq(Agents), ticket : Nat,
                  agent : Agents \cup {None}] :
          poll' = [poll EXCEPT ![p] = k] /\ (k.stage = "pool" => k.pool # <<>>)
    <3> DEFINE Kinds == [stage : {"decided", "pool"}, pool : Seq(Agents), ticket : Nat,
                         agent : Agents \cup {None}]
               own(a) == [NoPoll EXCEPT !.stage = "decided", !.agent = a]
               read == [NoPoll EXCEPT !.stage = IF Pool = <<>> THEN "decided" ELSE "pool",
                                      !.pool = Pool]
    <3>1. \/ \E a \in Range(Pool) : poll' = [poll EXCEPT ![p] = own(a)]
          \/ poll' = [poll EXCEPT ![p] = read]
      BY <1>6 DEF ReadPool
    <3>2. \A a \in Range(Pool) : own(a) \in Kinds /\ own(a).stage = "decided"
      BY <2>1, <2>2 DEF NoPoll
    <3>3. read \in Kinds /\ (read.stage = "pool" => read.pool # <<>>)
      BY <2>1 DEF NoPoll
    <3> HIDE DEF own, read
    <3> QED
      BY <3>1, <3>2, <3>3
  <2>5. UNCHANGED <<pointer, faults, turns, uneven>>
    BY <1>6 DEF ReadPool
  <2> QED
    BY <2>3, <2>4, <2>5 DEF AllocTypes
<1>7. ASSUME NEW p \in Pollers, Draw(p) PROVE AllocTypes'
  <2>1. /\ pointer' = pointer + 1 /\ pointer \in Nat
        /\ poll[p].stage = "pool" /\ poll[p].pool # <<>>
        /\ poll' = [poll EXCEPT ![p].stage = "drawn", ![p].ticket = pointer]
        /\ UNCHANGED <<bookings, faults, turns>>
    BY <1>7 DEF Draw, AllocTypes
  <2>2. uneven' = (uneven \/ \E q \in Pollers : poll[q].stage = "drawn")
    BY <1>7, Zenon DEF Draw
  <2>3. uneven' \in BOOLEAN
    BY <2>2, Zenon DEF AllocTypes
  <2>4. /\ poll' \in [Pollers -> [stage : {"idle", "pool", "drawn", "decided"}, pool : Seq(Agents),
                                  ticket : Nat, agent : Agents \cup {None}]]
        /\ \A q \in Pollers : poll'[q].stage \in {"pool", "drawn"} => poll'[q].pool # <<>>
    BY <2>1, ZenonT(30) DEF AllocTypes
  <2>5. pointer' \in Nat
    BY <2>1
  <2> QED
    BY <2>1, <2>3, <2>4, <2>5 DEF AllocTypes
<1>8. ASSUME NEW p \in Pollers, Choose(p) PROVE AllocTypes'
  <2> DEFINE place == poll[p].ticket % Size(p)
             a == poll[p].pool[place + 1]
             n == Size(p)
             next == (poll[p].ticket + 1) % n
  <2>1. n \in Nat \ {0} /\ a \in Agents /\ poll[p].ticket \in Nat
    BY <1>8, TicketIsForAnAgent DEF Choose, AllocTypes
  <2>2. /\ pointer' = next
        /\ poll' = [poll EXCEPT ![p].stage = "decided", ![p].agent = a]
        /\ turns' = [turns EXCEPT ![a] = @ + 1]
        /\ UNCHANGED <<attendance, bookings, faults, uneven>>
    BY <1>8 DEF Choose
  <2> HIDE DEF a, n
  <2>3. poll[p].ticket + 1 \in Nat
    BY <2>1
  <2>4. next \in Nat
    BY <2>1, <2>3, Division
  <2> HIDE DEF next
  <2>5. turns' \in [Agents -> Nat]
    BY <2>1, <2>2 DEF AllocTypes
  <2> QED
    BY <2>1, <2>2, <2>4, <2>5, ZenonT(30) DEF AllocTypes
<1>9. ASSUME NEW p \in Pollers, CommitBooking(p) \/ LoseBooking(p) PROVE AllocTypes'
  <2>1. NoPoll \in [stage : {"idle", "pool", "drawn", "decided"}, pool : Seq(Agents),
                    ticket : Nat, agent : Agents \cup {None}] /\ NoPoll.stage = "idle"
    BY DEF NoPoll
  <2>2. /\ poll' = [poll EXCEPT ![p] = NoPoll]
        /\ faults' = faults \/ (faults < MaxFaults /\ faults' = faults + 1)
        /\ UNCHANGED <<pointer, bookings, turns>>
    <3>1. CASE CommitBooking(p)
      BY <3>1, Zenon DEF CommitBooking
    <3>2. CASE LoseBooking(p)
      <4>1. /\ poll' = [poll EXCEPT ![p] = NoPoll]
            /\ faults < MaxFaults /\ faults' = faults + 1
            /\ UNCHANGED <<attendance, pointer, bookings, turns>>
        BY <3>2, Zenon DEF LoseBooking
      <4> QED
        BY <4>1
    <3> QED
      BY <1>9, <3>1, <3>2
  <2>3. faults' \in 0..MaxFaults
    BY <1>1, <2>2 DEF AllocTypes
  <2>4. uneven' = uneven \/ uneven' = (uneven \/ Drew(p))
    BY <1>9, Zenon DEF CommitBooking, LoseBooking
  <2>5. uneven' \in BOOLEAN
    BY <2>4, Zenon DEF AllocTypes
  <2> QED
    BY <2>1, <2>2, <2>3, <2>5 DEF AllocTypes
<1>10. ASSUME UNCHANGED vars PROVE AllocTypes'
  BY <1>2, <1>10 DEF vars
<1> QED
  BY <1>3, <1>4, <1>5, <1>6, <1>7, <1>8, <1>9, <1>10 DEF Next

-----------------------------------------------------------------------------
(* Turns.                                                                  *)

(* The places of a pool whose agent has no other.                          *)
Singly(pool) == {i \in DOMAIN pool : \A j \in DOMAIN pool : pool[j] = pool[i] => j = i}

(* Going round from place s the turn has come to place c: place i had its. *)
Passed(i, s, c) == IF s <= c THEN s <= i /\ i < c ELSE s <= i \/ i < c

(* Where the turn is: the next ticket, or the one that is out.             *)
Turn == (IF Drawn = {} THEN pointer ELSE pointer - 1) % Len(Pool)

(* Since the pool last changed, from some place on each has had q + 1      *)
(* turns up to where the turn is, and q beyond.                            *)
EvenUpTo(c) ==
    \E s \in 0..(Len(Pool) - 1), q \in Nat : \A i \in Singly(Pool) :
        turns[Pool[i]] = IF Passed(i - 1, s, c) THEN q + 1 ELSE q

(* While nothing has disturbed the order: pollers at work have the pool    *)
(* that is, one ticket is out at most, the last one, and turns are even.   *)
TurnInv ==
    ~ uneven =>
        /\ \A p \in Pollers : poll[p].stage \in {"pool", "drawn"} => poll[p].pool = Pool
        /\ \A p, q \in Drawn : p = q
        /\ \A p \in Drawn : pointer = poll[p].ticket + 1
        /\ Pool # <<>> => EvenUpTo(Turn)

(* The turn is at a place of the pool.                                     *)
LEMMA TurnIsAPlace ==
  ASSUME RowsInv, AllocTypes, Pool # <<>>, \A p \in Drawn : pointer = poll[p].ticket + 1
  PROVE  Len(Pool) \in Nat \ {0} /\ Turn \in 0..(Len(Pool) - 1)
<1>1. Len(Pool) \in Nat \ {0}
  BY PoolIsAList
<1>2. (IF Drawn = {} THEN pointer ELSE pointer - 1) \in Nat
  <2>1. pointer \in Nat /\ \A p \in Drawn : poll[p].ticket \in Nat
    BY DEF AllocTypes, Drawn
  <2> QED
    BY <2>1
<1> QED
  BY <1>1, <1>2, Division DEF Turn

(* A new count begins where the turn is.                                   *)
LEMMA NewCountIsEven ==
  ASSUME turns = [a \in Agents |-> 0], Pool \in Seq(Agents), NEW c \in 0..(Len(Pool) - 1)
  PROVE  EvenUpTo(c)
<1>1. \A i \in Singly(Pool) : turns[Pool[i]] = 0
  BY DEF Singly
<1>2. \A i \in Singly(Pool) : ~ Passed(i - 1, c, c)
  BY DEF Passed, Singly
<1>3. 0 \in Nat /\ \A i \in Singly(Pool) : turns[Pool[i]] = IF Passed(i - 1, c, c) THEN 0 + 1 ELSE 0
  BY <1>1, <1>2
<1> QED
  BY <1>3 DEF EvenUpTo

(* Nobody has a turn at the start.                                         *)
LEMMA TurnInit == Init => TurnInv
<1> SUFFICES ASSUME Init PROVE TurnInv
  OBVIOUS
<1>1. RowsInv /\ AllocTypes
  BY RowsInit, AllocInit
<1>2. /\ poll = [p \in Pollers |-> NoPoll] /\ NoPoll.stage = "idle"
      /\ turns = [a \in Agents |-> 0]
  BY DEF Init, NoPoll
<1>3. /\ \A p \in Pollers : poll[p].stage = "idle"
      /\ Drawn = {}
  BY <1>2 DEF Drawn
<1>4. Pool # <<>> => EvenUpTo(Turn)
  BY <1>1, <1>2, <1>3, TurnIsAPlace, NewCountIsEven, PoolIsAList
<1> QED
  BY <1>3, <1>4 DEF TurnInv

(* The agent at the turn has one; the turn goes on.                        *)
LEMMA TurnTaken ==
  ASSUME NEW n \in Nat \ {0}, Pool \in Seq(Agents), Len(Pool) = n, NEW c \in 0..(n - 1),
         EvenUpTo(c), turns \in [Agents -> Nat], UNCHANGED rows,
         turns' = [turns EXCEPT ![Pool[c + 1]] = @ + 1]
  PROVE  EvenUpTo(IF c = n - 1 THEN 0 ELSE c + 1)'
<1> DEFINE d == IF c = n - 1 THEN 0 ELSE c + 1
<1>1. PICK s \in 0..(n - 1), q \in Nat : \A i \in Singly(Pool) :
        turns[Pool[i]] = IF Passed(i - 1, s, c) THEN q + 1 ELSE q
  BY DEF EvenUpTo
<1>2. Pool' = Pool /\ Singly(Pool)' = Singly(Pool)
  BY DEF Pool, Singly
<1>3. \A i \in Singly(Pool) : i \in 1..n /\ Pool[i] \in Agents /\ (Pool[i] = Pool[c + 1] <=> i = c + 1)
  BY DEF Singly
<1>4. \A i \in Singly(Pool) : turns'[Pool[i]] = IF i = c + 1 THEN turns[Pool[i]] + 1 ELSE turns[Pool[i]]
  BY <1>3
<1>5. ASSUME NEW e \in 0..(n - 1), NEW t \in 0..(n - 1), NEW k \in Nat,
             \A i \in Singly(Pool) : turns'[Pool[i]] = IF Passed(i - 1, t, e) THEN k + 1 ELSE k
      PROVE  EvenUpTo(e)'
  <2>1. \A i \in Singly(Pool)' : turns'[Pool'[i]] = IF Passed(i - 1, t, e) THEN k + 1 ELSE k
    BY <1>2, <1>5
  <2>2. t \in 0..(Len(Pool') - 1)
    BY <1>2
  <2> QED
    BY <2>1, <2>2, Zenon DEF EvenUpTo
<1>6. d \in 0..(n - 1)
  OBVIOUS
<1> SUFFICES EvenUpTo(d)'
  OBVIOUS
<1> HIDE DEF d
<1>7. CASE d # s
  <2>1. \A i \in 1..n : Passed(i - 1, s, d) <=> Passed(i - 1, s, c) \/ i = c + 1
    BY <1>7 DEF Passed, d
  <2>2. ~ Passed(c, s, c)
    BY DEF Passed
  <2>3. \A i \in Singly(Pool) : turns'[Pool[i]] = IF Passed(i - 1, s, d) THEN q + 1 ELSE q
    <3> SUFFICES ASSUME NEW i \in Singly(Pool)
                 PROVE  turns'[Pool[i]] = IF Passed(i - 1, s, d) THEN q + 1 ELSE q
      OBVIOUS
    <3>1. CASE i = c + 1
      <4>1. ~ Passed(i - 1, s, c)
        BY <2>2, <3>1
      <4> QED
        BY <1>1, <1>3, <1>4, <2>1, <3>1, <4>1
    <3>2. CASE i # c + 1
      BY <1>1, <1>3, <1>4, <2>1, <3>2
    <3> QED
      BY <3>1, <3>2
  <2> QED
    BY <1>5, <1>6, <2>3
<1>8. CASE d = s
  <2>1. \A i \in 1..n : ~ Passed(i - 1, s, d) /\ (Passed(i - 1, s, c) <=> i # c + 1)
    BY <1>8 DEF Passed, d
  <2>2. \A i \in Singly(Pool) : turns'[Pool[i]] = q + 1
    BY <1>1, <1>3, <1>4, <2>1
  <2>3. q + 1 \in Nat /\ \A i \in Singly(Pool) :
          turns'[Pool[i]] = IF Passed(i - 1, s, d) THEN (q + 1) + 1 ELSE q + 1
    BY <1>3, <2>1, <2>2
  <2> QED
    BY <1>5, <1>6, <2>3
<1> QED
  BY <1>7, <1>8

(* A step that leaves the table, the pointer, the tickets that are out and *)
(* the turns alone.                                                        *)
LEMMA Undisturbed ==
  ASSUME TurnInv, UNCHANGED <<rows, pointer, turns>>, Drawn' = Drawn, ~ uneven' => ~ uneven,
         \A p \in Drawn : poll'[p].ticket = poll[p].ticket,
         ~ uneven => \A p \in Pollers : poll'[p].stage \in {"pool", "drawn"} => poll'[p].pool = Pool
  PROVE  TurnInv'
<1> SUFFICES ASSUME ~ uneven
             PROVE  /\ \A p \in Pollers : poll'[p].stage \in {"pool", "drawn"} => poll'[p].pool = Pool'
                    /\ \A p, q \in Drawn' : p = q
                    /\ \A p \in Drawn' : pointer' = poll'[p].ticket + 1
                    /\ Pool' # <<>> => EvenUpTo(Turn)'
  BY Zenon DEF TurnInv
<1>1. Pool' = Pool
  BY DEF Pool
<1>2. Turn' = Turn
  BY <1>1 DEF Turn
<1>3. EvenUpTo(Turn)' <=> EvenUpTo(Turn)
  BY <1>1, <1>2 DEF EvenUpTo, Singly
<1> QED
  BY <1>1, <1>3 DEF TurnInv

(* After a step the pool is such a list again.                             *)
LEMMA PoolStaysAList == RowsInv' => (Pool \in Seq(Agents))'
<1>1. RowsInv => Pool \in Seq(Agents)
  BY PoolIsAList
<1> QED
  BY <1>1, PTL

(* A save: the turns are counted afresh when it changes the pool.          *)
LEMMA TurnSave ==
  ASSUME RowsInv, RowsInv', AllocTypes, AllocTypes', TurnInv, NEW s \in Savers, CommitSave(s)
  PROVE  TurnInv'
<1>1. UNCHANGED <<pointer, poll>> /\ NewCount
  BY DEF CommitSave, allocation
<1>2. Drawn' = Drawn
  BY <1>1 DEF Drawn
<1>3. PoolOf(rows') = Pool'
  BY DEF Pool
<1>4. CASE Pool' = Pool
  <2>1. turns' = turns /\ uneven' = uneven
    BY <1>1, <1>3, <1>4, Zenon DEF NewCount
  <2>2. Turn' = Turn
    BY <1>1, <1>2, <1>4 DEF Turn
  <2>3. EvenUpTo(Turn)' <=> EvenUpTo(Turn)
    BY <1>4, <2>1, <2>2 DEF EvenUpTo, Singly
  <2> QED
    BY <1>1, <1>2, <1>4, <2>1, <2>3 DEF TurnInv
<1>5. CASE Pool' # Pool
  <2>1. /\ turns' = [a \in Agents |-> 0]
        /\ uneven' = \E p \in Pollers : poll[p].stage \in {"pool", "drawn"}
    BY <1>1, <1>3, <1>5, Zenon DEF NewCount
  <2> SUFFICES ASSUME \A p \in Pollers : poll[p].stage \notin {"pool", "drawn"}
               PROVE  /\ \A p \in Pollers : poll'[p].stage \in {"pool", "drawn"} => poll'[p].pool = Pool'
                      /\ \A p, q \in Drawn' : p = q
                      /\ \A p \in Drawn' : pointer' = poll'[p].ticket + 1
                      /\ Pool' # <<>> => EvenUpTo(Turn)'
    BY <2>1, Zenon DEF TurnInv
  <2>2. Drawn' = {}
    BY <1>2 DEF Drawn
  <2>3. Pool' # <<>> => EvenUpTo(Turn)'
    <3> SUFFICES ASSUME Pool' # <<>> PROVE EvenUpTo(Turn)'
      OBVIOUS
    <3>1. Pool' \in Seq(Agents) /\ Turn' \in 0..(Len(Pool') - 1)
      <4>1. Pool' \in Seq(Agents)
        BY PoolStaysAList
      <4>2. Len(Pool') \in Nat \ {0}
        BY <4>1
      <4>3. pointer' \in Nat
        BY DEF AllocTypes
      <4>4. pointer' % Len(Pool') \in 0..(Len(Pool') - 1)
        BY <4>2, <4>3, Division
      <4> QED
        BY <2>2, <4>1, <4>4 DEF Turn
    <3>2. \A i \in Singly(Pool)' : turns'[Pool'[i]] = 0 /\ i \in 1..Len(Pool')
      BY <2>1, <3>1 DEF Singly
    <3>3. \A i \in Singly(Pool)' : ~ Passed(i - 1, Turn', Turn')
      BY <3>1, <3>2 DEF Passed
    <3>4. 0 \in Nat /\ \A i \in Singly(Pool)' :
            turns'[Pool'[i]] = IF Passed(i - 1, Turn', Turn') THEN 0 + 1 ELSE 0
      BY <3>2, <3>3
    <3> QED
      BY <3>1, <3>4 DEF EvenUpTo
  <2> QED
    BY <1>1, <2>2, <2>3
<1> QED
  BY <1>4, <1>5

(* A ticket is drawn: either it is the only one, or the order is disturbed. *)
LEMMA TurnDraw ==
  ASSUME AllocTypes, TurnInv, NEW p \in Pollers, Draw(p)
  PROVE  TurnInv'
<1>1. /\ poll[p].stage = "pool" /\ pointer' = pointer + 1 /\ pointer \in Nat
      /\ poll' = [poll EXCEPT ![p].stage = "drawn", ![p].ticket = pointer]
      /\ UNCHANGED <<rows, turns>>
  BY DEF Draw, attendance, AllocTypes
<1>2. ~ uneven' => ~ uneven /\ Drawn = {}
  BY Zenon DEF Draw, Drawn
<1>3. /\ poll'[p].stage = "drawn" /\ poll'[p].ticket = pointer /\ poll'[p].pool = poll[p].pool
      /\ \A q \in Pollers \ {p} : poll'[q] = poll[q]
  BY <1>1 DEF AllocTypes
<1> SUFFICES ASSUME ~ uneven, Drawn = {}
             PROVE  /\ \A q \in Pollers : poll'[q].stage \in {"pool", "drawn"} => poll'[q].pool = Pool'
                    /\ \A q, t \in Drawn' : q = t
                    /\ \A q \in Drawn' : pointer' = poll'[q].ticket + 1
                    /\ Pool' # <<>> => EvenUpTo(Turn)'
  BY <1>2, Zenon DEF TurnInv
<1>4. Pool' = Pool
  BY <1>1 DEF Pool
<1>5. Drawn' = {p}
  BY <1>3 DEF Drawn
<1>6. pointer' - 1 = pointer
  BY <1>1
<1>7. Turn' = Turn
  BY <1>4, <1>5, <1>6 DEF Turn
<1>8. EvenUpTo(Turn)' <=> EvenUpTo(Turn)
  BY <1>1, <1>4, <1>7 DEF EvenUpTo, Singly
<1>9. \A q \in Pollers : poll'[q].stage \in {"pool", "drawn"} => poll'[q].pool = Pool'
  BY <1>1, <1>3, <1>4 DEF TurnInv
<1> QED
  BY <1>1, <1>3, <1>4, <1>5, <1>8, <1>9 DEF TurnInv

(* The ticket that is out is used: its agent has a turn, the turn goes on. *)
LEMMA TurnChoose ==
  ASSUME RowsInv, AllocTypes, TurnInv, NEW p \in Pollers, Choose(p)
  PROVE  TurnInv'
<1> DEFINE n == Len(Pool)
           c == poll[p].ticket % n
           next == (poll[p].ticket + 1) % n
<1>1. /\ poll[p].stage = "drawn" /\ pointer' = (poll[p].ticket + 1) % Size(p)
      /\ poll' = [poll EXCEPT ![p].stage = "decided",
                   ![p].agent = poll[p].pool[(poll[p].ticket % Size(p)) + 1]]
      /\ turns' = [turns EXCEPT ![poll[p].pool[(poll[p].ticket % Size(p)) + 1]] = @ + 1]
      /\ UNCHANGED <<rows, uneven>>
  BY DEF Choose, attendance
<1> SUFFICES ASSUME ~ uneven
             PROVE  /\ \A q \in Pollers : poll'[q].stage \in {"pool", "drawn"} => poll'[q].pool = Pool'
                    /\ \A q, t \in Drawn' : q = t
                    /\ \A q \in Drawn' : pointer' = poll'[q].ticket + 1
                    /\ Pool' # <<>> => EvenUpTo(Turn)'
  BY <1>1, Zenon DEF TurnInv
<1>2. /\ poll[p].pool = Pool /\ Pool # <<>> /\ Drawn = {p} /\ pointer = poll[p].ticket + 1
      /\ poll[p].ticket \in Nat /\ Size(p) = n /\ EvenUpTo(Turn)
  BY <1>1 DEF TurnInv, AllocTypes, Drawn, Size
<1>3. Pool \in Seq(Agents) /\ n \in Nat \ {0}
  BY <1>2, PoolIsAList
<1>4. c \in 0..(n - 1) /\ next \in 0..(n - 1) /\ next = IF c = n - 1 THEN 0 ELSE c + 1
  <2>1. poll[p].ticket + 1 \in Nat
    BY <1>2
  <2> QED
    BY <1>2, <1>3, <2>1, Division, NextPlace
<1>5. Turn = c
  <2>1. pointer - 1 = poll[p].ticket
    BY <1>2
  <2> QED
    BY <1>2, <2>1 DEF Turn
<1>6. turns' = [turns EXCEPT ![Pool[c + 1]] = @ + 1] /\ pointer' = next
  BY <1>1, <1>2
<1>7. /\ poll'[p].stage = "decided" /\ \A q \in Pollers \ {p} : poll'[q] = poll[q]
      /\ Pool' = Pool
  BY <1>1 DEF AllocTypes, Pool
<1>8. Drawn' = {}
  BY <1>2, <1>7 DEF Drawn
<1>9. PICK k \in Nat \ {0}, d \in Nat : k = n /\ d = c /\ d \in 0..(k - 1)
  BY <1>3, <1>4
<1> DEFINE e == IF d = k - 1 THEN 0 ELSE d + 1
<1>10. e = next /\ e \in 0..(k - 1)
  BY <1>4, <1>9
<1> HIDE DEF c, next, n, e
<1>11. Turn' = e
  <2>1. e % k = e
    BY <1>10, RemainderStays
  <2>2. Len(Pool') = k
    BY <1>7, <1>9 DEF n
  <2> QED
    BY <1>6, <1>8, <1>10, <2>1, <2>2 DEF Turn
<1>12. EvenUpTo(e)'
  <2>1. turns \in [Agents -> Nat] /\ rows' = rows /\ Len(Pool) = k
    BY <1>1, <1>9 DEF AllocTypes, n
  <2>2. EvenUpTo(d)
    BY <1>2, <1>5, <1>9, ZenonT(30) DEF EvenUpTo
  <2>3. turns' = [turns EXCEPT ![Pool[d + 1]] = @ + 1]
    BY <1>6, <1>9
  <2> QED
    <3>1. Pool \in Seq(Agents) /\ UNCHANGED rows
      BY <1>3, <2>1
    <3>2. EvenUpTo(IF d = k - 1 THEN 0 ELSE d + 1)'
      BY <1>9, <2>1, <2>2, <2>3, <3>1, TurnTaken
    <3> QED
      BY <3>2 DEF e
<1>13. EvenUpTo(Turn)'
  BY <1>11, <1>12 DEF EvenUpTo
<1>14. \A q \in Pollers : poll'[q].stage \in {"pool", "drawn"} => poll'[q].pool = Pool'
  BY <1>7 DEF TurnInv
<1> QED
  BY <1>8, <1>13, <1>14

(* The order of turns survives every step.                                 *)
LEMMA TurnStep ==
  RowsInv /\ RowsInv' /\ AllocTypes /\ AllocTypes' /\ TurnInv /\ [Next]_vars => TurnInv'
<1> SUFFICES ASSUME RowsInv, RowsInv', AllocTypes, AllocTypes', TurnInv, [Next]_vars
             PROVE  TurnInv'
  OBVIOUS
<1>1. ASSUME UNCHANGED <<rows, allocation, turns, uneven>> PROVE TurnInv'
  <2>1. UNCHANGED <<rows, pointer, poll, turns, uneven>>
    BY <1>1 DEF allocation
  <2>2. Drawn' = Drawn
    BY <2>1 DEF Drawn
  <2>3. ~ uneven => \A p \in Pollers : poll'[p].stage \in {"pool", "drawn"} => poll'[p].pool = Pool
    BY <2>1 DEF TurnInv
  <2> QED
    BY <2>1, <2>2, <2>3, Undisturbed
<1>2. ASSUME NEW s \in Savers, NEW a \in Agents, ReadRows(s, a) PROVE TurnInv'
  BY <1>1, <1>2 DEF ReadRows, allocation
<1>3. ASSUME NEW s \in Savers, RefuseSave(s) PROVE TurnInv'
  BY <1>1, <1>3 DEF RefuseSave, allocation
<1>4. ASSUME NEW s \in Savers, CommitSave(s) PROVE TurnInv'
  BY <1>4, TurnSave
<1>5. ASSUME NEW p \in Pollers, NEW k, poll' = [poll EXCEPT ![p] = k],
             poll[p].stage # "drawn", k.stage # "drawn", k.stage = "pool" => k.pool = Pool,
             UNCHANGED <<rows, pointer, turns>>, ~ uneven' => ~ uneven
      PROVE  TurnInv'
  <2>1. poll'[p] = k /\ \A q \in Pollers \ {p} : poll'[q] = poll[q]
    BY <1>5 DEF AllocTypes
  <2>2. Drawn' = Drawn /\ p \notin Drawn
    BY <1>5, <2>1 DEF Drawn
  <2>3. \A q \in Drawn : poll'[q].ticket = poll[q].ticket
    BY <2>1, <2>2 DEF Drawn
  <2>4. ~ uneven => \A q \in Pollers : poll'[q].stage \in {"pool", "drawn"} => poll'[q].pool = Pool
    <3>1. k.stage \notin {"pool", "drawn"} \/ k.pool = Pool
      BY <1>5
    <3> QED
      BY <2>1, <3>1 DEF TurnInv
  <2> QED
    BY <1>5, <2>2, <2>3, <2>4, Undisturbed
<1>6. ASSUME NEW p \in Pollers, ReadPool(p) PROVE TurnInv'
  <2> DEFINE own(a) == [NoPoll EXCEPT !.stage = "decided", !.agent = a]
             read == [NoPoll EXCEPT !.stage = IF Pool = <<>> THEN "decided" ELSE "pool",
                                    !.pool = Pool]
  <2>1. \/ \E a \in Range(Pool) : poll' = [poll EXCEPT ![p] = own(a)]
        \/ poll' = [poll EXCEPT ![p] = read]
    BY <1>6 DEF ReadPool
  <2>2. \A a : own(a).stage = "decided"
    BY DEF NoPoll
  <2>3. read.stage \in {"decided", "pool"} /\ read.pool = Pool
    BY DEF NoPoll
  <2>4. poll[p].stage # "drawn" /\ UNCHANGED <<rows, pointer, turns, uneven>>
    <3>1. poll[p] = NoPoll /\ NoPoll.stage = "idle"
      BY <1>6 DEF ReadPool, NoPoll
    <3>2. UNCHANGED <<rows, pointer, turns, uneven>>
      BY <1>6 DEF ReadPool, attendance
    <3> QED
      BY <3>1, <3>2
  <2> HIDE DEF own, read
  <2>5. ASSUME NEW a \in Range(Pool), poll' = [poll EXCEPT ![p] = own(a)] PROVE TurnInv'
    BY <1>5, <2>2, <2>4, <2>5
  <2>6. CASE poll' = [poll EXCEPT ![p] = read]
    BY <1>5, <2>3, <2>4, <2>6
  <2> QED
    BY <2>1, <2>5, <2>6
<1>7. ASSUME NEW p \in Pollers, CommitBooking(p) PROVE TurnInv'
  <2>1. /\ poll' = [poll EXCEPT ![p] = NoPoll] /\ poll[p].stage # "drawn"
        /\ UNCHANGED <<rows, pointer, turns, uneven>>
    BY <1>7 DEF CommitBooking, attendance
  <2>2. NoPoll.stage = "idle"
    BY DEF NoPoll
  <2> QED
    BY <1>5, <2>1, <2>2
<1>8. ASSUME NEW p \in Pollers, LoseBooking(p) PROVE TurnInv'
  <2>1. poll' = [poll EXCEPT ![p] = NoPoll] /\ UNCHANGED <<attendance, pointer, turns>>
    BY <1>8, Zenon DEF LoseBooking
  <2>2. ~ uneven' => ~ uneven /\ ~ Drew(p)
    BY <1>8, Zenon DEF LoseBooking
  <2>3. NoPoll.stage = "idle" /\ rows' = rows
    BY <2>1 DEF NoPoll, attendance
  <2>4. CASE Drew(p)
    BY <2>2, <2>4, Zenon DEF TurnInv
  <2>5. CASE ~ Drew(p)
    <3>1. poll[p].stage # "drawn"
      BY <2>5 DEF Drew, AllocTypes
    <3>2. ~ uneven' => ~ uneven
      BY <2>2, Zenon
    <3> QED
      BY <1>5, <2>1, <2>3, <3>1, <3>2
  <2> QED
    BY <2>4, <2>5
<1>9. ASSUME UNCHANGED vars PROVE TurnInv'
  <2>1. UNCHANGED <<rows, allocation, turns, uneven>>
    BY <1>9 DEF vars, attendance
  <2> QED
    BY <1>1, <2>1
<1> QED
  BY <1>2, <1>3, <1>4, <1>6, <1>7, <1>8, <1>9, TurnDraw, TurnChoose DEF Next

(* The three invariants together, for the next theorems.                   *)
LEMMA RoundHolds == Spec => [](RowsInv /\ AllocTypes /\ TurnInv)
<1>1. RowsInv /\ AllocTypes /\ TurnInv /\ [Next]_vars => (RowsInv /\ AllocTypes /\ TurnInv)'
  BY RowsStep, AllocStep, TurnStep
<1> QED
  BY <1>1, RowsInit, AllocInit, TurnInit, PTL DEF Spec

(* Agents with one place in the pool have equally many turns, give or take *)
(* one, unless two pollers drew at the same time, a turn was lost with its *)
(* booking, or the pool changed under a poller: for any roster, and any    *)
(* number of pollers and bookings.                                         *)
THEOREM TurnsAreFair == Spec => []FairTurns
<1>1. ASSUME RowsInv, AllocTypes, TurnInv PROVE FairTurns
  <2> SUFFICES ASSUME ~ uneven,
                      NEW a \in Range(Pool), NEW b \in Range(Pool),
                      Cardinality({i \in DOMAIN Pool : Pool[i] = a}) = 1,
                      Cardinality({i \in DOMAIN Pool : Pool[i] = b}) = 1
               PROVE  turns[a] <= turns[b] + 1
    BY Zenon DEF FairTurns
  <2>1. Pool \in Seq(Agents)
    BY <1>1, PoolIsAList
  <2>2. ASSUME NEW c \in Range(Pool), Cardinality({i \in DOMAIN Pool : Pool[i] = c}) = 1
        PROVE  \E i \in Singly(Pool) : Pool[i] = c
    <3>1. IsFiniteSet({i \in DOMAIN Pool : Pool[i] = c})
      <4>1. IsFiniteSet(1..Len(Pool)) /\ DOMAIN Pool = 1..Len(Pool)
        BY <2>1, FS_Interval
      <4>2. {i \in DOMAIN Pool : Pool[i] = c} \in SUBSET (1..Len(Pool))
        BY <4>1
      <4> QED
        BY <4>1, <4>2, FS_Subset
    <3>2. PICK x : {i \in DOMAIN Pool : Pool[i] = c} = {x}
      BY <2>2, <3>1, FS_Singleton
    <3> QED
      BY <3>2 DEF Singly
  <2>3. PICK i \in Singly(Pool), j \in Singly(Pool) : Pool[i] = a /\ Pool[j] = b
    BY <2>2
  <2>4. EvenUpTo(Turn)
    <3>1. Pool # <<>>
      BY <2>1 DEF Range
    <3> QED
      BY <1>1, <3>1, Zenon DEF TurnInv
  <2>5. PICK s \in 0..(Len(Pool) - 1), q \in Nat : \A k \in Singly(Pool) :
          turns[Pool[k]] = IF Passed(k - 1, s, Turn) THEN q + 1 ELSE q
    BY <2>4 DEF EvenUpTo
  <2>6. turns[a] \in {q, q + 1} /\ turns[b] \in {q, q + 1}
    BY <2>3, <2>5
  <2> QED
    BY <2>6
<1> QED
  BY <1>1, RoundHolds, PTL

-----------------------------------------------------------------------------
(* Types and bounds.                                                       *)

Working == {p \in Pollers : poll[p].stage # "idle"}

Undecided == {p \in Pollers : poll[p].stage \in {"pool", "drawn"}}

(* Every turn and every undecided poller is an allocation of its own; the  *)
(* pointer was put back into the range of a pool, and has gone on since    *)
(* for the tickets that are out or were lost.                              *)
Bounds ==
    /\ IsFiniteSet(Working)
    /\ saves \in 0..MaxSaves
    /\ \A p \in Pollers : Len(poll[p].pool) <= MaxRows
    /\ \A a \in Agents : turns[a] + Cardinality(Undecided) <= bookings
    /\ pointer <= MaxRows + faults + Cardinality(Drawn)

(* Working pollers are finitely many, and so are those in a stage of work. *)
LEMMA WorkIsFinite ==
  ASSUME IsFiniteSet(Working)
  PROVE  /\ IsFiniteSet(Drawn) /\ Cardinality(Drawn) \in Nat
         /\ IsFiniteSet(Undecided) /\ Cardinality(Undecided) \in Nat
<1>1. Drawn \in SUBSET Working /\ Undecided \in SUBSET Working
  BY DEF Drawn, Undecided, Working
<1>2. IsFiniteSet(Drawn) /\ IsFiniteSet(Undecided)
  BY <1>1, FS_Subset
<1> QED
  BY <1>2, FS_CardinalityType

(* Nobody works at the start.                                              *)
LEMMA BoundsInit == Init => Bounds
<1> SUFFICES ASSUME Init PROVE Bounds
  OBVIOUS
<1>1. /\ poll = [p \in Pollers |-> NoPoll] /\ NoPoll.stage = "idle" /\ Len(NoPoll.pool) = 0
      /\ turns = [a \in Agents |-> 0] /\ pointer = 0 /\ faults = 0 /\ bookings = 0 /\ saves = 0
  BY DEF Init, NoPoll
<1>2. Working = {} /\ Undecided = {} /\ Drawn = {}
  BY <1>1 DEF Working, Undecided, Drawn
<1>3. IsFiniteSet({}) /\ Cardinality({}) = 0
  BY FS_EmptySet
<1> QED
  BY <1>1, <1>2, <1>3, RosterAssumption DEF Bounds

(* The bounds survive every step.                                          *)
LEMMA BoundsStep == RowsInv /\ AllocTypes /\ AllocTypes' /\ Bounds /\ [Next]_vars => Bounds'
<1> SUFFICES ASSUME RowsInv, AllocTypes, AllocTypes', Bounds, [Next]_vars PROVE Bounds'
  OBVIOUS
<1>1. /\ MaxRows \in Nat /\ MaxSaves \in Nat /\ pointer \in Nat /\ bookings \in Nat
      /\ faults \in Nat /\ turns \in [Agents -> Nat]
      /\ IsFiniteSet(Drawn) /\ Cardinality(Drawn) \in Nat
      /\ IsFiniteSet(Undecided) /\ Cardinality(Undecided) \in Nat
  BY RosterAssumption, WorkIsFinite DEF AllocTypes, Bounds
<1>2. ASSUME UNCHANGED poll
      PROVE  UNCHANGED <<Working, Undecided, Drawn>>
  BY <1>2 DEF Working, Undecided, Drawn
<1>3. ASSUME NEW s \in Savers, NEW a \in Agents, ReadRows(s, a) PROVE Bounds'
  <2>1. saves' = saves + 1 /\ saves < MaxSaves /\ UNCHANGED <<allocation, turns>>
    BY <1>3 DEF ReadRows
  <2> QED
    BY <1>1, <1>2, <2>1 DEF Bounds, allocation
<1>4. ASSUME UNCHANGED <<saves, allocation, turns>> PROVE Bounds'
  BY <1>2, <1>4 DEF Bounds, allocation
<1>5. ASSUME NEW s \in Savers, RefuseSave(s) PROVE Bounds'
  BY <1>4, <1>5 DEF RefuseSave
<1>6. ASSUME NEW s \in Savers, CommitSave(s) PROVE Bounds'
  <2>1. UNCHANGED <<saves, allocation>> /\ NewCount
    BY <1>6 DEF CommitSave
  <2>2. turns' = turns \/ turns' = [a \in Agents |-> 0]
    BY <2>1, Zenon DEF NewCount
  <2>3. \A a \in Agents : turns'[a] <= turns[a] /\ turns'[a] \in Nat
    BY <1>1, <2>2
  <2>4. \A a \in Agents : turns'[a] + Cardinality(Undecided) <= bookings
    BY <1>1, <2>3 DEF Bounds
  <2> QED
    BY <1>2, <2>1, <2>4 DEF Bounds, allocation
<1>7. ASSUME NEW p \in Pollers, ReadPool(p) PROVE Bounds'
  <2> DEFINE own(a) == [NoPoll EXCEPT !.stage = "decided", !.agent = a]
             read == [NoPoll EXCEPT !.stage = IF Pool = <<>> THEN "decided" ELSE "pool",
                                    !.pool = Pool]
  <2>1. \/ \E a \in Range(Pool) : poll' = [poll EXCEPT ![p] = own(a)]
        \/ poll' = [poll EXCEPT ![p] = read]
    BY <1>7 DEF ReadPool
  <2>2. \A a : own(a).stage = "decided" /\ Len(own(a).pool) = 0
    BY DEF NoPoll
  <2>3. read.stage \in {"decided", "pool"} /\ Len(read.pool) <= MaxRows
    BY PoolIsAList DEF NoPoll
  <2>4. poll[p] = NoPoll /\ NoPoll.stage = "idle"
    BY <1>7 DEF ReadPool, NoPoll
  <2>5. bookings' = bookings + 1 /\ UNCHANGED <<saves, pointer, faults, turns>>
    BY <1>7 DEF ReadPool, attendance
  <2> HIDE DEF own, read
  <2>6. /\ poll'[p].stage \in {"decided", "pool"} /\ Len(poll'[p].pool) <= MaxRows
        /\ \A q \in Pollers \ {p} : poll'[q] = poll[q]
    BY <1>1, <2>1, <2>2, <2>3, SMTT(30) DEF AllocTypes
  <2>7. /\ p \notin Undecided /\ Working' = Working \cup {p} /\ Drawn' = Drawn
        /\ Undecided' \in {Undecided, Undecided \cup {p}}
    BY <2>4, <2>6 DEF Undecided, Working, Drawn
  <2>8. /\ IsFiniteSet(Working \cup {p})
        /\ Cardinality(Undecided \cup {p}) = Cardinality(Undecided) + 1
    BY <1>1, <2>7, FS_AddElement DEF Bounds
  <2>9. Cardinality(Undecided') \in {Cardinality(Undecided), Cardinality(Undecided) + 1}
    BY <2>7, <2>8
  <2>10. \A a \in Agents : turns'[a] + Cardinality(Undecided') <= bookings'
    BY <1>1, <2>5, <2>9 DEF Bounds
  <2> QED
    BY <2>5, <2>6, <2>7, <2>8, <2>10 DEF Bounds
<1>8. ASSUME NEW p \in Pollers, Draw(p) PROVE Bounds'
  <2>1. /\ poll[p].stage = "pool" /\ pointer' = pointer + 1
        /\ poll' = [poll EXCEPT ![p].stage = "drawn", ![p].ticket = pointer]
        /\ UNCHANGED <<saves, bookings, faults, turns>>
    BY <1>8 DEF Draw, attendance
  <2>2. /\ poll'[p].stage = "drawn" /\ poll'[p].pool = poll[p].pool
        /\ \A q \in Pollers \ {p} : poll'[q] = poll[q]
    BY <2>1 DEF AllocTypes
  <2>3. /\ Working' = Working /\ Undecided' = Undecided
        /\ Drawn' = Drawn \cup {p} /\ p \notin Drawn
    BY <2>1, <2>2 DEF Working, Undecided, Drawn
  <2>4. Cardinality(Drawn') = Cardinality(Drawn) + 1
    BY <1>1, <2>3, FS_AddElement
  <2>5. pointer' <= MaxRows + faults' + Cardinality(Drawn')
    BY <1>1, <2>1, <2>4 DEF Bounds
  <2> QED
    BY <2>1, <2>2, <2>3, <2>5 DEF Bounds
<1>9. ASSUME NEW p \in Pollers, Choose(p) PROVE Bounds'
  <2> DEFINE a == poll[p].pool[(poll[p].ticket % Size(p)) + 1]
             n == Size(p)
  <2>1. /\ poll[p].stage = "drawn" /\ pointer' = (poll[p].ticket + 1) % n
        /\ poll' = [poll EXCEPT ![p].stage = "decided", ![p].agent = a]
        /\ turns' = [turns EXCEPT ![a] = @ + 1]
        /\ UNCHANGED <<saves, bookings, faults>>
    BY <1>9 DEF Choose, attendance
  <2>2. n \in Nat \ {0} /\ a \in Agents /\ poll[p].ticket + 1 \in Nat /\ n <= MaxRows
    <3>1. n \in Nat \ {0} /\ a \in Agents
      BY <2>1, TicketIsForAnAgent
    <3>2. poll[p].ticket \in Nat
      BY DEF AllocTypes
    <3>3. n <= MaxRows
      BY DEF Bounds, Size
    <3> QED
      BY <3>1, <3>2, <3>3
  <2> HIDE DEF a, n
  <2>3. pointer' \in 0..(n - 1)
    BY <2>1, <2>2, Division
  <2>4. /\ poll'[p].stage = "decided" /\ poll'[p].pool = poll[p].pool
        /\ \A q \in Pollers \ {p} : poll'[q] = poll[q]
    BY <2>1 DEF AllocTypes
  <2>5. /\ Working' = Working /\ Undecided' = Undecided \ {p} /\ p \in Undecided
        /\ Drawn' = Drawn \ {p}
    BY <2>1, <2>4 DEF Working, Undecided, Drawn
  <2>6. /\ Cardinality(Undecided') = Cardinality(Undecided) - 1
        /\ IsFiniteSet(Drawn \ {p})
    BY <1>1, <2>5, FS_RemoveElement
  <2>7. Cardinality(Drawn') \in Nat
    BY <2>5, <2>6, FS_CardinalityType
  <2>8. pointer' <= MaxRows + faults' + Cardinality(Drawn')
    BY <1>1, <2>1, <2>2, <2>3, <2>7
  <2>9. \A b \in Agents : turns'[b] <= turns[b] + 1 /\ turns'[b] \in Nat
    BY <1>1, <2>1, <2>2
  <2>10. \A b \in Agents : turns'[b] + Cardinality(Undecided') <= bookings'
    BY <1>1, <2>1, <2>6, <2>9, SMTT(30) DEF Bounds
  <2> QED
    BY <2>1, <2>4, <2>5, <2>8, <2>10 DEF Bounds
<1>10. ASSUME NEW p \in Pollers, CommitBooking(p) \/ LoseBooking(p) PROVE Bounds'
  <2>1. poll' = [poll EXCEPT ![p] = NoPoll] /\ UNCHANGED <<attendance, pointer, bookings, turns>>
    BY <1>10, Zenon DEF CommitBooking, LoseBooking
  <2>2. \/ faults' = faults /\ poll[p].stage = "decided"
        \/ faults' = faults + 1
    BY <1>10, Zenon DEF CommitBooking, LoseBooking
  <2>3. NoPoll.stage = "idle" /\ Len(NoPoll.pool) = 0
    BY DEF NoPoll
  <2>4. /\ poll'[p] = NoPoll /\ \A q \in Pollers \ {p} : poll'[q] = poll[q]
    BY <2>1 DEF AllocTypes
  <2>5. /\ Working' = Working \ {p} /\ Undecided' = Undecided \ {p} /\ Drawn' = Drawn \ {p}
    BY <2>3, <2>4 DEF Working, Undecided, Drawn
  <2>6. /\ IsFiniteSet(Working') /\ Cardinality(Undecided') \in {Cardinality(Undecided), Cardinality(Undecided) - 1}
        /\ Cardinality(Drawn') \in {Cardinality(Drawn), Cardinality(Drawn) - 1}
    BY <1>1, <2>5, FS_RemoveElement DEF Bounds
  <2>7. poll[p].stage = "decided" => Drawn' = Drawn
    BY <2>5 DEF Drawn
  <2>8. pointer' <= MaxRows + faults' + Cardinality(Drawn')
    BY <1>1, <2>1, <2>2, <2>6, <2>7 DEF Bounds
  <2>9. \A b \in Agents : turns'[b] + Cardinality(Undecided') <= bookings'
    BY <1>1, <2>1, <2>6 DEF Bounds
  <2>10. \A q \in Pollers : Len(poll'[q].pool) <= MaxRows
    <3>1. MaxRows \in Nat /\ Len(poll'[p].pool) = 0
      BY <1>1, <2>3, <2>4
    <3>2. \A q \in Pollers \ {p} : Len(poll'[q].pool) <= MaxRows
      BY <2>4 DEF Bounds
    <3> QED
      BY <3>1, <3>2
  <2>11. saves' \in 0..MaxSaves
    BY <2>1 DEF attendance, Bounds
  <2> QED
    BY <2>6, <2>8, <2>9, <2>10, <2>11 DEF Bounds
<1>11. ASSUME UNCHANGED vars PROVE Bounds'
  BY <1>4, <1>11 DEF vars, attendance
<1> QED
  BY <1>3, <1>5, <1>6, <1>7, <1>8, <1>9, <1>10, <1>11 DEF Next

(* The type invariant: every variable keeps its type, no agent has more    *)
(* turns than there were bookings, and the pointer stays in the range of   *)
(* the largest pool but for the tickets that are out or were lost.         *)
THEOREM TypeCorrect == Spec => []TypeOK
<1>1. ASSUME RowsInv, AllocTypes, Bounds PROVE TypeOK
  <2>1. \A p \in Pollers : Range(poll[p].pool) \subseteq Agents
    BY <1>1 DEF AllocTypes, Range
  <2>2. Cardinality(Undecided) \in Nat /\ Cardinality(Drawn) \in Nat
    BY <1>1, WorkIsFinite DEF Bounds
  <2>3. turns \in [Agents -> 0..MaxBookings]
    <3>1. /\ turns \in [Agents -> Nat] /\ bookings \in 0..MaxBookings
          /\ \A a \in Agents : turns[a] + Cardinality(Undecided) <= bookings
      BY <1>1 DEF AllocTypes, Bounds
    <3>2. MaxBookings \in Nat
      BY RosterAssumption
    <3>3. \A a \in Agents : turns[a] \in 0..MaxBookings
      BY <2>2, <3>1, <3>2
    <3> QED
      BY <3>1, <3>3
  <2>4. pointer \in 0..(MaxRows + faults + Cardinality({p \in Pollers : poll[p].stage = "drawn"}))
    BY <1>1, <2>2, RosterAssumption DEF AllocTypes, Bounds, Drawn
  <2>5. /\ uneven \in BOOLEAN /\ saves \in 0..MaxSaves /\ bookings \in 0..MaxBookings
        /\ faults \in 0..MaxFaults
    BY <1>1, Zenon DEF AllocTypes, Bounds
  <2>6. /\ rows \subseteq Row /\ made \in 0..MaxRows /\ doubled \subseteq Agents
        /\ save \in [Savers -> [agent : Agents \cup {None}, status : Statuses,
                                shift : Shifts \cup {None}, keep : SUBSET Row,
                                drop : SUBSET Row, alone : BOOLEAN]]
    BY <1>1 DEF RowsInv, Types
  <2>7. \A p \in Pollers :
          /\ poll[p].stage \in {"idle", "pool", "drawn", "decided"}
          /\ poll[p].agent \in Agents \cup {None}
          /\ poll[p].stage \in {"pool", "drawn"} => poll[p].pool # <<>>
    BY <1>1 DEF AllocTypes
  <2> QED
    BY <2>1, <2>3, <2>4, <2>5, <2>6, <2>7, Zenon DEF TypeOK
<1>2. RowsInv /\ AllocTypes /\ Bounds /\ [Next]_vars => (RowsInv /\ AllocTypes /\ Bounds)'
  BY RowsStep, AllocStep, BoundsStep
<1> QED
  BY <1>1, <1>2, RowsInit, AllocInit, BoundsInit, PTL DEF Spec
=============================================================================
