----------------------------- MODULE RoundRobin -----------------------------
(***************************************************************************)
(* Whose turn it is: the attendance of one day (app/routers/attendance.py) *)
(* and the allocation of new bookings to the agents who are present        *)
(* (app/tasks/tasks.py, _poll_inbox_async).                                *)
(*                                                                         *)
(* A save of the attendance reads an agent's rows and writes later.  A     *)
(* body with several records is several saves here; they would fail        *)
(* together, but no agent's rows depend on those of another.  A poller     *)
(* reads the pool from the database, draws a ticket in Redis with INCR,    *)
(* and puts the pointer back into the range of its pool with SET; nothing  *)
(* ties the three together.                                                *)
(***************************************************************************)
EXTENDS Integers, Sequences, FiniteSets, SequencesExt

CONSTANTS
    Roster,         \* the agents, ordered by name
    Shifts,         \* shifts a row can be filed under
    None,
    Savers,         \* requests that save the attendance
    Pollers,        \* pollers that run at the same time
    MaxRows,        \* how many rows are inserted
    MaxSaves,       \* how many saves are begun
    MaxBookings,    \* how many allocations are begun
    MaxFaults       \* how many allocations are rolled back

ASSUME RosterAssumption ==
    /\ Roster \in Seq(Range(Roster)) /\ IsInjective(Roster) /\ Roster # <<>>
    /\ None \notin Range(Roster) \cup Shifts
    /\ {MaxRows, MaxSaves, MaxBookings, MaxFaults} \subseteq Nat

Agents == Range(Roster)

VARIABLES
    rows,           \* table attendance, of one day
    made,           \* rows inserted so far: source of ids
    save,           \* the saves, with the rows each has read
    saves,          \* saves begun so far
    pointer,        \* the pointer in Redis
    poll,           \* the pollers, with pool, ticket and choice
    bookings,       \* allocations begun so far
    faults,
    doubled,        \* history: agents whose saves overlapped, until a save
                    \* of the agent ran alone
    turns,          \* history: turns since the pool last changed
    uneven          \* history: and something disturbed the order since

attendance == <<rows, made, save, saves, doubled>>
allocation == <<pointer, poll, bookings, faults>>
vars == <<attendance, allocation, turns, uneven>>

Statuses == {"Present", "Absent"}

Row == [id : 1..MaxRows, agent : Agents, status : Statuses, shift : Shifts \cup {None}]

NoSave == [agent |-> None, status |-> "Absent", shift |-> None, keep |-> {},
           drop |-> {}, alone |-> TRUE]

NoPoll == [stage |-> "idle", pool |-> <<>>, ticket |-> 0, agent |-> None]

RowsOf(a) == {r \in rows : r.agent = a}

(* SELECT agents JOIN attendance ... WHERE status = 'Present' ORDER BY     *)
(* name: an agent comes once per row that says so.  The i-th place goes to *)
(* the first agent with whom there are i rows.                             *)
PoolOf(table) ==
    LET Until(k) == {r \in table : r.status = "Present" /\ \E j \in 1..k : Roster[j] = r.agent}
        Places == 1..Cardinality(Until(Len(Roster)))
    IN  [i \in Places |-> Roster[Min({k \in DOMAIN Roster : i <= Cardinality(Until(k))})]]

Pool == PoolOf(rows)

Init ==
    /\ rows = {} /\ made = 0
    /\ save = [s \in Savers |-> NoSave]
    /\ saves = 0
    /\ pointer = 0
    /\ poll = [p \in Pollers |-> NoPoll]
    /\ bookings = 0
    /\ faults = 0
    /\ doubled = {}
    /\ turns = [a \in Agents |-> 0]
    /\ uneven = FALSE

-----------------------------------------------------------------------------
(* Attendance.                                                             *)

Saving(a) == {s \in Savers : save[s].agent = a}

(* Mutant: the lookup also asks for the shift of the record.               *)
ReadRowsByShift(s, a) ==
    /\ save[s] = NoSave
    /\ saves < MaxSaves
    /\ saves' = saves + 1
    /\ \E status \in Statuses, shift \in Shifts \cup {None} :
         LET found == {r \in RowsOf(a) : r.shift = shift} IN
         \E keep \in {k \in SUBSET found : Cardinality(k) = 1 \/ found = {}} :
            save' = [q \in Savers |->
              IF q = s THEN [agent |-> a, status |-> status, shift |-> shift, keep |-> keep,
                             drop |-> found \ keep, alone |-> Saving(a) = {}]
              ELSE IF q \in Saving(a) THEN [save[q] EXCEPT !.alone = FALSE]
              ELSE save[q]]
    /\ UNCHANGED <<rows, made, doubled, allocation, turns, uneven>>

(* The rows of the agent, in no order: the first is kept, the others go.   *)
ReadRows(s, a) ==
    /\ save[s] = NoSave
    /\ saves < MaxSaves
    /\ saves' = saves + 1
    /\ \E status \in Statuses, shift \in Shifts \cup {None} :
       \E keep \in {k \in SUBSET RowsOf(a) : Cardinality(k) = 1 \/ RowsOf(a) = {}} :
         save' = [q \in Savers |->
           IF q = s THEN [agent |-> a, status |-> status, shift |-> shift, keep |-> keep,
                          drop |-> RowsOf(a) \ keep, alone |-> Saving(a) = {}]
           ELSE IF q \in Saving(a) THEN [save[q] EXCEPT !.alone = FALSE]
           ELSE save[q]]
    /\ UNCHANGED <<rows, made, doubled, allocation, turns, uneven>>

(* A column is written when its new value differs from the one read.       *)
Column(read, new, now) == IF new = read THEN now ELSE new

(* The row that a save updates, as it becomes.                             *)
Updated(s, read, now) ==
    [now EXCEPT !.status = Column(read.status, save[s].status, @),
                !.shift = IF save[s].shift = None THEN @
                          ELSE Column(read.shift, save[s].shift, @)]

Changes(s) == {r \in save[s].keep : Updated(s, r, r) # r}

Ids(table) == {r.id : r \in table}

(* The row to be updated is gone, or the unique index of agent, date and   *)
(* shift is violated; the UPDATE runs before the DELETE of the duplicates. *)
Refused(s) ==
    LET same == {r \in RowsOf(save[s].agent) : r.shift # None /\ r.shift = save[s].shift} IN
    \/ ~ Ids(Changes(s)) \subseteq Ids(rows)
    \/ /\ save[s].keep = {} \/ \E r \in Changes(s) : r.shift # save[s].shift
       /\ Ids(same) \ Ids(save[s].keep) # {}

(* When the pool changes a new count of turns begins, clean unless some    *)
(* poller is still busy with the old one.                                  *)
NewCount ==
    IF PoolOf(rows') = Pool THEN UNCHANGED <<turns, uneven>>
    ELSE /\ turns' = [a \in Agents |-> 0]
         /\ uneven' = \E p \in Pollers : poll[p].stage \in {"pool", "drawn"}

(* The row that a save keeps, as it leaves it.                             *)
UpdatedRows(s) ==
    {Updated(s, read, now) :
        read \in save[s].keep, now \in {r \in rows : r.id \in Ids(save[s].keep)}}

CommitSave(s) ==
    LET a == save[s].agent
        kept == {r \in rows : r.id \notin Ids(save[s].keep \cup save[s].drop)}
        new == [id |-> made + 1, agent |-> a, status |-> save[s].status, shift |-> save[s].shift]
    IN
    /\ a # None /\ ~ Refused(s)
    /\ \/ /\ save[s].keep = {}
          /\ made < MaxRows
          /\ rows' = rows \cup {new}
          /\ made' = made + 1
       \/ /\ save[s].keep # {}
          /\ rows' = kept \cup UpdatedRows(s)
          /\ made' = made
    /\ save' = [save EXCEPT ![s] = NoSave]
    /\ doubled' = IF save[s].alone THEN doubled \ {a} ELSE doubled \cup {a}
    /\ NewCount
    /\ UNCHANGED <<saves, allocation>>

RefuseSave(s) ==
    /\ save[s].agent # None /\ Refused(s)
    /\ save' = [save EXCEPT ![s] = NoSave]
    /\ UNCHANGED <<rows, made, saves, doubled, allocation, turns, uneven>>

-----------------------------------------------------------------------------
(* Allocation.                                                             *)

(* The e-mail names an agent by its category, and that agent is present:   *)
(* the booking is the agent's and the pointer stays.  Otherwise the pool   *)
(* is read; if it is empty the booking stays pending.                      *)
ReadPool(p) ==
    /\ poll[p] = NoPoll
    /\ bookings < MaxBookings
    /\ bookings' = bookings + 1
    /\ \/ \E a \in Range(Pool) :
            poll' = [poll EXCEPT ![p] = [NoPoll EXCEPT !.stage = "decided", !.agent = a]]
       \/ poll' = [poll EXCEPT ![p] = [NoPoll EXCEPT
                     !.stage = IF Pool = <<>> THEN "decided" ELSE "pool", !.pool = Pool]]
    /\ UNCHANGED <<attendance, pointer, faults, turns, uneven>>

(* INCR returns the new value; one less is the ticket.                     *)
Draw(p) ==
    /\ poll[p].stage = "pool"
    /\ pointer' = pointer + 1
    /\ poll' = [poll EXCEPT ![p].stage = "drawn", ![p].ticket = pointer]
    /\ uneven' = (uneven \/ \E q \in Pollers : poll[q].stage = "drawn")
    /\ UNCHANGED <<attendance, bookings, faults, turns>>

Size(p) == Len(poll[p].pool)

(* Mutant: the ticket itself is put back.                                  *)
ChooseSame(p) ==
    /\ poll[p].stage = "drawn"
    /\ pointer' = poll[p].ticket % Size(p)
    /\ LET a == poll[p].pool[(poll[p].ticket % Size(p)) + 1] IN
         /\ poll' = [poll EXCEPT ![p].stage = "decided", ![p].agent = a]
         /\ turns' = [turns EXCEPT ![a] = @ + 1]
    /\ UNCHANGED <<attendance, bookings, faults, uneven>>

(* SET pointer (ticket + 1) % size, and agents[ticket % size].             *)
Choose(p) ==
    /\ poll[p].stage = "drawn"
    /\ pointer' = (poll[p].ticket + 1) % Size(p)
    /\ LET a == poll[p].pool[(poll[p].ticket % Size(p)) + 1] IN
         /\ poll' = [poll EXCEPT ![p].stage = "decided", ![p].agent = a]
         /\ turns' = [turns EXCEPT ![a] = @ + 1]
    /\ UNCHANGED <<attendance, bookings, faults, uneven>>

(* The booking is committed with its agent, or without one.                *)
CommitBooking(p) ==
    /\ poll[p].stage = "decided"
    /\ poll' = [poll EXCEPT ![p] = NoPoll]
    /\ UNCHANGED <<attendance, pointer, bookings, faults, turns, uneven>>

Drew(p) == poll[p].pool # <<>> /\ poll[p].stage # "pool"

(* The transaction is rolled back, or the worker dies.  Redis keeps what   *)
(* it was told: a turn that was drawn is lost.                             *)
LoseBooking(p) ==
    /\ poll[p].stage # "idle"
    /\ faults < MaxFaults
    /\ faults' = faults + 1
    /\ poll' = [poll EXCEPT ![p] = NoPoll]
    /\ uneven' = (uneven \/ Drew(p))
    /\ UNCHANGED <<attendance, pointer, bookings, turns>>

-----------------------------------------------------------------------------

Next ==
    \/ \E s \in Savers :
         \/ \E a \in Agents : ReadRows(s, a)
         \/ CommitSave(s)
         \/ RefuseSave(s)
    \/ \E p \in Pollers :
         \/ ReadPool(p)
         \/ Draw(p)
         \/ Choose(p)
         \/ CommitBooking(p)
         \/ LoseBooking(p)

Spec == Init /\ [][Next]_vars

-----------------------------------------------------------------------------
(* Properties.                                                             *)

(* Every variable holds a value of its kind.  The pointer stays within the *)
(* largest pool, plus the tickets that were drawn and not put back.        *)
TypeOK ==
    /\ rows \subseteq Row
    /\ made \in 0..MaxRows
    /\ save \in [Savers -> [agent : Agents \cup {None}, status : Statuses,
                            shift : Shifts \cup {None}, keep : SUBSET Row,
                            drop : SUBSET Row, alone : BOOLEAN]]
    /\ saves \in 0..MaxSaves
    /\ pointer \in 0..(MaxRows + faults + Cardinality({p \in Pollers : poll[p].stage = "drawn"}))
    /\ \A p \in Pollers :
         /\ poll[p].stage \in {"idle", "pool", "drawn", "decided"}
         /\ poll[p].agent \in Agents \cup {None}
         /\ Range(poll[p].pool) \subseteq Agents
         /\ poll[p].stage \in {"pool", "drawn"} => poll[p].pool # <<>>
    /\ bookings \in 0..MaxBookings
    /\ faults \in 0..MaxFaults
    /\ doubled \subseteq Agents
    /\ turns \in [Agents -> 0..MaxBookings]
    /\ uneven \in BOOLEAN

(* An agent has one row a day, hence one place in the pool, unless saves   *)
(* of the agent overlapped and none has run alone since: a save repairs    *)
(* what earlier ones left ("Delete stale duplicates if any accumulated     *)
(* previously").                                                           *)
OneRowPerAgent ==
    \A a \in Agents \ doubled : Cardinality(RowsOf(a)) <= 1

(* Agents with one place in the pool have equally many turns, give or take *)
(* one, unless two pollers drew tickets at the same time, a turn was lost  *)
(* with its booking, or the pool changed under a poller.                   *)
FairTurns ==
    \A a, b \in {c \in Range(Pool) : Cardinality({i \in DOMAIN Pool : Pool[i] = c}) = 1} :
        ~ uneven => turns[a] <= turns[b] + 1

=============================================================================
