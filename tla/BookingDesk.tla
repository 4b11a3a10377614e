---------------------------- MODULE BookingDesk ----------------------------
(***************************************************************************)
(* One booking on the desk: the requests that create it, move it through   *)
(* its statuses, give it to an agent, add supporters and delete it         *)
(* (app/routers/bookings.py), the history they write, and the cache of the *)
(* dashboard (app/routers/dashboard.py).                                   *)
(*                                                                         *)
(* The transaction of a request begins with its authentication.  It reads  *)
(* the booking, computes from what it read, and writes the booking and its *)
(* events in one commit; no row is locked meanwhile, and only columns      *)
(* whose value differs from the one read are written.  Events have the     *)
(* time at which their transaction began (PostgreSQL's now()), and are     *)
(* listed in that order.  Most requests delete the cached statistics after *)
(* the commit.                                                             *)
(***************************************************************************)
EXTENDS Naturals, FiniteSets

CONSTANTS
    Agents,
    None,           \* no agent
    Unset,          \* a field that the body of a request leaves out
    Targets,        \* the statuses that requests ask for
    Requests,       \* requests that run at the same time
    MaxRequests,    \* how many requests are begun
    MaxFills,       \* how often the statistics are computed
    MaxFaults       \* how many requests die before they clear the cache

VARIABLES
    row,            \* the booking
    allocs,         \* agents with a row in the allocation log
    support,        \* the supporters
    req,            \* the requests, with what each has read
    begun,          \* requests begun so far
    told,           \* status and agent as the latest events tell them,
                    \* and when the transactions of these events began
    doubt,          \* history: which of the two may be told wrong
    had,            \* history: agents who have had the booking
    joined,         \* events that tell of supporters: added less removed
    stats,          \* the cached statistics, as the status they count
    fill,           \* the dashboard request that computes them
    fills, faults

booking == <<row, allocs, support>>
history == <<told, doubt, had, joined>>
dashboard == <<stats, fill, fills>>
vars == <<booking, history, dashboard, req, begun, faults>>

(* "Ignored" is a second name for a booking that is closed.                *)
Statuses == {"Pending", "Open", "In Progress", "Completed"}

ASSUME DeskAssumption ==
    /\ None \notin Agents /\ Unset \notin Agents \cup {None}
    /\ Targets \subseteq Statuses
    /\ {MaxRequests, MaxFills, MaxFaults} \subseteq Nat

Row == [life : {"none", "live", "deleted"}, status : Statuses,
        agent : Agents \cup {None}, assigned : BOOLEAN, completed : BOOLEAN]

NewRow == [life |-> "none", status |-> "Pending", agent |-> None,
           assigned |-> FALSE, completed |-> FALSE]

Idle == [op |-> "none", status |-> Unset, agent |-> Unset, row |-> NewRow,
         start |-> 0, alone |-> TRUE, stage |-> "idle"]

Fields == {"status", "agent"}

(* What the dashboard counts the booking as.                               *)
Counted == IF row.life = "live" THEN row.status ELSE "none"

Init ==
    /\ row = NewRow
    /\ allocs = {} /\ support = {}
    /\ req = [q \in Requests |-> Idle]
    /\ begun = 0
    /\ told = [f \in Fields |-> [value |-> NewRow[f], at |-> 0]]
    /\ doubt = {} /\ had = {}
    /\ joined = [a \in Agents |-> 0]
    /\ stats = [cached |-> FALSE, counts |-> "none", stale |-> FALSE]
    /\ fill = [busy |-> FALSE, counts |-> "none", stale |-> FALSE]
    /\ fills = 0 /\ faults = 0

-----------------------------------------------------------------------------
(* The start of a request: it reads the booking, and keeps what it read if *)
(* what it does later depends on it.                                       *)

Ops ==
    [op : {"create", "delete"}, status : {Unset}, agent : {Unset}]
      \cup [op : {"put"}, status : Targets \cup {Unset}, agent : Agents \cup {None, Unset}]
      \cup [op : {"status"}, status : Targets, agent : {Unset}]
      \cup [op : {"assign"}, status : {Unset}, agent : Agents \cup {None}]
      \cup [op : {"join", "leave"}, status : {Unset}, agent : Agents]

(* A booking that is there, or for a new one that is not; a supporter is   *)
(* not added twice, and only a supporter is removed.                       *)
Accepted(body) ==
    /\ (row.life = "none") <=> (body.op = "create")
    /\ row.life # "deleted"
    /\ body.op = "join" => body.agent \notin support
    /\ body.op = "leave" => body.agent \in support

Running == {q \in Requests : req[q].stage \in {"begin", "commit"}}

Begin(q) ==
    /\ req[q] = Idle
    /\ begun < MaxRequests
    /\ begun' = begun + 1
    /\ req' = [r \in Requests |->
         IF r = q THEN [Idle EXCEPT !.stage = "begin", !.start = begun + 1,
                                    !.alone = (Running = {})]
         ELSE IF r \in Running THEN [req[r] EXCEPT !.alone = FALSE]
         ELSE req[r]]
    /\ UNCHANGED <<booking, history, dashboard, faults>>

Read(q) ==
    /\ req[q].stage = "begin"
    /\ \E body \in Ops :
         /\ Accepted(body)
         /\ req' = [req EXCEPT ![q] =
              [op |-> body.op, status |-> body.status, agent |-> body.agent,
               row |-> IF body.op \in {"put", "status", "assign"} THEN row ELSE NewRow,
               start |-> req[q].start, alone |-> req[q].alone, stage |-> "commit"]]
    /\ UNCHANGED <<booking, history, dashboard, begun, faults>>

(* The request is refused: 404 or 400.                                     *)
Refuse(q) ==
    /\ req[q].stage = "begin"
    /\ \E body \in Ops : ~ Accepted(body)
    /\ req' = [req EXCEPT ![q] = Idle]
    /\ UNCHANGED <<booking, history, dashboard, begun, faults>>

-----------------------------------------------------------------------------
(* What the commits have in common.                                        *)

(* A column is written when its new value differs from the one read.       *)
Column(read, new, now) == IF new = read THEN now ELSE new

(* The request writes the booking; q's fields it leaves alone are as now.  *)
Written(q, status, agent, assigned, completed) ==
    [row EXCEPT !.status = Column(req[q].row.status, status, @),
                !.agent = Column(req[q].row.agent, agent, @),
                !.assigned = Column(req[q].row.assigned, assigned, @),
                !.completed = Column(req[q].row.completed, completed, @)]

(* The commit writes events for some fields, and each tells what the       *)
(* request leaves there.  It is the latest unless a transaction that began *)
(* later has told the field already.  What it tells may be wrong if it is  *)
(* not the latest, and if the field is left as read while another request  *)
(* changed it.                                                             *)
Tell(q, fields, after) ==
    LET k == req[q]
        Late(f) == told[f].at > k.start
    IN
    /\ told' = [f \in Fields |->
         IF f \in fields /\ ~ Late(f) THEN [value |-> after[f], at |-> k.start] ELSE told[f]]
    /\ doubt' = {f \in Fields :
         IF f \in fields THEN Late(f) \/ (~ k.alone /\ after[f] = k.row[f]) ELSE f \in doubt}

(* Mutant: a change of the status leaves the statistics cached.            *)
ClearingNotStatus == {"create", "put", "delete"}

(* The requests that delete the cached statistics after their commit.      *)
Clearing == {"create", "put", "status", "delete"}

(* What was computed for the dashboard before this commit is stale after;  *)
(* so is what is cached, and nobody clears it if the request does not.     *)
Outdate(clears) ==
    LET changed == Counted' # Counted IN
    /\ fill' = [fill EXCEPT !.stale = @ \/ (fill.busy /\ changed)]
    /\ stats' = [stats EXCEPT !.stale = @ \/ (stats.cached /\ changed /\ ~ clears)]
    /\ UNCHANGED fills

(* Who has the booking from now on has had it.                             *)
Has == had' = had \cup ({row'.agent} \ {None})

Goes(q, op) == req[q].op = op /\ req[q].stage = "commit"

Finish(q, op) ==
    /\ req' = [req EXCEPT ![q] =
         IF op \in Clearing THEN [Idle EXCEPT !.stage = "clear"] ELSE Idle]
    /\ Outdate(op # "assign")
    /\ Has
    /\ UNCHANGED <<begun, faults>>

(* Mutant: only the first agent is logged.                                 *)
NewAgentFirst(q) == req[q].agent \in Agents /\ req[q].row.agent = None

(* A row of the allocation log is due.                                     *)
NewAgent(q) == req[q].agent \in Agents /\ req[q].agent # req[q].row.agent

Allocate(q) == allocs' = IF NewAgent(q) THEN allocs \cup {req[q].agent} ELSE allocs

(* Mutant: the end of the booking is noted if it comes after an assignment. *)
CompletedIfAssigned(q) ==
    req[q].row.completed \/ (req[q].status = "Completed" /\ req[q].row.assigned)

(* completed_at is set with the closing status and never reset.            *)
Completed(q) == req[q].row.completed \/ req[q].status = "Completed"

-----------------------------------------------------------------------------
(* The commits.                                                            *)

CommitCreate(q) ==
    /\ Goes(q, "create")
    /\ row.life = "none"
    /\ row' = [NewRow EXCEPT !.life = "live"]
    /\ Tell(q, {"status"}, NewRow)
    /\ UNCHANGED <<allocs, support, joined>>
    /\ Finish(q, "create")

(* The status that update_booking leaves: the one in the body, or the one  *)
(* that follows from a change of the agent.                                *)
PutStatus(q) ==
    LET k == req[q] IN
    IF k.status # Unset THEN k.status
    ELSE IF k.agent = None /\ k.row.agent # None /\ k.row.status = "In Progress" THEN "Open"
    ELSE IF k.agent \in Agents /\ k.row.status = "Open" THEN "In Progress"
    ELSE k.row.status

PutAgent(q) == IF req[q].agent = Unset THEN req[q].row.agent ELSE req[q].agent

(* Mutant: no event for a status that follows from a change of the agent.  *)
PutEventsOfBody(q) ==
    {f \in Fields : IF f = "agent" THEN PutAgent(q) # req[q].row.agent
                    ELSE req[q].status \notin {Unset, req[q].row.status}}

(* The events of update_booking: what changes, compared with what it read. *)
PutEvents(q) ==
    {f \in Fields : IF f = "agent" THEN PutAgent(q) # req[q].row.agent
                    ELSE PutStatus(q) # req[q].row.status}

(* update_booking.                                                         *)
CommitPut(q) ==
    /\ Goes(q, "put")
    /\ row.life = "live"
    /\ row' = Written(q, PutStatus(q), PutAgent(q),
                      req[q].row.assigned \/ req[q].agent \in Agents, Completed(q))
    /\ Allocate(q)
    /\ Tell(q, PutEvents(q), [status |-> PutStatus(q), agent |-> PutAgent(q)])
    /\ UNCHANGED <<support, joined>>
    /\ Finish(q, "put")

(* update_status: its event is written even if the status is the old one.  *)
CommitStatus(q) ==
    LET k == req[q] IN
    /\ Goes(q, "status")
    /\ row.life = "live"
    /\ row' = Written(q, k.status, k.row.agent, k.row.assigned, Completed(q))
    /\ Tell(q, {"status"}, [status |-> k.status, agent |-> k.row.agent])
    /\ UNCHANGED <<allocs, support, joined>>
    /\ Finish(q, "status")

AssignStatus(q) ==
    LET k == req[q] IN
    IF k.agent # None /\ k.row.status = "Open" THEN "In Progress"
    ELSE IF k.agent = None /\ k.row.status = "In Progress" THEN "Open"
    ELSE k.row.status

(* assign_agent: an event for the agent if it is a new one or none, and    *)
(* for the status if it follows.  The statistics stay cached.              *)
CommitAssign(q) ==
    LET k == req[q]
        events == {f \in Fields : IF f = "agent" THEN NewAgent(q) \/ k.agent = None
                                  ELSE AssignStatus(q) # k.row.status}
    IN
    /\ Goes(q, "assign")
    /\ row.life = "live"
    /\ row' = Written(q, AssignStatus(q), k.agent, k.row.assigned \/ k.agent # None,
                      k.row.completed)
    /\ Allocate(q)
    /\ Tell(q, events, [status |-> AssignStatus(q), agent |-> k.agent])
    /\ UNCHANGED <<support, joined>>
    /\ Finish(q, "assign")

(* Mutant: the pair of booking and agent is no key.                        *)
MayJoinAgain(q) == TRUE

(* booking_support_agents has booking and agent as its primary key.        *)
MayJoin(q) == req[q].agent \notin support

(* add_support_agent.                                                      *)
CommitJoin(q) ==
    /\ Goes(q, "join")
    /\ row.life = "live" /\ MayJoin(q)
    /\ support' = support \cup {req[q].agent}
    /\ joined' = [joined EXCEPT ![req[q].agent] = @ + 1]
    /\ UNCHANGED <<row, allocs, told, doubt>>
    /\ Finish(q, "join")

(* remove_support_agent: a row that is gone is an error.                   *)
CommitLeave(q) ==
    /\ Goes(q, "leave")
    /\ row.life = "live" /\ req[q].agent \in support
    /\ support' = support \ {req[q].agent}
    /\ joined' = [joined EXCEPT ![req[q].agent] = @ - 1]
    /\ UNCHANGED <<row, allocs, told, doubt>>
    /\ Finish(q, "leave")

(* delete_booking.  The rows of the allocation log are not deleted with    *)
(* the booking but detached, which their column does not allow.            *)
CommitDelete(q) ==
    /\ Goes(q, "delete")
    /\ row.life = "live" /\ allocs = {}
    /\ row' = [NewRow EXCEPT !.life = "deleted"]
    /\ support' = {}
    /\ told' = [f \in Fields |-> [value |-> NewRow[f], at |-> 0]]
    /\ doubt' = {}
    /\ joined' = [a \in Agents |-> 0]
    /\ UNCHANGED allocs
    /\ Finish(q, "delete")

(* The booking is gone or there already, the supporter is, or the log      *)
(* holds on to the booking: error 500 and a rollback.                      *)
Fail(q) ==
    LET k == req[q] IN
    /\ k.stage = "commit"
    /\ \/ (row.life = "live") <=> (k.op = "create")
       \/ row.life = "deleted"
       \/ k.op = "join" /\ ~ MayJoin(q)
       \/ k.op = "leave" /\ k.agent \notin support
       \/ k.op = "delete" /\ allocs # {}
    /\ req' = [req EXCEPT ![q] = Idle]
    /\ UNCHANGED <<booking, history, dashboard, begun, faults>>

(* A poller opens the booking, for the agent whose turn it is if there is  *)
(* one.  The statistics stay cached.                                       *)
PollerOpens ==
    /\ row.life = "none"
    /\ \/ /\ row' = [NewRow EXCEPT !.life = "live"]
          /\ UNCHANGED allocs
       \/ \E a \in Agents :
            /\ row' = [life |-> "live", status |-> "In Progress", agent |-> a,
                       assigned |-> TRUE, completed |-> FALSE]
            /\ allocs' = {a}
    /\ \E at \in 0..begun :
         told' = [f \in Fields |-> [value |-> row'[f], at |-> at]]
    /\ req' = [q \in Requests |->
         IF q \in Running THEN [req[q] EXCEPT !.alone = FALSE] ELSE req[q]]
    /\ Outdate(FALSE)
    /\ Has
    /\ UNCHANGED <<support, doubt, joined, begun, faults>>

-----------------------------------------------------------------------------
(* The statistics.                                                         *)

Clear(q) ==
    /\ req[q].stage = "clear"
    /\ stats' = [cached |-> FALSE, counts |-> "none", stale |-> FALSE]
    /\ req' = [req EXCEPT ![q] = Idle]
    /\ UNCHANGED <<booking, history, fill, fills, begun, faults>>

(* The request dies between the two: the statistics stay.                  *)
DieUncleared(q) ==
    /\ req[q].stage = "clear"
    /\ faults < MaxFaults
    /\ faults' = faults + 1
    /\ stats' = [stats EXCEPT !.stale = stats.cached]
    /\ req' = [req EXCEPT ![q] = Idle]
    /\ UNCHANGED <<booking, history, fill, fills, begun>>

(* Nothing is cached: the bookings are counted ...                         *)
Count ==
    /\ ~ stats.cached /\ ~ fill.busy
    /\ fills < MaxFills
    /\ fills' = fills + 1
    /\ fill' = [busy |-> TRUE, counts |-> Counted, stale |-> FALSE]
    /\ UNCHANGED <<booking, history, stats, req, begun, faults>>

(* ... and the result is cached, whatever happened in between.             *)
Cache ==
    /\ fill.busy
    /\ stats' = [cached |-> TRUE, counts |-> fill.counts, stale |-> fill.stale]
    /\ fill' = [busy |-> FALSE, counts |-> "none", stale |-> FALSE]
    /\ UNCHANGED <<booking, history, fills, req, begun, faults>>

(* After 60 seconds.                                                       *)
Expire ==
    /\ stats.cached
    /\ stats' = [cached |-> FALSE, counts |-> "none", stale |-> FALSE]
    /\ UNCHANGED <<booking, history, fill, fills, req, begun, faults>>

-----------------------------------------------------------------------------

CommitAny(q) ==
    \/ CommitCreate(q)
    \/ CommitPut(q)
    \/ CommitStatus(q)
    \/ CommitAssign(q)
    \/ CommitJoin(q)
    \/ CommitLeave(q)
    \/ CommitDelete(q)
    \/ Fail(q)

Next ==
    \/ \E q \in Requests : Begin(q) \/ Read(q) \/ Refuse(q)
                           \/ CommitAny(q) \/ Clear(q) \/ DieUncleared(q)
    \/ PollerOpens
    \/ Count
    \/ Cache
    \/ Expire

Spec == Init /\ [][Next]_vars

-----------------------------------------------------------------------------
(* Properties.                                                             *)

(* Every variable holds a value of its kind.                               *)
TypeOK ==
    /\ row \in Row
    /\ allocs \subseteq Agents /\ support \subseteq Agents
    /\ req \in [Requests ->
         [op : {"none", "create", "put", "status", "assign", "join", "leave", "delete"},
          status : Statuses \cup {Unset}, agent : Agents \cup {None, Unset},
          row : Row, start : 0..MaxRequests, alone : BOOLEAN,
          stage : {"idle", "begin", "commit", "clear"}]]
    /\ begun \in 0..MaxRequests
    /\ told \in [Fields -> [value : Statuses \cup Agents \cup {None}, at : 0..MaxRequests]]
    /\ doubt \subseteq Fields /\ had \subseteq Agents
    /\ joined \in [Agents -> Nat]
    /\ stats \in [cached : BOOLEAN, counts : Statuses \cup {"none"}, stale : BOOLEAN]
    /\ fill \in [busy : BOOLEAN, counts : Statuses \cup {"none"}, stale : BOOLEAN]
    /\ fills \in 0..MaxFills
    /\ faults \in 0..MaxFaults

(* The latest events of a booking tell its status and its agent, even when *)
(* requests overlap, unless the commits came in another order than the     *)
(* transactions began, or a request confirmed a status or an agent that    *)
(* another was changing.  The next request that writes the field and       *)
(* overlaps with none puts it right.                                       *)
HistoryTells ==
    row.life = "live" => \A f \in Fields \ doubt : told[f].value = row[f]

(* A closed booking has the time of its end, whatever requests overlap:    *)
(* list_bookings and the reports select closed bookings by that time.      *)
ClosedHasEnd == row.status = "Completed" => row.completed

(* The allocation log holds exactly the agents who have had the booking,   *)
(* and the booking of an agent has the time of its assignment, although a  *)
(* request logs what differs from the agent it read and not from the one   *)
(* it overwrites.                                                          *)
AgentIsLogged == allocs = had /\ (row.agent # None => row.assigned)

(* The events "added" and "removed" of an agent alternate and agree with   *)
(* the supporters of the booking, even if two requests add one agent.      *)
SupportAsTold ==
    \A a \in Agents : joined[a] = IF a \in support THEN 1 ELSE 0

(* The dashboard is out of date only while a request is about to clear it, *)
(* or after an assignment, a poller's booking, a request that died, or a   *)
(* count that a change overtook.                                           *)
StaleHasACause ==
    stats.cached /\ stats.counts # Counted =>
        stats.stale \/ \E q \in Requests : req[q].stage = "clear"

=============================================================================
