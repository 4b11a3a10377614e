------------------------- MODULE BookingDeskProofs -------------------------
(***************************************************************************)
(* What module BookingDesk promises, for any agents, any number of         *)
(* requests that overlap, and any number of failures.                      *)
(***************************************************************************)
EXTENDS BookingDesk, TLAPS

-----------------------------------------------------------------------------
(* Types.  They rest on what the body of each kind of request holds, and   *)
(* on SupportAsTold: an event "removed" never comes first.                 *)

BodyInv ==
    \A q \in Requests : LET k == req[q] IN
        /\ k.op = "status" => k.status \in Statuses
        /\ k.op = "assign" => k.agent \in Agents \cup {None}
        /\ k.op \in {"join", "leave"} => k.agent \in Agents

DeskTypes == TypeOK /\ BodyInv /\ SupportAsTold

ReqType ==
    [op : {"none", "create", "put", "status", "assign", "join", "leave", "delete"},
     status : Statuses \cup {Unset}, agent : Agents \cup {None, Unset},
     row : Row, start : 0..MaxRequests, alone : BOOLEAN,
     stage : {"idle", "begin", "commit", "clear"}]

CacheType == [cached : BOOLEAN, counts : Statuses \cup {"none"}, stale : BOOLEAN]

FillType == [busy : BOOLEAN, counts : Statuses \cup {"none"}, stale : BOOLEAN]

ToldType == [value : Statuses \cup Agents \cup {None}, at : 0..MaxRequests]

(* The bounds are numbers.                                                 *)
LEMMA Bounds == MaxRequests \in Nat /\ MaxFills \in Nat /\ MaxFaults \in Nat
  BY DeskAssumption

(* A booking that is not there yet.                                        *)
LEMMA NewRowType == NewRow \in Row /\ NewRow.status = "Pending" /\ NewRow.agent = None
  BY DEF NewRow, Row, Statuses

(* An idle request, or one that is about to clear the statistics.          *)
LEMMA IdleType == Idle \in ReqType /\ [Idle EXCEPT !.stage = "clear"] \in ReqType
<1>1. 0 \in 0..MaxRequests
  BY Bounds
<1> QED
  BY <1>1, NewRowType DEF Idle, ReqType

(* There is no booking at the start.                                       *)
LEMMA TypeInit == Init => DeskTypes
<1> SUFFICES ASSUME Init PROVE DeskTypes
  OBVIOUS
<1>1. req \in [Requests -> ReqType] /\ BodyInv
  BY IdleType DEF Init, BodyInv, Idle
<1>2. told \in [Fields -> ToldType]
  <2>1. \A f \in Fields : NewRow[f] \in Statuses \cup Agents \cup {None}
    BY NewRowType DEF Fields, NewRow, Statuses
  <2> QED
    BY <2>1, Bounds DEF Init, ToldType
<1>3. SupportAsTold /\ joined \in [Agents -> Nat]
  BY DEF Init, SupportAsTold
<1>4. /\ stats \in [cached : BOOLEAN, counts : Statuses \cup {"none"}, stale : BOOLEAN]
      /\ fill \in [busy : BOOLEAN, counts : Statuses \cup {"none"}, stale : BOOLEAN]
  BY DEF Init
<1>5. begun \in 0..MaxRequests /\ fills \in 0..MaxFills /\ faults \in 0..MaxFaults
  BY Bounds DEF Init
<1>6. /\ row \in Row /\ allocs \subseteq Agents /\ support \subseteq Agents
      /\ doubt \subseteq Fields /\ had \subseteq Agents
  BY NewRowType DEF Init
<1> QED
  BY <1>1, <1>2, <1>3, <1>4, <1>5, <1>6 DEF DeskTypes, TypeOK, ReqType, ToldType

(* Who has had the booking is an agent.                                    *)
LEMMA HasType ==
  ASSUME TypeOK, row' \in Row, Has
  PROVE  had' \subseteq Agents
<1>1. row'.agent \in Agents \cup {None}
  BY DEF Row
<1> QED
  BY <1>1 DEF TypeOK, Has

(* What the end of a commit changes.                                       *)
LEMMA FinishTypes ==
  ASSUME DeskTypes, NEW q \in Requests, NEW op, Finish(q, op)
  PROVE  /\ req' \in [Requests -> ReqType] /\ BodyInv'
         /\ begun' = begun /\ faults' = faults /\ fills' = fills
         /\ stats' \in [cached : BOOLEAN, counts : Statuses \cup {"none"}, stale : BOOLEAN]
         /\ fill' \in [busy : BOOLEAN, counts : Statuses \cup {"none"}, stale : BOOLEAN]
         /\ row' \in Row => had' \subseteq Agents
<1> USE DEF DeskTypes, Finish, Outdate
<1>1. req \in [Requests -> ReqType]
  BY DEF TypeOK, ReqType
<1>2. req' \in [Requests -> ReqType]
  BY <1>1, IdleType
<1>3. BodyInv'
  BY <1>1, DeskAssumption DEF BodyInv, Idle, ReqType
<1>4. /\ stats' \in [cached : BOOLEAN, counts : Statuses \cup {"none"}, stale : BOOLEAN]
      /\ fill' \in [busy : BOOLEAN, counts : Statuses \cup {"none"}, stale : BOOLEAN]
  BY DEF TypeOK
<1>5. row' \in Row => had' \subseteq Agents
  BY HasType
<1> QED
  BY <1>2, <1>3, <1>4, <1>5

(* What a request writes into the booking.                                 *)
LEMMA WrittenType ==
  ASSUME row \in Row, NEW q \in Requests,
         NEW s \in Statuses, NEW a \in Agents \cup {None}, NEW b \in BOOLEAN, NEW c \in BOOLEAN
  PROVE  /\ Written(q, s, a, b, c) \in Row
         /\ Written(q, s, a, b, c).life = row.life
         /\ Written(q, s, a, b, c).status = Column(req[q].row.status, s, row.status)
         /\ Written(q, s, a, b, c).agent = Column(req[q].row.agent, a, row.agent)
         /\ Written(q, s, a, b, c).assigned = Column(req[q].row.assigned, b, row.assigned)
         /\ Written(q, s, a, b, c).completed = Column(req[q].row.completed, c, row.completed)
  BY DEF Written, Row, Column

(* What a request tells.                                                   *)
LEMMA TellTypes ==
  ASSUME TypeOK, NEW q \in Requests, NEW fields, NEW after,
         after.status \in Statuses, after.agent \in Agents \cup {None},
         after["status"] = after.status, after["agent"] = after.agent,
         Tell(q, fields, after)
  PROVE  told' \in [Fields -> ToldType] /\ doubt' \subseteq Fields
  BY DEF TypeOK, Tell, Fields, ToldType

(* No request, poller or count leaves the types.                           *)
LEMMA TypeStep == DeskTypes /\ [Next]_vars => DeskTypes'
<1> SUFFICES ASSUME DeskTypes, [Next]_vars PROVE DeskTypes'
  OBVIOUS
<1> USE DEF DeskTypes, booking, history, dashboard
<1>1. /\ req \in [Requests -> ReqType] /\ told \in [Fields -> ToldType]
      /\ row \in Row /\ row.status \in Statuses /\ row.agent \in Agents \cup {None}
      /\ begun \in 0..MaxRequests /\ fills \in 0..MaxFills /\ faults \in 0..MaxFaults
      /\ stats \in CacheType /\ fill \in FillType
  BY DEF TypeOK, ReqType, ToldType, Row, CacheType, FillType
<1>2. ASSUME /\ req' \in [Requests -> ReqType] /\ begun' \in 0..MaxRequests /\ BodyInv'
             /\ UNCHANGED <<booking, history, dashboard, faults>>
      PROVE  DeskTypes'
  BY <1>2 DEF TypeOK, SupportAsTold, ReqType
<1>3. ASSUME NEW q \in Requests, Begin(q) PROVE DeskTypes'
  <2>1. begun + 1 \in 0..MaxRequests /\ begun' = begun + 1
    <3>1. begun < MaxRequests /\ begun' = begun + 1
      BY <1>3 DEF Begin
    <3> QED
      BY <1>1, <3>1, Bounds
  <2>2. [Idle EXCEPT !.stage = "begin", !.start = begun + 1, !.alone = (Running = {})] \in ReqType
    BY <2>1, IdleType DEF ReqType
  <2>3. \A r \in Requests : [req[r] EXCEPT !.alone = FALSE] \in ReqType
    BY <1>1, ZenonT(30) DEF ReqType
  <2>4. req' \in [Requests -> ReqType]
    BY <1>1, <1>3, <2>2, <2>3 DEF Begin
  <2>5. BodyInv'
    <3>1. req'[q].op = "none"
      BY <1>1, <1>3 DEF Begin, Idle
    <3>2. \A r \in Requests \ {q} : /\ req'[r].op = req[r].op
                                    /\ req'[r].status = req[r].status
                                    /\ req'[r].agent = req[r].agent
      BY <1>1, <1>3, ZenonT(30) DEF Begin, ReqType
    <3> QED
      BY <3>1, <3>2 DEF BodyInv
  <2> QED
    BY <1>2, <1>3, <2>1, <2>4, <2>5 DEF Begin
<1>4. ASSUME NEW q \in Requests, Read(q) PROVE DeskTypes'
  <2> PICK body \in Ops :
        req' = [req EXCEPT ![q] =
              [op |-> body.op, status |-> body.status, agent |-> body.agent,
               row |-> IF body.op \in {"put", "status", "assign"} THEN row ELSE NewRow,
               start |-> req[q].start, alone |-> req[q].alone, stage |-> "commit"]]
    BY <1>4 DEF Read
  <2>1. /\ body.op \in {"create", "put", "status", "assign", "join", "leave", "delete"}
        /\ body.status \in Statuses \cup {Unset} /\ body.agent \in Agents \cup {None, Unset}
        /\ body.op = "status" => body.status \in Statuses
        /\ body.op = "assign" => body.agent \in Agents \cup {None}
        /\ body.op \in {"join", "leave"} => body.agent \in Agents
    BY DeskAssumption DEF Ops
  <2>2. req' \in [Requests -> ReqType]
    <3>1. req[q].start \in 0..MaxRequests /\ req[q].alone \in BOOLEAN
      BY <1>1 DEF ReqType
    <3>2. req'[q] \in ReqType
      BY <1>1, <2>1, <3>1, NewRowType DEF ReqType
    <3> QED
      BY <1>1, <3>2
  <2>3. BodyInv'
    BY <1>1, <2>1 DEF BodyInv, ReqType
  <2> QED
    BY <1>2, <1>4, <2>2, <2>3 DEF Read, TypeOK
<1>5. ASSUME NEW q \in Requests, Refuse(q) \/ Fail(q) PROVE DeskTypes'
  <2>1. req' = [req EXCEPT ![q] = Idle]
    BY <1>5 DEF Refuse, Fail
  <2>2. req' \in [Requests -> ReqType] /\ BodyInv'
    BY <1>1, <2>1, IdleType DEF BodyInv, Idle
  <2> QED
    BY <1>2, <1>5, <2>2 DEF Refuse, Fail, TypeOK
<1>6. ASSUME NEW q \in Requests, CommitCreate(q) PROVE DeskTypes'
  <2>1. row' \in Row
    BY <1>6, NewRowType DEF CommitCreate, Row
  <2>2. NewRow["status"] = NewRow.status /\ NewRow["agent"] = NewRow.agent
    OBVIOUS
  <2>3. told' \in [Fields -> ToldType] /\ doubt' \subseteq Fields
    <3>1. Tell(q, {"status"}, NewRow)
      BY <1>6 DEF CommitCreate
    <3>2. NewRow.status \in Statuses /\ NewRow.agent \in Agents \cup {None}
      BY NewRowType DEF Statuses
    <3> QED
      BY <2>2, <3>1, <3>2, TellTypes
  <2> QED
    BY <1>6, <2>1, <2>3, FinishTypes DEF CommitCreate, TypeOK, SupportAsTold, ToldType, ReqType
<1>7. ASSUME NEW q \in Requests, NEW s \in Statuses, NEW a \in Agents \cup {None},
             NEW b \in BOOLEAN, NEW c \in BOOLEAN, NEW events, NEW op,
             row' = Written(q, s, a, b, c), allocs' \subseteq Agents,
             Tell(q, events, [status |-> s, agent |-> a]), Finish(q, op),
             UNCHANGED <<support, joined>>
      PROVE  DeskTypes'
  <2>1. row' \in Row
    BY <1>1, <1>7, WrittenType
  <2>2. told' \in [Fields -> ToldType] /\ doubt' \subseteq Fields
    BY <1>7, TellTypes
  <2> QED
    BY <1>7, <2>1, <2>2, FinishTypes DEF TypeOK, SupportAsTold, ToldType, ReqType
<1>8. ASSUME NEW q \in Requests PROVE CommitPut(q) => DeskTypes'
  <2>1. PutStatus(q) \in Statuses /\ PutAgent(q) \in Agents \cup {None}
    BY <1>1 DEF PutStatus, PutAgent, ReqType, Row, Statuses
  <2>2. (req[q].row.assigned \/ req[q].agent \in Agents) \in BOOLEAN /\ Completed(q) \in BOOLEAN
    BY DEF Completed
  <2>3. Allocate(q) => allocs' \subseteq Agents
    BY DEF Allocate, NewAgent, TypeOK
  <2> QED
    BY <1>7, <2>1, <2>2, <2>3 DEF CommitPut
<1>9. ASSUME NEW q \in Requests PROVE CommitStatus(q) => DeskTypes'
  <2>1. req[q].op = "status" => req[q].status \in Statuses
    BY DEF BodyInv
  <2>2. /\ req[q].row.agent \in Agents \cup {None} /\ req[q].row.assigned \in BOOLEAN
        /\ Completed(q) \in BOOLEAN
    BY <1>1 DEF Completed, ReqType, Row
  <2> QED
    BY <1>7, <2>1, <2>2 DEF CommitStatus, Goes, TypeOK
<1>10. ASSUME NEW q \in Requests PROVE CommitAssign(q) => DeskTypes'
  <2>1. req[q].op = "assign" => req[q].agent \in Agents \cup {None}
    BY DEF BodyInv
  <2>2. /\ AssignStatus(q) \in Statuses
        /\ (req[q].row.assigned \/ req[q].agent # None) \in BOOLEAN
        /\ req[q].row.completed \in BOOLEAN
    BY <1>1 DEF AssignStatus, ReqType, Row, Statuses
  <2>3. Allocate(q) => allocs' \subseteq Agents
    BY DEF Allocate, NewAgent, TypeOK
  <2> QED
    BY <1>7, <2>1, <2>2, <2>3 DEF CommitAssign, Goes
<1>11. ASSUME NEW q \in Requests, CommitJoin(q) \/ CommitLeave(q) PROVE DeskTypes'
  <2>1. req[q].agent \in Agents
    BY <1>11 DEF CommitJoin, CommitLeave, Goes, BodyInv
  <2>2. /\ support' \subseteq Agents /\ joined' \in [Agents -> Nat] /\ SupportAsTold'
    BY <1>11, <2>1 DEF CommitJoin, CommitLeave, MayJoin, TypeOK, SupportAsTold
  <2>3. \E op : Finish(q, op)
    BY <1>11 DEF CommitJoin, CommitLeave
  <2> QED
    BY <1>11, <2>2, <2>3, FinishTypes DEF CommitJoin, CommitLeave, TypeOK, ReqType
<1>12. ASSUME NEW q \in Requests, CommitDelete(q) PROVE DeskTypes'
  <2>1. row' \in Row
    BY <1>12, NewRowType DEF CommitDelete, Row
  <2>2. told' \in [Fields -> ToldType]
    <3>1. \A f \in Fields : NewRow[f] \in Statuses \cup Agents \cup {None}
      BY NewRowType DEF Fields, NewRow, Statuses
    <3>2. told' = [f \in Fields |-> [value |-> NewRow[f], at |-> 0]]
      BY <1>12 DEF CommitDelete
    <3> QED
      BY <3>1, <3>2, Bounds DEF ToldType
  <2> QED
    BY <1>12, <2>1, <2>2, FinishTypes DEF CommitDelete, TypeOK, SupportAsTold, ToldType, ReqType
<1>13. ASSUME PollerOpens PROVE DeskTypes'
  <2>1. row' \in Row /\ allocs' \subseteq Agents
    <3>1. [NewRow EXCEPT !.life = "live"] \in Row
      BY NewRowType DEF Row
    <3>2. \A a \in Agents : [life |-> "live", status |-> "In Progress", agent |-> a,
                            assigned |-> TRUE, completed |-> FALSE] \in Row
      BY DEF Row, Statuses
    <3>3. allocs \subseteq Agents
      BY DEF TypeOK
    <3> QED
      BY <1>13, <3>1, <3>2, <3>3 DEF PollerOpens
  <2>2. \A f \in Fields : row'[f] \in Statuses \cup Agents \cup {None}
    BY <2>1 DEF Row, Fields
  <2>3. told' \in [Fields -> ToldType]
    <3> PICK at \in 0..begun : told' = [f \in Fields |-> [value |-> row'[f], at |-> at]]
      BY <1>13 DEF PollerOpens
    <3>1. at \in 0..MaxRequests
      BY <1>1, Bounds
    <3> QED
      BY <2>2, <3>1 DEF ToldType
  <2>4. \A r \in Requests : [req[r] EXCEPT !.alone = FALSE] \in ReqType
    BY <1>1, ZenonT(30) DEF ReqType
  <2>5. req' \in [Requests -> ReqType]
    BY <1>1, <1>13, <2>4 DEF PollerOpens
  <2>6. BodyInv'
    <3>1. \A r \in Requests : /\ req'[r].op = req[r].op
                              /\ req'[r].status = req[r].status
                              /\ req'[r].agent = req[r].agent
      BY <1>1, <1>13, ZenonT(30) DEF PollerOpens, ReqType
    <3> QED
      BY <3>1 DEF BodyInv
  <2>7. /\ stats' \in [cached : BOOLEAN, counts : Statuses \cup {"none"}, stale : BOOLEAN]
        /\ fill' \in [busy : BOOLEAN, counts : Statuses \cup {"none"}, stale : BOOLEAN]
        /\ fills' = fills
    BY <1>13 DEF PollerOpens, Outdate, TypeOK
  <2>8. had' \subseteq Agents
    BY <1>13, <2>1, HasType DEF PollerOpens
  <2> QED
    BY <1>13, <2>1, <2>3, <2>5, <2>6, <2>7, <2>8 DEF PollerOpens, TypeOK, SupportAsTold, ToldType, ReqType
<1>14. ASSUME NEW q \in Requests, Clear(q) \/ DieUncleared(q) PROVE DeskTypes'
  <2>1. req' = [req EXCEPT ![q] = Idle] /\ faults' \in 0..MaxFaults
    BY <1>14, Bounds DEF Clear, DieUncleared, TypeOK
  <2>2. req' \in [Requests -> ReqType] /\ BodyInv'
    BY <1>1, <2>1, IdleType DEF BodyInv, Idle
  <2>3. stats' \in [cached : BOOLEAN, counts : Statuses \cup {"none"}, stale : BOOLEAN]
    <3>1. CASE Clear(q)
      BY <3>1 DEF Clear
    <3>2. CASE DieUncleared(q)
      BY <1>1, <3>2 DEF DieUncleared, CacheType
    <3> QED
      BY <1>14, <3>1, <3>2
  <2> QED
    BY <1>14, <2>1, <2>2, <2>3 DEF Clear, DieUncleared, TypeOK, SupportAsTold, ReqType
<1>15. ASSUME Count \/ Cache \/ Expire PROVE DeskTypes'
  <2>1. Counted \in Statuses \cup {"none"}
    BY <1>1 DEF Counted
  <2>2. /\ stats' \in [cached : BOOLEAN, counts : Statuses \cup {"none"}, stale : BOOLEAN]
        /\ fill' \in [busy : BOOLEAN, counts : Statuses \cup {"none"}, stale : BOOLEAN]
        /\ fills' \in 0..MaxFills
    <3>1. CASE Count
      BY <1>1, <2>1, <3>1, Bounds DEF Count, CacheType
    <3>2. CASE Cache
      BY <1>1, <3>2 DEF Cache, FillType
    <3>3. CASE Expire
      BY <1>1, <3>3 DEF Expire, FillType
    <3> QED
      BY <1>15, <3>1, <3>2, <3>3
  <2> QED
    BY <1>15, <2>2 DEF Count, Cache, Expire, TypeOK, BodyInv, SupportAsTold
<1>16. ASSUME UNCHANGED vars PROVE DeskTypes'
  BY <1>16 DEF vars, TypeOK, BodyInv, SupportAsTold
<1> QED
  BY <1>3, <1>4, <1>5, <1>6, <1>8, <1>9, <1>10, <1>11, <1>12, <1>13, <1>14, <1>15, <1>16
     DEF Next, CommitAny

(* The type invariant, for any agents and any number of requests.          *)
THEOREM TypeCorrect == Spec => []TypeOK
<1>1. DeskTypes => TypeOK
  BY DEF DeskTypes
<1> QED
  BY <1>1, TypeInit, TypeStep, PTL DEF Spec

(* The events about supporters always agree with the supporters, however   *)
(* many requests add and remove them at the same time.                     *)
THEOREM SupportersAsTold == Spec => []SupportAsTold
<1>1. DeskTypes => SupportAsTold
  BY DEF DeskTypes
<1> QED
  BY <1>1, TypeInit, TypeStep, PTL DEF Spec

-----------------------------------------------------------------------------
(* The end of a booking and the agents in its log.  A request decides from *)
(* what it read; what it read of times and agents stays true as long as    *)
(* the booking lives, since times are never reset and the log only grows.  *)

Reads(q) == req[q].stage = "commit" /\ req[q].op \in {"put", "status", "assign"}

StillTrue(r) ==
    /\ row.life # "none"
    /\ r.status = "Completed" => r.completed
    /\ r.agent # None => r.agent \in allocs /\ r.assigned
    /\ row.life = "live" => (r.completed => row.completed) /\ (r.assigned => row.assigned)

AgentIsKnown == row.agent # None => row.agent \in allocs /\ row.assigned

LogInv ==
    /\ ClosedHasEnd /\ AgentIsKnown
    /\ \A q \in Requests : Reads(q) => StillTrue(req[q].row)

(* No request has read anything at the start.                              *)
LEMMA LogInit == Init => LogInv
  BY DEF Init, LogInv, ClosedHasEnd, AgentIsKnown, Reads, Idle, NewRow

(* A request whose commit ends has nothing left to write.                  *)
LEMMA FinishReads ==
  ASSUME DeskTypes, NEW q \in Requests, NEW op, Finish(q, op)
  PROVE  \A r \in Requests : Reads(r)' => r # q /\ Reads(r) /\ req'[r] = req[r]
<1>1. req \in [Requests -> ReqType]
  BY DEF DeskTypes, TypeOK, ReqType
<1> QED
  BY <1>1 DEF Finish, Reads, Idle

(* No request falsifies what others have read.                             *)
LEMMA LogStep == DeskTypes /\ LogInv /\ [Next]_vars => LogInv'
<1> SUFFICES ASSUME DeskTypes, LogInv, [Next]_vars PROVE LogInv'
  OBVIOUS
<1> USE DEF booking, history, dashboard
<1>1. /\ req \in [Requests -> ReqType] /\ row \in Row /\ allocs \subseteq Agents
      /\ \A q \in Requests : req[q].row \in Row
  BY DEF DeskTypes, TypeOK, ReqType
<1>2. ASSUME UNCHANGED <<row, allocs>>,
             \A r \in Requests : Reads(r)' => Reads(r) /\ req'[r].row = req[r].row
      PROVE  LogInv'
  BY <1>2 DEF LogInv, ClosedHasEnd, AgentIsKnown, StillTrue
<1>3. ASSUME NEW q \in Requests, Begin(q) PROVE LogInv'
  <2>1. \A r \in Requests : Reads(r)' => Reads(r) /\ req'[r].row = req[r].row
    <3> SUFFICES ASSUME NEW r \in Requests, Reads(r)'
                 PROVE  Reads(r) /\ req'[r].row = req[r].row
      OBVIOUS
    <3>1. req'[q].stage = "begin"
      BY <1>1, <1>3 DEF Begin, Idle
    <3>2. r # q
      BY <3>1 DEF Reads
    <3>3. req'[r] = req[r] \/ req'[r] = [req[r] EXCEPT !.alone = FALSE]
      BY <1>1, <1>3, <3>2 DEF Begin
    <3>4. req'[r].stage = req[r].stage /\ req'[r].op = req[r].op /\ req'[r].row = req[r].row
      BY <1>1, <3>3 DEF ReqType
    <3> QED
      BY <3>4 DEF Reads
  <2> QED
    BY <1>2, <1>3, <2>1 DEF Begin
<1>4. ASSUME NEW q \in Requests, Read(q) PROVE LogInv'
  <2>1. PICK body \in Ops :
        /\ Accepted(body)
        /\ req' = [req EXCEPT ![q] =
              [op |-> body.op, status |-> body.status, agent |-> body.agent,
               row |-> IF body.op \in {"put", "status", "assign"} THEN row ELSE NewRow,
               start |-> req[q].start, alone |-> req[q].alone, stage |-> "commit"]]
    BY <1>4 DEF Read
  <2>2. Reads(q)' => req'[q].row = row /\ row.life = "live"
    BY <1>1, <2>1 DEF Reads, Accepted, Row
  <2>3. \A r \in Requests \ {q} : req'[r] = req[r]
    BY <1>1, <2>1
  <2>4. UNCHANGED <<row, allocs>>
    BY <1>4 DEF Read
  <2> QED
    BY <2>2, <2>3, <2>4 DEF LogInv, ClosedHasEnd, AgentIsKnown, StillTrue, Reads
<1>5. ASSUME NEW q \in Requests, Refuse(q) \/ Fail(q) \/ Clear(q) \/ DieUncleared(q)
      PROVE  LogInv'
  <2>1. req' = [req EXCEPT ![q] = Idle] /\ UNCHANGED <<row, allocs>>
    BY <1>5 DEF Refuse, Fail, Clear, DieUncleared
  <2>2. \A r \in Requests : Reads(r)' => Reads(r) /\ req'[r].row = req[r].row
    BY <1>1, <2>1 DEF Reads, Idle
  <2> QED
    BY <1>2, <2>1, <2>2
<1>6. ASSUME NEW q \in Requests, Reads(q), row.life = "live",
             NEW s \in Statuses, NEW a \in Agents \cup {None}, NEW b \in BOOLEAN, NEW c \in BOOLEAN,
             row' = Written(q, s, a, b, c), allocs \subseteq allocs',
             s = "Completed" => c, req[q].row.completed => c,
             a # None => a \in allocs' /\ b, req[q].row.assigned => b,
             NEW op, Finish(q, op)
      PROVE  LogInv'
  <2>1. /\ row'.life = "live"
        /\ row'.status = Column(req[q].row.status, s, row.status)
        /\ row'.agent = Column(req[q].row.agent, a, row.agent)
        /\ row'.assigned = Column(req[q].row.assigned, b, row.assigned)
        /\ row'.completed = Column(req[q].row.completed, c, row.completed)
    BY <1>1, <1>6, WrittenType
  <2>2. StillTrue(req[q].row) /\ ClosedHasEnd /\ AgentIsKnown
    BY <1>6 DEF LogInv
  <2>3. /\ row.assigned \in BOOLEAN /\ row.completed \in BOOLEAN
        /\ req[q].row.assigned \in BOOLEAN /\ req[q].row.completed \in BOOLEAN
    BY <1>1 DEF Row
  <2>4. (row.completed => row'.completed) /\ (row.assigned => row'.assigned)
    BY <1>6, <2>1, <2>3 DEF Column
  <2>5. ClosedHasEnd'
    BY <1>6, <2>1, <2>2, <2>3 DEF ClosedHasEnd, StillTrue, Column
  <2>6. AgentIsKnown'
    BY <1>6, <2>1, <2>2, <2>3 DEF AgentIsKnown, StillTrue, Column
  <2>7. \A r \in Requests : Reads(r)' => Reads(r) /\ req'[r] = req[r]
    BY <1>6, FinishReads
  <2> QED
    BY <1>6, <2>1, <2>4, <2>5, <2>6, <2>7 DEF LogInv, StillTrue
<1>7. ASSUME NEW q \in Requests, CommitPut(q) PROVE LogInv'
  <2> DEFINE b == req[q].row.assigned \/ req[q].agent \in Agents
  <2>1. Reads(q) /\ row.life = "live" /\ StillTrue(req[q].row)
    BY <1>7 DEF CommitPut, Goes, Reads, LogInv
  <2>2. /\ PutStatus(q) \in Statuses /\ PutAgent(q) \in Agents \cup {None}
        /\ Completed(q) \in BOOLEAN
        /\ b \in BOOLEAN /\ (req[q].row.assigned => b)
    BY <1>1 DEF PutStatus, PutAgent, Completed, ReqType, Row, Statuses
  <2>3. PutStatus(q) = "Completed" => Completed(q)
    BY <2>1 DEF PutStatus, Completed, StillTrue
  <2>4. allocs' = IF NewAgent(q) THEN allocs \cup {req[q].agent} ELSE allocs
    BY <1>7 DEF CommitPut, Allocate
  <2>5. PutAgent(q) # None => PutAgent(q) \in allocs' /\ b
    BY <2>1, <2>2, <2>4 DEF PutAgent, NewAgent, StillTrue
  <2>6. /\ row' = Written(q, PutStatus(q), PutAgent(q), b, Completed(q))
        /\ Finish(q, "put")
    BY <1>7 DEF CommitPut
  <2>7. allocs \subseteq allocs' /\ (req[q].row.completed => Completed(q))
    BY <2>4 DEF Completed
  <2> HIDE DEF b
  <2> QED
    BY <1>6, <2>1, <2>2, <2>3, <2>5, <2>6, <2>7
<1>8. ASSUME NEW q \in Requests, CommitStatus(q) PROVE LogInv'
  <2>1. Reads(q) /\ row.life = "live" /\ StillTrue(req[q].row)
    BY <1>8 DEF CommitStatus, Goes, Reads, LogInv
  <2>2. /\ req[q].status \in Statuses /\ req[q].row.agent \in Agents \cup {None}
        /\ req[q].row.assigned \in BOOLEAN /\ Completed(q) \in BOOLEAN
    BY <1>1, <1>8 DEF CommitStatus, Goes, DeskTypes, BodyInv, Completed, Row
  <2> QED
    BY <1>6, <1>8, <2>1, <2>2 DEF CommitStatus, Completed, StillTrue
<1>9. ASSUME NEW q \in Requests, CommitAssign(q) PROVE LogInv'
  <2>1. Reads(q) /\ row.life = "live" /\ StillTrue(req[q].row)
    BY <1>9 DEF CommitAssign, Goes, Reads, LogInv
  <2>2. /\ AssignStatus(q) \in Statuses /\ req[q].agent \in Agents \cup {None}
        /\ (req[q].row.assigned \/ req[q].agent # None) \in BOOLEAN
        /\ req[q].row.completed \in BOOLEAN
    BY <1>1, <1>9 DEF CommitAssign, Goes, DeskTypes, BodyInv, AssignStatus, Row, Statuses
  <2>3. AssignStatus(q) = "Completed" => req[q].row.completed
    BY <2>1 DEF AssignStatus, StillTrue
  <2>4. allocs' = IF NewAgent(q) THEN allocs \cup {req[q].agent} ELSE allocs
    BY <1>9 DEF CommitAssign, Allocate
  <2>5. req[q].agent # None => req[q].agent \in allocs'
    BY <2>1, <2>2, <2>4 DEF NewAgent, StillTrue
  <2> QED
    BY <1>6, <1>9, <2>1, <2>2, <2>3, <2>4, <2>5 DEF CommitAssign
<1>10. ASSUME NEW q \in Requests, CommitJoin(q) \/ CommitLeave(q) PROVE LogInv'
  <2>1. UNCHANGED <<row, allocs>> /\ \E op : Finish(q, op)
    BY <1>10 DEF CommitJoin, CommitLeave
  <2> QED
    BY <1>2, <2>1, FinishReads
<1>11. ASSUME row.life = "none", ClosedHasEnd', AgentIsKnown',
              \A r \in Requests : Reads(r)' => Reads(r) /\ req'[r].row = req[r].row
       PROVE  LogInv'
  BY <1>11 DEF LogInv, StillTrue
<1>12. ASSUME NEW q \in Requests, CommitCreate(q) PROVE LogInv'
  <2>1. ClosedHasEnd' /\ AgentIsKnown'
    BY <1>12 DEF CommitCreate, ClosedHasEnd, AgentIsKnown, NewRow
  <2> QED
    BY <1>11, <1>12, <2>1, FinishReads DEF CommitCreate
<1>13. ASSUME NEW q \in Requests, CommitDelete(q) PROVE LogInv'
  <2>1. /\ allocs = {} /\ allocs' = allocs /\ row' = [NewRow EXCEPT !.life = "deleted"]
        /\ Finish(q, "delete")
    BY <1>13 DEF CommitDelete
  <2>2. row'.life = "deleted" /\ row'.status = "Pending" /\ row'.agent = None
    BY <2>1 DEF NewRow
  <2>3. \A r \in Requests : Reads(r)' => Reads(r) /\ req'[r] = req[r]
    BY <2>1, FinishReads
  <2> QED
    BY <2>1, <2>2, <2>3 DEF LogInv, ClosedHasEnd, AgentIsKnown, StillTrue
<1>14. ASSUME PollerOpens PROVE LogInv'
  <2>1. ClosedHasEnd' /\ AgentIsKnown'
    <3>1. CASE row' = [NewRow EXCEPT !.life = "live"]
      BY <3>1 DEF ClosedHasEnd, AgentIsKnown, NewRow
    <3>2. CASE \E a \in Agents :
                 /\ row' = [life |-> "live", status |-> "In Progress", agent |-> a,
                            assigned |-> TRUE, completed |-> FALSE]
                 /\ allocs' = {a}
      <4>1. PICK a \in Agents :
              /\ row' = [life |-> "live", status |-> "In Progress", agent |-> a,
                         assigned |-> TRUE, completed |-> FALSE]
              /\ allocs' = {a}
        BY <3>2
      <4>2. row'.status = "In Progress" /\ row'.agent = a /\ row'.assigned = TRUE
        BY <4>1
      <4> QED
        BY <4>1, <4>2 DEF ClosedHasEnd, AgentIsKnown
    <3> QED
      BY <1>14, <3>1, <3>2 DEF PollerOpens
  <2>2. \A r \in Requests : Reads(r)' => Reads(r) /\ req'[r].row = req[r].row
    BY <1>1, <1>14, ZenonT(30) DEF PollerOpens, Reads, ReqType
  <2> QED
    BY <1>11, <1>14, <2>1, <2>2 DEF PollerOpens
<1>15. ASSUME Count \/ Cache \/ Expire \/ UNCHANGED vars PROVE LogInv'
  <2>1. UNCHANGED <<row, allocs, req>>
    BY <1>15 DEF Count, Cache, Expire, vars
  <2> QED
    BY <1>2, <2>1 DEF Reads
<1> QED
  BY <1>3, <1>4, <1>5, <1>7, <1>8, <1>9, <1>10, <1>12, <1>13, <1>14, <1>15
     DEF Next, CommitAny

(* A closed booking has the time of its end, whatever requests overlap.    *)
THEOREM EndsNoted == Spec => []ClosedHasEnd
<1>1. LogInv => ClosedHasEnd
  BY DEF LogInv
<1> QED
  BY <1>1, TypeInit, TypeStep, LogInit, LogStep, PTL DEF Spec

(* The log of a booking that is not there is empty.                        *)
HadInv == allocs = had /\ (row.life = "none" => allocs = {})

(* What the end of a commit adds to the agents who have had the booking.   *)
LEMMA FinishHas ==
  ASSUME NEW q \in Requests, NEW op, Finish(q, op)
  PROVE  had' = had \cup ({row'.agent} \ {None})
  BY DEF Finish, Has

(* A request that logs an agent differs from what it read and therefore    *)
(* writes the agent; one that logs none leaves an agent who is known, or   *)
(* none.                                                                   *)
LEMMA HadStep == DeskTypes /\ LogInv /\ HadInv /\ [Next]_vars => HadInv'
<1> SUFFICES ASSUME DeskTypes, LogInv, HadInv, [Next]_vars PROVE HadInv'
  OBVIOUS
<1> USE DEF booking, history, dashboard
<1>1. /\ req \in [Requests -> ReqType] /\ row \in Row /\ allocs = had
      /\ \A q \in Requests : req[q].row \in Row
      /\ row.agent # None => row.agent \in allocs
  BY DEF DeskTypes, TypeOK, ReqType, LogInv, AgentIsKnown, HadInv
<1>2. ASSUME UNCHANGED <<row, allocs, had>> PROVE HadInv'
  BY <1>2 DEF HadInv
<1>3. ASSUME NEW q \in Requests, NEW s \in Statuses, NEW a \in Agents \cup {None},
             NEW b \in BOOLEAN, NEW c \in BOOLEAN, row.life = "live",
             row' = Written(q, s, a, b, c),
             allocs' = IF a \in Agents /\ a # req[q].row.agent THEN allocs \cup {a} ELSE allocs,
             NEW op, Finish(q, op)
      PROVE  HadInv'
  <2>1. row'.life = "live" /\ row'.agent = Column(req[q].row.agent, a, row.agent)
    BY <1>1, <1>3, WrittenType
  <2>2. had' = had \cup ({row'.agent} \ {None})
    BY <1>3, FinishHas
  <2> QED
    BY <1>1, <1>3, <2>1, <2>2, DeskAssumption DEF HadInv, Column
<1>4. ASSUME NEW q \in Requests, CommitPut(q) PROVE HadInv'
  <2>1. /\ PutStatus(q) \in Statuses /\ PutAgent(q) \in Agents \cup {None}
        /\ (req[q].row.assigned \/ req[q].agent \in Agents) \in BOOLEAN
        /\ Completed(q) \in BOOLEAN
    BY <1>1 DEF PutStatus, PutAgent, Completed, ReqType, Row, Statuses
  <2>2. allocs' = IF PutAgent(q) \in Agents /\ PutAgent(q) # req[q].row.agent
                  THEN allocs \cup {PutAgent(q)} ELSE allocs
    BY <1>4, DeskAssumption DEF CommitPut, Allocate, NewAgent, PutAgent
  <2> QED
    BY <1>3, <1>4, <2>1, <2>2 DEF CommitPut
<1>5. ASSUME NEW q \in Requests, CommitStatus(q) PROVE HadInv'
  <2>1. /\ req[q].status \in Statuses /\ req[q].row.agent \in Agents \cup {None}
        /\ req[q].row.assigned \in BOOLEAN /\ Completed(q) \in BOOLEAN
    BY <1>1, <1>5 DEF CommitStatus, Goes, DeskTypes, BodyInv, Completed, Row
  <2> QED
    BY <1>3, <1>5, <2>1 DEF CommitStatus
<1>6. ASSUME NEW q \in Requests, CommitAssign(q) PROVE HadInv'
  <2>1. /\ AssignStatus(q) \in Statuses /\ req[q].agent \in Agents \cup {None}
        /\ (req[q].row.assigned \/ req[q].agent # None) \in BOOLEAN
        /\ req[q].row.completed \in BOOLEAN
    BY <1>1, <1>6 DEF CommitAssign, Goes, DeskTypes, BodyInv, AssignStatus, Row, Statuses
  <2>2. allocs' = IF req[q].agent \in Agents /\ req[q].agent # req[q].row.agent
                  THEN allocs \cup {req[q].agent} ELSE allocs
    BY <1>6 DEF CommitAssign, Allocate, NewAgent
  <2> QED
    BY <1>3, <1>6, <2>1, <2>2 DEF CommitAssign
<1>7. ASSUME NEW q \in Requests, CommitJoin(q) \/ CommitLeave(q) PROVE HadInv'
  <2>1. UNCHANGED <<row, allocs>> /\ \E op : Finish(q, op)
    BY <1>7 DEF CommitJoin, CommitLeave
  <2>2. had' = had \cup ({row'.agent} \ {None})
    BY <2>1, FinishHas
  <2> QED
    BY <1>1, <2>1, <2>2 DEF HadInv
<1>8. ASSUME NEW q \in Requests, CommitCreate(q) \/ CommitDelete(q) PROVE HadInv'
  <2>1. row'.agent = None /\ row'.life # "none"
    BY <1>8 DEF CommitCreate, CommitDelete, NewRow
  <2>3. allocs' = allocs /\ \E op : Finish(q, op)
    BY <1>8 DEF CommitCreate, CommitDelete
  <2>2. had' = had \cup ({row'.agent} \ {None})
    BY <2>3, FinishHas
  <2> QED
    BY <1>1, <2>1, <2>2, <2>3 DEF HadInv
<1>9. ASSUME PollerOpens PROVE HadInv'
  <2>1. allocs = {} /\ had = {} /\ had' = had \cup ({row'.agent} \ {None})
    BY <1>9 DEF PollerOpens, Has, HadInv
  <2>2. CASE row' = [NewRow EXCEPT !.life = "live"] /\ allocs' = allocs
    BY <2>1, <2>2 DEF HadInv, NewRow
  <2>3. CASE \E a \in Agents : /\ row'.agent = a /\ row'.life = "live" /\ allocs' = {a}
    BY <2>1, <2>3, DeskAssumption DEF HadInv
  <2>4. ASSUME NEW a \in Agents,
               row' = [life |-> "live", status |-> "In Progress", agent |-> a,
                       assigned |-> TRUE, completed |-> FALSE]
        PROVE  row'.agent = a /\ row'.life = "live"
    BY <2>4
  <2> QED
    BY <1>9, <2>2, <2>3, <2>4 DEF PollerOpens
<1>10. ASSUME \/ Count \/ Cache \/ Expire \/ UNCHANGED vars
              \/ \E q \in Requests : \/ Begin(q) \/ Read(q) \/ Refuse(q) \/ Fail(q)
                                     \/ Clear(q) \/ DieUncleared(q)
       PROVE  HadInv'
  <2>1. UNCHANGED <<row, allocs, had>>
    BY <1>10 DEF Count, Cache, Expire, vars, Begin, Read, Refuse, Fail, Clear, DieUncleared
  <2> QED
    BY <1>2, <2>1
<1> QED
  BY <1>4, <1>5, <1>6, <1>7, <1>8, <1>9, <1>10 DEF Next, CommitAny

(* The log of a booking holds those who have had it and nobody else,       *)
(* whatever requests overlap.                                              *)
THEOREM AgentsLogged == Spec => []AgentIsLogged
<1>1. Init => HadInv
  BY DEF Init, HadInv
<1>2. LogInv /\ HadInv => AgentIsLogged
  BY DEF LogInv, AgentIsKnown, HadInv, AgentIsLogged
<1> QED
  BY <1>1, <1>2, TypeInit, TypeStep, LogInit, LogStep, HadStep, PTL DEF Spec

-----------------------------------------------------------------------------
(* The cache of the dashboard: what is being computed is known to be stale *)
(* once a commit overtakes it, so what is cached later is too.             *)

CacheInv ==
    /\ StaleHasACause
    /\ fill.busy /\ fill.counts # Counted => fill.stale

(* Nothing is cached and nothing is computed at the start.                 *)
LEMMA CacheInit == Init => CacheInv
  BY DEF Init, CacheInv, StaleHasACause

(* A commit that changes what is counted leaves the statistics stale, or   *)
(* its request is about to clear them.                                     *)
LEMMA OutdateCache ==
  ASSUME DeskTypes, CacheInv, NEW clears \in BOOLEAN, Outdate(clears),
         \A r \in Requests : req[r].stage = "clear" => req'[r].stage = "clear",
         clears /\ Counted' # Counted => \E r \in Requests : req'[r].stage = "clear"
  PROVE  CacheInv'
<1>1. /\ stats \in [cached : BOOLEAN, counts : Statuses \cup {"none"}, stale : BOOLEAN]
      /\ fill \in [busy : BOOLEAN, counts : Statuses \cup {"none"}, stale : BOOLEAN]
  BY DEF DeskTypes, TypeOK
<1>2. /\ fill'.busy = fill.busy /\ fill'.counts = fill.counts
      /\ fill'.stale = (fill.stale \/ (fill.busy /\ Counted' # Counted))
      /\ stats'.cached = stats.cached /\ stats'.counts = stats.counts
      /\ stats'.stale = (stats.stale \/ (stats.cached /\ Counted' # Counted /\ ~ clears))
  BY <1>1 DEF Outdate
<1>3. (fill.busy /\ fill.counts # Counted => fill.stale)'
  BY <1>1, <1>2 DEF CacheInv
<1>4. StaleHasACause'
  <2> SUFFICES ASSUME stats.cached, stats.counts # Counted'
               PROVE  stats'.stale \/ \E q \in Requests : req'[q].stage = "clear"
    BY <1>2 DEF StaleHasACause
  <2>1. CASE Counted' = Counted
    BY <1>2, <2>1 DEF CacheInv, StaleHasACause
  <2>2. CASE Counted' # Counted
    BY <1>2, <2>2
  <2> QED
    BY <2>1, <2>2
<1> QED
  BY <1>3, <1>4 DEF CacheInv

(* No step makes the dashboard wrong without a cause.                      *)
LEMMA CacheStep == DeskTypes /\ CacheInv /\ [Next]_vars => CacheInv'
<1> SUFFICES ASSUME DeskTypes, CacheInv, [Next]_vars PROVE CacheInv'
  OBVIOUS
<1> USE DEF booking, history, dashboard
<1>1. /\ req \in [Requests -> ReqType] /\ row \in Row
      /\ stats \in [cached : BOOLEAN, counts : Statuses \cup {"none"}, stale : BOOLEAN]
      /\ fill \in [busy : BOOLEAN, counts : Statuses \cup {"none"}, stale : BOOLEAN]
  BY DEF DeskTypes, TypeOK, ReqType
<1>2. ASSUME UNCHANGED <<row, stats, fill>>,
             \A r \in Requests : req[r].stage = "clear" => req'[r].stage = "clear"
      PROVE  CacheInv'
  <2>1. Counted' = Counted
    BY <1>2 DEF Counted
  <2> QED
    BY <1>2, <2>1 DEF CacheInv, StaleHasACause
<1>3. ASSUME NEW q \in Requests, Begin(q) PROVE CacheInv'
  <2>1. UNCHANGED <<row, stats, fill>>
    BY <1>3 DEF Begin
  <2>2. ASSUME NEW r \in Requests, req[r].stage = "clear" PROVE req'[r].stage = "clear"
    <3>1. req[q].stage = "idle"
      <4>1. req[q] = Idle
        BY <1>3 DEF Begin
      <4> QED
        BY <4>1 DEF Idle
    <3>2. r # q /\ r \notin Running
      BY <2>2, <3>1 DEF Running
    <3> QED
      BY <1>3, <2>2, <3>2 DEF Begin
  <2> QED
    BY <1>2, <2>1, <2>2
<1>4. ASSUME NEW q \in Requests, Read(q) \/ Refuse(q) \/ Fail(q) PROVE CacheInv'
  <2>1. req[q].stage # "clear" /\ \A r \in Requests \ {q} : req'[r] = req[r]
    BY <1>1, <1>4 DEF Read, Refuse, Fail
  <2>2. UNCHANGED <<row, stats, fill>>
    BY <1>4 DEF Read, Refuse, Fail
  <2> QED
    BY <1>2, <2>1, <2>2
<1>5. ASSUME NEW q \in Requests, NEW op, Goes(q, op), Finish(q, op),
             op \notin Clearing \cup {"assign"} => UNCHANGED row
      PROVE  CacheInv'
  <2>1. req[q].stage = "commit" /\ \A r \in Requests \ {q} : req'[r] = req[r]
    BY <1>1, <1>5 DEF Goes, Finish
  <2>2. op \in Clearing => req'[q].stage = "clear"
    BY <1>1, <1>5 DEF Finish, Idle
  <2>3. op \notin Clearing \cup {"assign"} => Counted' = Counted
    BY <1>5 DEF Counted
  <2>4. Outdate(op # "assign") /\ (op # "assign") \in BOOLEAN
    BY <1>5 DEF Finish
  <2>5. \A r \in Requests : req[r].stage = "clear" => req'[r].stage = "clear"
    BY <2>1
  <2>6. op # "assign" /\ Counted' # Counted => \E r \in Requests : req'[r].stage = "clear"
    BY <2>2, <2>3
  <2> QED
    BY <2>4, <2>5, <2>6, OutdateCache
<1>6. ASSUME NEW q \in Requests, CommitAny(q) PROVE CacheInv'
  <2>1. CASE CommitCreate(q)
    BY <1>5, <2>1 DEF CommitCreate, Clearing
  <2>2. CASE CommitPut(q)
    BY <1>5, <2>2 DEF CommitPut, Clearing
  <2>3. CASE CommitStatus(q)
    BY <1>5, <2>3 DEF CommitStatus, Clearing
  <2>4. CASE CommitAssign(q)
    BY <1>5, <2>4 DEF CommitAssign, Clearing
  <2>5. CASE CommitJoin(q) \/ CommitLeave(q)
    BY <1>5, <2>5 DEF CommitJoin, CommitLeave
  <2>6. CASE CommitDelete(q)
    BY <1>5, <2>6 DEF CommitDelete, Clearing
  <2> QED
    BY <1>4, <1>6, <2>1, <2>2, <2>3, <2>4, <2>5, <2>6 DEF CommitAny
<1>7. ASSUME PollerOpens PROVE CacheInv'
  <2>1. Outdate(FALSE)
    BY <1>7 DEF PollerOpens
  <2>2. \A r \in Requests : req'[r].stage = req[r].stage
    BY <1>1, <1>7 DEF PollerOpens, ReqType
  <2> QED
    BY <2>1, <2>2, OutdateCache
<1>8. ASSUME NEW q \in Requests, Clear(q) PROVE CacheInv'
  BY <1>8 DEF Clear, CacheInv, StaleHasACause, Counted
<1>9. ASSUME NEW q \in Requests, DieUncleared(q) PROVE CacheInv'
  BY <1>1, <1>9 DEF DieUncleared, CacheInv, StaleHasACause, Counted
<1>10. ASSUME Count \/ Cache \/ Expire PROVE CacheInv'
  BY <1>1, <1>10 DEF Count, Cache, Expire, CacheInv, StaleHasACause, Counted
<1>11. ASSUME UNCHANGED vars PROVE CacheInv'
  BY <1>2, <1>11 DEF vars
<1> QED
  BY <1>3, <1>4, <1>6, <1>7, <1>8, <1>9, <1>10, <1>11 DEF Next

(* The dashboard is wrong for no other reason than those it is known for.  *)
THEOREM DashboardExplained == Spec => []StaleHasACause
<1>1. CacheInv => StaleHasACause
  BY DEF CacheInv
<1> QED
  BY <1>1, TypeInit, TypeStep, CacheInit, CacheStep, PTL DEF Spec

-----------------------------------------------------------------------------
(* The history.  A request that overlaps with none still writes to the     *)
(* booking that it read.                                                   *)

Alone ==
    \A q \in Running : req[q].alone =>
        /\ Running = {q}
        /\ Reads(q) => req[q].row = row

HistoryInv ==
    /\ HistoryTells /\ Alone
    /\ row.life = "none" => told["status"].value = "Pending" /\ told["agent"].value = None

(* There is no booking to tell of, and nobody runs, at the start.          *)
LEMMA HistoryInit == Init => HistoryInv
  BY DEF Init, HistoryInv, HistoryTells, Alone, Running, Idle, NewRow, Fields

(* A request that ends leaves the others as alone as they were.            *)
LEMMA FinishAlone ==
  ASSUME DeskTypes, Alone, NEW q \in Requests, q \in Running,
         \A r \in Requests \ {q} : req'[r] = req[r],
         req'[q].stage \in {"idle", "clear"}
  PROVE  Alone'
<1>1. Running' = Running \ {q}
  BY DEF Running
<1>2. \A r \in Running' : ~ req'[r].alone
  BY <1>1 DEF Alone, Running
<1> QED
  BY <1>2 DEF Alone

(* A request tells what it writes, or doubts it.                           *)
LEMMA TellsWhatItWrites ==
  ASSUME DeskTypes, HistoryInv, NEW q \in Requests, Reads(q), row.life = "live",
         NEW fields \in SUBSET Fields, NEW s \in Statuses, NEW a \in Agents \cup {None},
         NEW b \in BOOLEAN, NEW c \in BOOLEAN, row' = Written(q, s, a, b, c),
         Tell(q, fields, [status |-> s, agent |-> a]),
         "status" \in fields \/ s = req[q].row.status,
         "agent" \in fields \/ a = req[q].row.agent
  PROVE  HistoryTells'
<1>1. /\ row \in Row /\ req[q].row \in Row
      /\ told \in [Fields -> [value : Statuses \cup Agents \cup {None}, at : 0..MaxRequests]]
  BY DEF DeskTypes, TypeOK, ReqType
<1>2. /\ row'.life = "live"
      /\ row'.status = Column(req[q].row.status, s, row.status)
      /\ row'.agent = Column(req[q].row.agent, a, row.agent)
  BY <1>1, WrittenType
<1>3. q \in Running /\ (req[q].alone => req[q].row = row)
  BY DEF Reads, Running, HistoryInv, Alone
<1>4. ASSUME "status" \notin doubt' PROVE told'["status"].value = row'.status
  <2>1. CASE "status" \in fields
    <3>1. /\ told'["status"].value = s
          /\ req[q].alone \/ s # req[q].row.status
      BY <1>4, <2>1 DEF Tell, Fields
    <3> QED
      BY <1>2, <1>3, <3>1 DEF Column
  <2>2. CASE "status" \notin fields
    <3>1. told'["status"] = told["status"] /\ "status" \notin doubt
      BY <1>4, <2>2 DEF Tell, Fields
    <3>2. told["status"].value = row.status
      BY <3>1 DEF HistoryInv, HistoryTells, Fields
    <3> QED
      BY <1>2, <2>2, <3>1, <3>2 DEF Column
  <2> QED
    BY <2>1, <2>2
<1>5. ASSUME "agent" \notin doubt' PROVE told'["agent"].value = row'.agent
  <2>1. CASE "agent" \in fields
    <3>1. /\ told'["agent"].value = a
          /\ req[q].alone \/ a # req[q].row.agent
      BY <1>5, <2>1 DEF Tell, Fields
    <3> QED
      BY <1>2, <1>3, <3>1 DEF Column
  <2>2. CASE "agent" \notin fields
    <3>1. told'["agent"] = told["agent"] /\ "agent" \notin doubt
      BY <1>5, <2>2 DEF Tell, Fields
    <3>2. told["agent"].value = row.agent
      BY <3>1 DEF HistoryInv, HistoryTells, Fields
    <3> QED
      BY <1>2, <2>2, <3>1, <3>2 DEF Column
  <2> QED
    BY <2>1, <2>2
<1> QED
  BY <1>4, <1>5 DEF HistoryTells, Fields

(* No step makes the history tell something else than the booking.         *)
LEMMA HistoryStep == DeskTypes /\ HistoryInv /\ [Next]_vars => HistoryInv'
<1> SUFFICES ASSUME DeskTypes, HistoryInv, [Next]_vars PROVE HistoryInv'
  OBVIOUS
<1> USE DEF booking, history, dashboard
<1>1. /\ req \in [Requests -> ReqType] /\ row \in Row
      /\ told \in [Fields -> [value : Statuses \cup Agents \cup {None}, at : 0..MaxRequests]]
  BY DEF DeskTypes, TypeOK, ReqType
<1>2. ASSUME UNCHANGED <<row, told, doubt>>, Alone' PROVE HistoryInv'
  BY <1>2 DEF HistoryInv, HistoryTells
<1>3. ASSUME NEW q \in Requests, Begin(q) PROVE HistoryInv'
  <2>1. req'[q].stage = "begin" /\ req'[q].alone = (Running = {})
    BY <1>1, <1>3 DEF Begin, Idle
  <2>2. req[q].stage = "idle" /\ q \notin Running
    <3>1. req[q] = Idle
      BY <1>3 DEF Begin
    <3> QED
      BY <3>1 DEF Idle, Running
  <2>3. \A r \in Requests \ {q} :
          req'[r].stage = req[r].stage /\ (r \in Running => req'[r].alone = FALSE)
    BY <1>1, <1>3 DEF Begin, ReqType
  <2>4. Running' = Running \cup {q}
    BY <2>1, <2>2, <2>3 DEF Running
  <2>5. ASSUME NEW r \in Running', req'[r].alone
        PROVE  Running' = {r} /\ ~ Reads(r)'
    <3>1. r = q
      BY <2>3, <2>4, <2>5 DEF Running
    <3> QED
      BY <2>1, <2>4, <2>5, <3>1 DEF Reads
  <2>6. Alone'
    BY <2>5 DEF Alone
  <2> QED
    BY <1>2, <1>3, <2>6 DEF Begin
<1>4. ASSUME NEW q \in Requests, Read(q) PROVE HistoryInv'
  <2>1. PICK body \in Ops :
          req' = [req EXCEPT ![q] =
              [op |-> body.op, status |-> body.status, agent |-> body.agent,
               row |-> IF body.op \in {"put", "status", "assign"} THEN row ELSE NewRow,
               start |-> req[q].start, alone |-> req[q].alone, stage |-> "commit"]]
    BY <1>4 DEF Read
  <2>2. /\ req'[q].stage = "commit" /\ req'[q].alone = req[q].alone
        /\ Reads(q)' => req'[q].row = row
    BY <1>1, <2>1 DEF Reads
  <2>3. \A r \in Requests \ {q} : req'[r] = req[r]
    BY <1>1, <2>1
  <2>4. q \in Running /\ Running' = Running
    BY <1>4, <2>2, <2>3 DEF Read, Running
  <2>5. row' = row
    BY <1>4 DEF Read
  <2>6. Alone'
    BY <2>2, <2>3, <2>4, <2>5 DEF HistoryInv, Alone, Running
  <2> QED
    BY <1>2, <1>4, <2>6 DEF Read
<1>5. ASSUME NEW q \in Requests, Refuse(q) \/ Fail(q) PROVE HistoryInv'
  <2>1. /\ q \in Running /\ req' = [req EXCEPT ![q] = Idle]
        /\ UNCHANGED <<row, told, doubt>>
    BY <1>5 DEF Refuse, Fail, Running
  <2>2. req'[q].stage = "idle" /\ \A r \in Requests \ {q} : req'[r] = req[r]
    BY <1>1, <2>1 DEF Idle
  <2>3. Alone'
    BY <2>1, <2>2, FinishAlone DEF HistoryInv
  <2> QED
    BY <1>2, <2>1, <2>3
<1>6. ASSUME NEW q \in Requests, NEW op, Goes(q, op), Finish(q, op) PROVE Alone'
  <2>1. q \in Running
    BY <1>6 DEF Goes, Running
  <2>2. req'[q].stage \in {"idle", "clear"} /\ \A r \in Requests \ {q} : req'[r] = req[r]
    BY <1>1, <1>6 DEF Finish, Idle
  <2> QED
    BY <2>1, <2>2, FinishAlone DEF HistoryInv
<1>7. ASSUME NEW q \in Requests, CommitCreate(q) PROVE HistoryInv'
  <2>1. /\ row' = [NewRow EXCEPT !.life = "live"] /\ row.life = "none"
        /\ Tell(q, {"status"}, NewRow)
    BY <1>7 DEF CommitCreate
  <2>2. row'.life = "live" /\ row'.status = "Pending" /\ row'.agent = None
    BY <2>1 DEF NewRow
  <2>3. told["status"].value = "Pending" /\ told["agent"].value = None
    BY <2>1 DEF HistoryInv
  <2>4. told'["agent"] = told["agent"] /\ told'["status"].value = "Pending"
    BY <2>1, <2>3 DEF Tell, Fields, NewRow
  <2>5. HistoryTells'
    BY <2>2, <2>3, <2>4 DEF HistoryTells, Fields
  <2> QED
    BY <1>6, <1>7, <2>2, <2>5 DEF CommitCreate, HistoryInv
<1>8. ASSUME NEW q \in Requests, CommitPut(q) PROVE HistoryInv'
  <2> DEFINE b == req[q].row.assigned \/ req[q].agent \in Agents
  <2>1. Reads(q) /\ row.life = "live" /\ Goes(q, "put") /\ Finish(q, "put")
    BY <1>8 DEF CommitPut, Goes, Reads
  <2>2. /\ PutStatus(q) \in Statuses /\ PutAgent(q) \in Agents \cup {None}
        /\ Completed(q) \in BOOLEAN /\ b \in BOOLEAN
    BY <1>1 DEF PutStatus, PutAgent, Completed, ReqType, Row, Statuses
  <2>3. /\ row' = Written(q, PutStatus(q), PutAgent(q), b, Completed(q))
        /\ Tell(q, PutEvents(q), [status |-> PutStatus(q), agent |-> PutAgent(q)])
    BY <1>8 DEF CommitPut
  <2>4. /\ PutEvents(q) \in SUBSET Fields
        /\ "status" \in PutEvents(q) \/ PutStatus(q) = req[q].row.status
        /\ "agent" \in PutEvents(q) \/ PutAgent(q) = req[q].row.agent
    BY DEF PutEvents, Fields
  <2>5. row'.life = "live"
    BY <1>1, <2>1, <2>3 DEF Written, Row
  <2> HIDE DEF b
  <2>6. HistoryTells'
    BY <2>1, <2>2, <2>3, <2>4, TellsWhatItWrites
  <2> QED
    BY <1>6, <2>1, <2>5, <2>6 DEF HistoryInv
<1>9. ASSUME NEW q \in Requests, CommitStatus(q) PROVE HistoryInv'
  <2>1. /\ Reads(q) /\ row.life = "live" /\ Goes(q, "status") /\ Finish(q, "status")
        /\ row' = Written(q, req[q].status, req[q].row.agent, req[q].row.assigned, Completed(q))
        /\ Tell(q, {"status"}, [status |-> req[q].status, agent |-> req[q].row.agent])
    BY <1>9 DEF CommitStatus, Goes, Reads
  <2>2. /\ req[q].status \in Statuses /\ req[q].row.agent \in Agents \cup {None}
        /\ req[q].row.assigned \in BOOLEAN /\ Completed(q) \in BOOLEAN
    BY <1>1, <2>1 DEF Goes, DeskTypes, BodyInv, Completed, Row, ReqType
  <2>3. row'.life = "live"
    BY <1>1, <2>1 DEF Written, Row
  <2>4. HistoryTells'
    BY <2>1, <2>2, TellsWhatItWrites DEF Fields
  <2> QED
    BY <1>6, <2>1, <2>3, <2>4 DEF HistoryInv
<1>10. ASSUME NEW q \in Requests, CommitAssign(q) PROVE HistoryInv'
  <2> DEFINE b == req[q].row.assigned \/ req[q].agent # None
             events == {f \in Fields : IF f = "agent" THEN NewAgent(q) \/ req[q].agent = None
                                       ELSE AssignStatus(q) # req[q].row.status}
  <2>1. /\ Reads(q) /\ row.life = "live" /\ Goes(q, "assign") /\ Finish(q, "assign")
        /\ row' = Written(q, AssignStatus(q), req[q].agent, b, req[q].row.completed)
        /\ Tell(q, events, [status |-> AssignStatus(q), agent |-> req[q].agent])
    BY <1>10 DEF CommitAssign, Goes, Reads
  <2>2. /\ AssignStatus(q) \in Statuses /\ req[q].agent \in Agents \cup {None}
        /\ b \in BOOLEAN /\ req[q].row.completed \in BOOLEAN
    BY <1>1, <2>1 DEF Goes, DeskTypes, BodyInv, AssignStatus, Row, Statuses, ReqType
  <2>3. /\ events \in SUBSET Fields
        /\ "status" \in events \/ AssignStatus(q) = req[q].row.status
        /\ "agent" \in events \/ req[q].agent = req[q].row.agent
    BY <2>2 DEF NewAgent, Fields
  <2>4. row'.life = "live"
    BY <1>1, <2>1 DEF Written, Row
  <2> HIDE DEF b, events
  <2>5. HistoryTells'
    BY <2>1, <2>2, <2>3, TellsWhatItWrites
  <2> QED
    BY <1>6, <2>1, <2>4, <2>5 DEF HistoryInv
<1>11. ASSUME NEW q \in Requests, CommitJoin(q) \/ CommitLeave(q) PROVE HistoryInv'
  <2>1. UNCHANGED <<row, told, doubt>> /\ \E op : Goes(q, op) /\ Finish(q, op)
    BY <1>11 DEF CommitJoin, CommitLeave
  <2> QED
    BY <1>2, <1>6, <2>1
<1>12. ASSUME NEW q \in Requests, CommitDelete(q) PROVE HistoryInv'
  <2>1. row'.life = "deleted"
    BY <1>12 DEF CommitDelete, NewRow
  <2> QED
    BY <1>6, <1>12, <2>1 DEF CommitDelete, HistoryInv, HistoryTells
<1>13. ASSUME PollerOpens PROVE HistoryInv'
  <2>1. \A f \in Fields : told'[f].value = row'[f]
    <3>1. PICK at \in 0..begun : told' = [f \in Fields |-> [value |-> row'[f], at |-> at]]
      BY <1>13 DEF PollerOpens
    <3> QED
      BY <3>1
  <2>2. row'.life = "live"
    <3>1. CASE row' = [NewRow EXCEPT !.life = "live"]
      BY <3>1 DEF NewRow
    <3>2. CASE \E a \in Agents : row' = [life |-> "live", status |-> "In Progress", agent |-> a,
                                         assigned |-> TRUE, completed |-> FALSE]
      <4>1. PICK a \in Agents : row' = [life |-> "live", status |-> "In Progress", agent |-> a,
                                        assigned |-> TRUE, completed |-> FALSE]
        BY <3>2
      <4> QED
        BY <4>1
    <3> QED
      BY <1>13, <3>1, <3>2 DEF PollerOpens
  <2>3. /\ \A r \in Requests : req'[r].stage = req[r].stage
        /\ \A r \in Running : req'[r].alone = FALSE
    BY <1>1, <1>13 DEF PollerOpens, ReqType, Running
  <2>4. Alone'
    BY <2>3 DEF Alone, Running
  <2> QED
    BY <2>1, <2>2, <2>4 DEF HistoryInv, HistoryTells
<1>14. ASSUME NEW q \in Requests, Clear(q) \/ DieUncleared(q) PROVE HistoryInv'
  <2>1. /\ req[q].stage = "clear" /\ req' = [req EXCEPT ![q] = Idle]
        /\ UNCHANGED <<row, told, doubt>>
    BY <1>14 DEF Clear, DieUncleared
  <2>2. req'[q].stage = "idle" /\ \A r \in Requests \ {q} : req'[r] = req[r]
    BY <1>1, <2>1 DEF Idle
  <2>3. q \notin Running /\ Running' = Running
    BY <2>1, <2>2 DEF Running
  <2>4. Alone'
    BY <2>1, <2>2, <2>3 DEF HistoryInv, Alone, Reads, Running
  <2> QED
    BY <1>2, <2>1, <2>4
<1>15. ASSUME Count \/ Cache \/ Expire \/ UNCHANGED vars PROVE HistoryInv'
  <2>1. UNCHANGED <<row, told, doubt, req>>
    BY <1>15 DEF Count, Cache, Expire, vars
  <2>2. Alone'
    BY <2>1 DEF HistoryInv, Alone, Running, Reads
  <2> QED
    BY <1>2, <2>1, <2>2
<1> QED
  BY <1>3, <1>4, <1>5, <1>7, <1>8, <1>9, <1>10, <1>11, <1>12, <1>13, <1>14, <1>15
     DEF Next, CommitAny

(* The latest events of a booking tell its status and its agent, unless a  *)
(* request that overlapped with another left them in doubt.                *)
THEOREM HistoryTellsTruth == Spec => []HistoryTells
<1>1. HistoryInv => HistoryTells
  BY DEF HistoryInv
<1> QED
  BY <1>1, TypeInit, TypeStep, HistoryInit, HistoryStep, PTL DEF Spec

=============================================================================
