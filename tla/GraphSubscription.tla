-------------------------- MODULE GraphSubscription --------------------------
(***************************************************************************)
(* The subscription by which Microsoft Graph tells the program of new mail *)
(* (app/services/graph_subscription.py), as main.py and Celery's beat use  *)
(* it.                                                                     *)
(*                                                                         *)
(* Every uvicorn worker registers a subscription of its own while it       *)
(* starts, before it serves requests, and keeps its id in memory.  Graph   *)
(* creates a subscription only after the webhook has echoed a token, which *)
(* takes a process that serves.  A subscription lives for 2 days and 23    *)
(* hours; a worker renews its own every 2 days, whatever became of the     *)
(* last attempt.  Celery's beat sends a task every 2 days as well, which   *)
(* renews in whichever child of the Celery pool takes it: a process with   *)
(* an id of its own, which is None until it has registered one itself.     *)
(* Time passes in days.                                                    *)
(***************************************************************************)
EXTENDS Naturals, FiniteSets

CONSTANTS
    Procs,          \* the uvicorn workers
    Children,       \* the processes of the Celery pool
    Ids,            \* ids of subscriptions, used again after expiry
    NoId,           \* _subscription_id is None
    Period,         \* days between two renewals: 2
    Life,           \* the first day on which a subscription is gone: 3
    MaxTasks,       \* renewal tasks that wait at a time
    MaxFaults       \* calls that fail and processes that die

ASSUME SubscriptionAssumption ==
    /\ NoId \notin Ids
    /\ IsFiniteSet(Procs) /\ IsFiniteSet(Children) /\ IsFiniteSet(Ids)
    /\ Procs \cap Children = {}
    /\ Period \in Nat \ {0} /\ Life \in Nat /\ Period < Life
    /\ MaxFaults \in Nat /\ MaxTasks \in Nat

VARIABLES
    serving,        \* processes that serve requests
    asking,         \* processes with a POST /subscriptions under way
    held,           \* held[p]: _subscription_id of p
    due,            \* due[p]: days until worker p renews
    beat,           \* days until beat sends the next renewal task
    tasks,          \* renewal tasks that no child has taken
    left,           \* left[i]: days that subscription i has left at Graph
    last,           \* history: how worker p's last attempt ended
    faults

celeryVars == <<beat, tasks>>

vars == <<serving, asking, held, due, celeryVars, left, last, faults>>

(* Every process that imports the module has the variable.                 *)
Owners == Procs \cup Children

Init ==
    /\ serving = {} /\ asking = {}
    /\ held = [p \in Owners |-> NoId]
    /\ due = [p \in Procs |-> Period]
    /\ beat = Period /\ tasks = 0
    /\ left = [i \in Ids |-> 0]
    /\ last = [p \in Procs |-> "none"]
    /\ faults = 0

Running == serving \cup asking

Unused == {i \in Ids : left[i] = 0 /\ \A p \in Owners : held[p] # i}

NewId == CHOOSE i \in Unused : TRUE

Live == {i \in Ids : left[i] > 0}

(* A worker goes on, or begins, to serve and sleeps until its next         *)
(* renewal; a child is done with its task.                                 *)
Sleep(p, how) ==
    /\ asking' = asking \ {p}
    /\ serving' = serving \cup ({p} \cap Procs)
    /\ due' = [q \in Procs |-> IF q = p THEN Period ELSE due[q]]
    /\ last' = [q \in Procs |-> IF q = p THEN how ELSE last[q]]

Fault == faults < MaxFaults /\ faults' = faults + 1

-----------------------------------------------------------------------------
(* Registration, at the start or by a renewal.                             *)

Start(p) ==
    /\ p \in Procs \ Running
    /\ asking' = asking \cup {p}
    /\ UNCHANGED <<serving, held, due, celeryVars, left, last, faults>>

(* 201: some process has answered the handshake.                           *)
Register(p) ==
    /\ p \in asking
    /\ serving # {}
    /\ Unused # {}
    /\ left' = [left EXCEPT ![NewId] = Life]
    /\ held' = [held EXCEPT ![p] = NewId]
    /\ Sleep(p, "ok")
    /\ UNCHANGED <<celeryVars, faults>>

(* Nobody serves, so that nobody answers the handshake.                    *)
Unanswered(p) ==
    /\ p \in asking
    /\ serving = {}
    /\ Sleep(p, "alone")
    /\ UNCHANGED <<held, celeryVars, left, faults>>

(* An error or an exception; the subscription may have been created.       *)
RegisterFails(p) ==
    /\ p \in asking
    /\ Fault
    /\ \/ UNCHANGED left
       \/ serving # {} /\ Unused # {} /\ left' = [left EXCEPT ![NewId] = Life]
    /\ Sleep(p, "failed")
    /\ UNCHANGED <<held, celeryVars>>

-----------------------------------------------------------------------------
(* Renewal.                                                                *)

(* Beat sends the task of the period.                                      *)
Send ==
    /\ beat = 0
    /\ tasks < MaxTasks
    /\ beat' = Period
    /\ tasks' = tasks + 1
    /\ UNCHANGED <<serving, asking, held, due, left, last, faults>>

(* A worker renews when it has slept, a child when it takes a task.        *)
Due(p) ==
    /\ p \notin asking
    /\ \/ p \in serving /\ due[p] = 0 /\ UNCHANGED celeryVars
       \/ p \in Children /\ tasks > 0 /\ tasks' = tasks - 1 /\ UNCHANGED beat

(* 200: the subscription has its full life again.                          *)
Extend(p) ==
    /\ left' = [left EXCEPT ![held[p]] = Life]
    /\ Sleep(p, "ok")
    /\ UNCHANGED <<held, faults>>

(* The id is forgotten, if there was one, and a new one asked for.         *)
Reregister(p) ==
    /\ held' = [held EXCEPT ![p] = NoId]
    /\ asking' = asking \cup {p}
    /\ UNCHANGED <<serving, due, left, last>>

(* Mutant: the status of the answer is not looked at.                      *)
RenewUnchecked(p) ==
    /\ Due(p)
    /\ IF held[p] = NoId
       THEN Reregister(p) /\ UNCHANGED faults
       ELSE /\ left' = [left EXCEPT ![held[p]] = IF @ > 0 THEN Life ELSE 0]
            /\ Sleep(p, "ok")
            /\ UNCHANGED <<held, faults>>

(* Mutant: every renewal asks for a new subscription.                      *)
RenewByRegistering(p) == Due(p) /\ Reregister(p) /\ UNCHANGED faults

(* Mutant: without an id there is nothing to renew.                        *)
RenewOnlyKnown(p) ==
    /\ Due(p)
    /\ IF held[p] = NoId
       THEN Sleep(p, "failed") /\ UNCHANGED <<held, left, faults>>
       ELSE IF left[held[p]] > 0 THEN Extend(p)
       ELSE Reregister(p) /\ UNCHANGED faults

Renew(p) ==
    /\ Due(p)
    /\ IF held[p] \in Live THEN Extend(p) ELSE Reregister(p) /\ UNCHANGED faults

(* Graph refuses to extend a subscription that lives.                      *)
RenewRefused(p) ==
    /\ Due(p)
    /\ held[p] \in Live
    /\ Fault
    /\ Reregister(p)

(* The token or the call raises: nothing is tried before the next period,  *)
(* though Graph may have done what it was asked.                           *)
RenewRaises(p) ==
    /\ Due(p)
    /\ held[p] # NoId
    /\ Fault
    /\ \/ UNCHANGED left
       \/ held[p] \in Live /\ left' = [left EXCEPT ![held[p]] = Life]
    /\ Sleep(p, "failed")
    /\ UNCHANGED held

-----------------------------------------------------------------------------

(* A process dies, and forgets its id; Graph does not know.  The task that *)
(* a child was at is lost.                                                 *)
Die(p) ==
    /\ p \in Running \cup Children
    /\ Fault
    /\ serving' = serving \ {p}
    /\ asking' = asking \ {p}
    /\ held' = [held EXCEPT ![p] = NoId]
    /\ last' = [q \in Procs |-> IF q = p THEN "none" ELSE last[q]]
    /\ UNCHANGED <<due, celeryVars, left>>

(* Beat dies, and sends too soon after its restart, or a period later.     *)
BeatRestarts ==
    /\ Fault
    /\ beat' \in {0, Period}
    /\ UNCHANGED <<serving, asking, held, due, tasks, left, last>>

(* A day passes; calls take seconds and renewals happen on their day.      *)
Day ==
    /\ asking = {}
    /\ \A p \in serving : due[p] > 0
    /\ beat > 0
    /\ left' = [i \in Ids |-> IF left[i] > 0 THEN left[i] - 1 ELSE 0]
    /\ due' = [p \in Procs |-> IF p \in serving THEN due[p] - 1 ELSE due[p]]
    /\ beat' = beat - 1
    /\ UNCHANGED <<serving, asking, held, tasks, last, faults>>

Step(p) == Start(p) \/ Register(p) \/ Unanswered(p) \/ Renew(p)

Fails(p) == RegisterFails(p) \/ RenewRefused(p) \/ RenewRaises(p) \/ Die(p)

Next ==
    \/ \E p \in Owners : Step(p) \/ Fails(p)
    \/ Send
    \/ BeatRestarts
    \/ Day

(* The supervisor starts a worker again, calls end, beat sends, children   *)
(* take what it sent, and time goes on.                                    *)
Spec ==
    /\ Init /\ [][Next]_vars
    /\ WF_vars(Day) /\ WF_vars(Send)
    /\ \A p \in Owners : WF_vars(Step(p))

-----------------------------------------------------------------------------
(* Properties.                                                             *)

(* Every variable holds a value of its kind.                               *)
TypeOK ==
    /\ serving \subseteq Procs /\ asking \subseteq Owners
    /\ held \in [Owners -> Ids \cup {NoId}]
    /\ due \in [Procs -> 0..Period]
    /\ beat \in 0..Period /\ tasks \in 0..MaxTasks
    /\ left \in [Ids -> 0..Life]
    /\ last \in [Procs -> {"none", "ok", "alone", "failed"}]
    /\ faults \in 0..MaxFaults

Subscribed(p) == p \in serving /\ held[p] \in Live

(* A worker whose last attempt succeeded has a subscription that lives     *)
(* until its next attempt: renewals come in time, and a renewal that came  *)
(* too late is noticed.                                                    *)
SubscribedUnlessFailed ==
    \A p \in serving \ asking : last[p] = "ok" => Subscribed(p)

(* Subscriptions, each of which starts one more poll per e-mail, do not    *)
(* pile up: one for each uvicorn worker, one for each Celery child, however *)
(* often either renews, and one for each failure that orphaned one.        *)
NoPileUp == Cardinality(Live) <= Cardinality(Owners) + faults

(* When nothing fails any more, every worker is subscribed for good, also  *)
(* one that started alone or whose renewal had failed.                     *)
Heals == \A p \in Procs : <>[]Subscribed(p)

=============================================================================
