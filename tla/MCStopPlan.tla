---------------------------- MODULE MCStopPlan ----------------------------
(***************************************************************************)
(* Instances of StopPlan for TLC: two places in the UK, x and y, and one   *)
(* abroad, a.                                                              *)
(***************************************************************************)
EXTENDS StopPlan, TLC

CONSTANTS x, y, a, alice, m1

Plain(f, t, s) == [from |-> f, to |-> t, service |-> s, contact |-> None, mark |-> None]

(* One way jobs, jobs with both ends in the UK, and a job whose Del/Coll   *)
(* or whose address is missing.                                            *)
OneWay == {Plain(x, a, "collection"), Plain(y, a, "collection"),
           Plain(a, x, "delivery"), Plain(a, y, "delivery"),
           Plain(x, a, "delivery")}

BothWays == {Plain(x, y, "unset"), Plain(y, x, "collection"), Plain(x, x, "delivery")}

Odd == {Plain(x, a, "unset"), Plain(None, a, "collection"),
        Plain(a, x, "collection_and_delivery")}

(* The same, with a contact or merged by hand.                             *)
Known == {[j EXCEPT !.contact = alice] : j \in OneWay \cup {Plain(x, y, "unset")}}
Marked == {[j EXCEPT !.mark = m1] :
             j \in {Plain(x, a, "collection"), Plain(y, a, "collection"),
                    Plain(a, y, "delivery"), Plain(x, y, "unset"),
                    Plain(y, x, "unset")}}

MCJobKinds == OneWay \cup BothWays \cup Odd \cup Known \cup Marked

MCManifests ==
    {[start |-> x, end |-> None, skip |-> FALSE],
     [start |-> x, end |-> None, skip |-> TRUE],
     [start |-> x, end |-> y, skip |-> FALSE],
     [start |-> None, end |-> None, skip |-> FALSE]}

(* Jobs driven both ways, which are all a Thinventory manifest has.        *)
RoundTrips == {Plain(f, t, "collection_and_delivery") : f, t \in {x, y}}

NoPoints == {[start |-> None, end |-> None, skip |-> FALSE]}
=============================================================================
