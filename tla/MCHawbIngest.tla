--------------------------- MODULE MCHawbIngest ---------------------------
(***************************************************************************)
(* An instance of HawbIngest for TLC.  E-mail e1 has a note with two       *)
(* HAWBs and a blind form for one of them.  E-mail e2 has a file under the *)
(* name of that note and one that is too large, with one of the HAWBs.     *)
(* The notes are Thinventory's.  TRACE delivers each HAWB in a manifest of *)
(* its own, under one external_ref.                                        *)
(***************************************************************************)
EXTENDS HawbIngest, TLC

CONSTANTS e1, e2, note, form, again, large, t1, t2, h1, h2

MCMailOf == [a \in Atts |-> IF a \in {note, form} THEN e1 ELSE e2]

MCName == [a \in Atts |-> IF a = again THEN note ELSE a]

MCSort ==
    [a \in Atts |-> CASE a = form -> "blind"
                      [] a = large -> "broken"
                      [] OTHER -> "plain"]

MCContent ==
    [a \in Atts \cup Traces |->
                      CASE a = note -> {h1, h2}
                      [] a \in {form, t2} -> {h2}
                      [] OTHER -> {h1}]

MCRefOf == [t \in Traces |-> "ref"]

=============================================================================
