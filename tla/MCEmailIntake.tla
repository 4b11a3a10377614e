---------------------------- MODULE MCEmailIntake ----------------------------
(***************************************************************************)
(* Instances of EmailIntake for TLC, all in one Outlook conversation.      *)
(*                                                                         *)
(* root   is a request that a mail gateway marked as [EXTERNAL], with a    *)
(*        document;                                                        *)
(* reply  answers root with In-Reply-To, under a subject without Re:;      *)
(* anon   is a new request without a Message-ID;                           *)
(* order  is a forwarded request with a document, under the subject that   *)
(*        the desk gives as well;                                          *)
(* blank  has a document and no subject.                                   *)
(***************************************************************************)
EXTENDS EmailIntake, TLC

CONSTANTS root, reply, anon, order, blank

MCRefs == [m \in Messages |-> IF m = reply THEN {root} ELSE {}]

MCPrefix ==
    [m \in Messages |-> CASE m = root -> "tag"
                          [] m = order -> "fwd"
                          [] OTHER -> "none"]

MCTopic ==
    [m \in Messages |-> CASE m \in {root, order} -> "booking"
                          [] m = blank -> ""
                          [] OTHER     -> "quote"]

MCConversation == [m \in Messages |-> "c1"]

MCIdentified == Messages \ {anon}
MCTitled == Messages \ {blank}
MCWithFiles == Messages \cap {root, order, blank}

(* Pollers are interchangeable. *)
PollerSymmetry == Permutations(Pollers)
=============================================================================
