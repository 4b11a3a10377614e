----------------------------- MODULE OnceLedger -----------------------------
(***************************************************************************)
(* What a deduplication ledger promises: the effect of an item happens in  *)
(* the very step that enters the item in the ledger, and an item is        *)
(* entered at most once.  Nothing is ever taken out again.                 *)
(*                                                                         *)
(* The table processed_emails is meant to be such a ledger; EmailIntake is *)
(* shown to implement this specification.                                  *)
(***************************************************************************)
EXTENDS Naturals

CONSTANT Items      \* what is deduplicated: Message-IDs

VARIABLES
    ledger,         \* the items already entered
    effects         \* effects[i]: how many times item i took effect

vars == <<ledger, effects>>

Init ==
    /\ ledger = {}
    /\ effects = [i \in Items |-> 0]

(* Some items, all of them new, are entered and take effect.               *)
Record(new) ==
    /\ new \cap ledger = {}
    /\ ledger' = ledger \cup new
    /\ effects' = [i \in Items |-> IF i \in new THEN effects[i] + 1 ELSE effects[i]]

Next == \E new \in SUBSET Items : Record(new)

Spec == Init /\ [][Next]_vars

-----------------------------------------------------------------------------

(* The ledger holds items, and each has a count.                           *)
TypeOK ==
    /\ ledger \subseteq Items
    /\ effects \in [Items -> Nat]

(* An item has taken effect once if it is in the ledger, and never         *)
(* otherwise.                                                              *)
ExactlyOnce ==
    \A i \in Items : effects[i] = IF i \in ledger THEN 1 ELSE 0

=============================================================================
