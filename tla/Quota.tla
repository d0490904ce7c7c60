------------------------------- MODULE Quota -------------------------------
(***************************************************************************)
(* What a monthly usage quota promises, without locks, transactions or     *)
(* requests: an item is charged at most once, only while there is room     *)
(* under the limit of a plan that has been in force, and given back only   *)
(* while the charge is still provisional.                                  *)
(***************************************************************************)
EXTENDS Integers, FiniteSets

CONSTANTS
    Plan,     \* the plans
    Key,      \* what is counted together: a feature in a period
    Subject,  \* what a use is about
    Cap       \* Cap[q][k]: the limit of plan q for k, negative without limit

VARIABLES
    seen,     \* the plans that have been in force
    charged,  \* the items charged
    held      \* the charged items that may still be given back

vars == <<seen, charged, held>>

Item == [key: Key, subject: Subject]

Used(k) == {x \in charged : x.key = k}

Unlimited(q, k) == Cap[q][k] < 0

Init ==
    /\ \E q \in Plan : seen = {q}
    /\ charged = {}
    /\ held = {}

(* A plan comes into force. *)
Offer(q) ==
    /\ seen' = seen \cup {q}
    /\ UNCHANGED <<charged, held>>

(* A new item is charged, for good or provisionally. *)
Charge(x) ==
    /\ x \notin charged
    /\ \E q \in seen : Unlimited(q, x.key) \/ Cardinality(Used(x.key)) < Cap[q][x.key]
    /\ charged' = charged \cup {x}
    /\ held' \in {held, held \cup {x}}
    /\ UNCHANGED seen

(* Some provisional charges become final. *)
Settle ==
    /\ held' \in SUBSET held
    /\ UNCHANGED <<seen, charged>>

(* A provisional charge is given back. *)
Refund(x) ==
    /\ x \in held
    /\ charged' = charged \ {x}
    /\ held' = held \ {x}
    /\ UNCHANGED seen

Next ==
    \/ \E q \in Plan : Offer(q)
    \/ \E x \in Item : Charge(x) \/ Refund(x)
    \/ Settle

Spec == Init /\ [][Next]_vars

(* No key has more charged items than the largest limit in force so far. *)
WithinCap ==
    \A k \in Key : Used(k) # {} =>
        \E q \in seen : Unlimited(q, k) \/ Cardinality(Used(k)) <= Cap[q][k]
=============================================================================
