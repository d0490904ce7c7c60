--------------------------- MODULE MCNotifications ---------------------------
(* Instances of Notifications for TLC. *)
EXTENDS Notifications, TLC

MCOffset == [e \in Event |-> e]
MCSymmetry == Permutations(Scheduler) \cup Permutations(Worker) \cup Permutations(Contact)

(* The reminders and the e-mails share nothing but the monthly count. In this       *)
(* instance runs overlap while there is no e-mail, batches overlap while there is no *)
(* run, e-mails are of at most two kinds, as many as pass the limit of one, beside   *)
(* one correction or change of status, and a second one excludes a fault. E-mails    *)
(* end with the first instant; after the second, runs follow one another without     *)
(* faults, until an entry can be prepared a day after a reminder was due.            *)
Kinds == {m[1] : m \in {n \in Mail : sent[n] > 0}} \cup ({work[w].kind : w \in Worker} \ {None})
Runs == {s \in Scheduler : sched[s].phase # "idle"}
Batches == {w \in Worker : work[w].phase # "idle"}
Bounds ==
    /\ Cardinality(Kinds') <= 2
    /\ Kinds' # {} => Cardinality(Runs') <= 1 /\ changes' <= 1
    /\ changes' + faults' <= 2
    /\ now' > 1 => Kinds' = {}
    /\ now' > 2 => faults' = 0 /\ Cardinality(Runs') <= 1
    /\ Batches' = {} \/ Runs' = {}
=============================================================================
