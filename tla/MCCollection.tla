---------------------------- MODULE MCCollection ----------------------------
(* Instances of Collection for TLC. *)
EXTENDS Collection, TLC

(* Two contents differ in a field that is compared, two in one that is not. *)
MCContent == {[main |-> 1, rest |-> 1], [main |-> 2, rest |-> 1], [main |-> 1, rest |-> 2]}
=============================================================================
