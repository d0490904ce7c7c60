----------------------------- MODULE MCPipeline -----------------------------
(* Instances of Pipeline for TLC. *)
EXTENDS Pipeline, TLC

MCOffsets == <<0, 1>>

(* The first round is opened, or awarded at once: to a namesake, which is a *)
(* result to look at by hand, or to the company.                            *)
MCPublishable == {<<0, "opened">>, <<0, "namesake">>, <<0, "ours">>}
=============================================================================
