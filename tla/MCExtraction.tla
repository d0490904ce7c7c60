---------------------------- MODULE MCExtraction ----------------------------
(* Instances of Extraction for TLC. *)
EXTENDS Extraction, TLC

MCVerdict == {"rejected"}

MCKinds == <<"eligibility">>
=============================================================================
