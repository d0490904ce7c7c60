--------------------------- MODULE MCFeatureUsage ---------------------------
(* Instances of FeatureUsage for TLC. *)
EXTENDS FeatureUsage, TLC

(* The limits of a free and of a paid plan, scaled down: no text messages and  *)
(* no drafts beyond the trial on the free plan, one feature without a limit.   *)
MCLimit ==
    [review |-> 0 :> 1 @@ 1 :> 2,
     ocr    |-> 0 :> 1 @@ 1 :> -1,
     sms    |-> 0 :> 0 @@ 1 :> 1,
     draft  |-> 0 :> 0 @@ 1 :> 1]

Symmetry == Permutations(Request) \cup Permutations(Target)
=============================================================================
