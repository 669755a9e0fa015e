------------------------------ MODULE MCReview ------------------------------
(* Two plans, one of which declares a second workspace path. *)
EXTENDS Review

MCTargets == [d \in Plans |-> IF d = "a" THEN {"m"} ELSE {"m", "n"}]
=============================================================================
