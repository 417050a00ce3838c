--------------------------------- MODULE MCQuota ---------------------------------
(*
Quota on a small instance: two jobs, one plan, one binding of it and one unit of
personal quota, so a job may draw on either source.
*)
EXTENDS Quota, TLC

MCPlanOf == [a \in Assignments |-> CHOOSE p \in Plans : TRUE]

JobSymmetry == Permutations(Jobs)
================================================================================
