------------------------------- MODULE MCJobPipeline -------------------------------
(*
JobPipeline on small instances, all without packages (MCQuota covers those):
  MCRecovery.cfg       two jobs on one wallet, one crash or broken transaction and
                       one click; OthersWait lets one job move at a time past the
                       queue, which keeps what they share, the wallet
  MCSettles.cfg        one job, two faults, two upstream tasks, retry lists of two:
                       long chains of retries and recoveries, and liveness
  MCFinallyFailed.cfg  a claim of the documentation that the code does not keep
*)
EXTENDS JobPipeline, TLC

MCPlanOf == [a \in Assignments |-> CHOOSE p \in Plans : TRUE]

JobSymmetry == Permutations(Jobs)

\* Only one job moves past the queue.
OthersWait ==
  \E j \in Jobs : \A i \in Jobs \ {j} :
    job[i].status \in {"none", "queued"} /\ op[i] = Idle

\* All jobs are there when the first one leaves the queue, and no wallet operation falls
\* between its steps: MCQuota has those.
AllQueuedFirst ==
  /\ \/ \A j \in Jobs : job[j].status # "none"
     \/ \A j \in Jobs : job[j].status \in {"none", "queued"} /\ op[j] = Idle /\ sub[j] = Idle
  /\ (\E j \in Jobs : job[j].status # "none") => wallet.granted = MaxGrant /\ deducted = 0

\* A second click only while nothing has gone wrong (OthersWait keeps it to one job).
ClicksOrFaults == clicks + faults <= 2
================================================================================
