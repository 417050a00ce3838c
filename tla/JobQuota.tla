-------------------------------- MODULE JobQuota --------------------------------
(*
What the quota subsystem promises, with no word on how it keeps it: one user, the
quota unit each of the user's video jobs holds, and the user's personal balance.

A unit is held when the job is queued, spent when the upstream service accepts
the job, and given back when the job is dropped before that or fails after it.
Nothing moves backwards and nothing moves twice. The unit comes from the user's
personal wallet or from one of the user's packages, and the personal balance
moves with the jobs that draw on it, or by an administrator's hand.
*)
EXTENDS Integers

CONSTANTS Jobs,       \* the user's jobs
          Packages    \* the user's package assignments

VARIABLES stage,      \* stage[j]: how far the quota unit of job j has come
          source,     \* source[j]: where that unit comes from
          balance     \* the user's personal balance

jobQuotaVars == <<stage, source, balance>>

Sources == {"personal"} \cup Packages
Stages == {"none", "reserved", "charged", "released", "refunded", "deleted"}

\* What job j moves on the personal balance when it is charged or refunded.
Price(j) == IF source[j] = "personal" THEN 1 ELSE 0

Move(j, from, to) == stage[j] \in from /\ stage' = [stage EXCEPT ![j] = to]

Hold(j, s) == /\ Move(j, {"none"}, "reserved")
              /\ source' = [source EXCEPT ![j] = s]
              /\ UNCHANGED balance

Charge(j) == /\ Move(j, {"reserved"}, "charged")
             /\ balance' = balance - Price(j)
             /\ UNCHANGED source

Release(j) == Move(j, {"reserved"}, "released") /\ UNCHANGED <<source, balance>>

Refund(j) == /\ Move(j, {"charged"}, "refunded")
             /\ balance' = balance + Price(j)
             /\ UNCHANGED source

\* Deleting a job gives back a unit it only holds and keeps one it has spent.
Forget(j) == Move(j, Stages \ {"none"}, "deleted") /\ UNCHANGED <<source, balance>>

\* An administrator grants or deducts quota.
Adjust == balance' \in Int /\ UNCHANGED <<stage, source>>

Init == /\ stage = [j \in Jobs |-> "none"]
        /\ source = [j \in Jobs |-> "personal"]
        /\ balance = 0

Next == \/ \E j \in Jobs, s \in Sources : Hold(j, s)
        \/ \E j \in Jobs : Charge(j) \/ Release(j) \/ Refund(j) \/ Forget(j)
        \/ Adjust

Spec == Init /\ [][Next]_jobQuotaVars
================================================================================
