------------------------------- MODULE MCScheduler -------------------------------
(*
Scheduler on small instances: jobs numbered 1 to NumJobs, whose users and channels
alternate so that every combination of a user and a channel at its limit occurs.
*)
EXTENDS Scheduler

CONSTANTS LimitOfUser, LimitOfKey

MCUsers == {"u1", "u2"}
MCKeys == {"k1", "k2"}
\* The first two jobs are of u1; u2 follows, with a job on each channel.
MCOwnerOf == [j \in Jobs |-> IF j <= 2 THEN "u1" ELSE "u2"]
MCKeyOf == [j \in Jobs |-> IF j \in {1, 3} THEN "k1" ELSE "k2"]
MCUserLimit == [u \in MCUsers |-> LimitOfUser]
MCKeyLimit == [k \in MCKeys |-> IF k = "k1" THEN LimitOfKey ELSE 0]
================================================================================
