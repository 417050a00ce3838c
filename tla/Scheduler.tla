-------------------------------- MODULE Scheduler --------------------------------
(*
The worker loop's choice of queued jobs (services/worker_engine.py,
_start_queued_jobs) under three limits: generations of the whole site, of one user,
of one channel. A pass of the loop reads four snapshots of the jobs table, one
statement each, while submit threads, status checks and clicks move the jobs it
counts; what it has handed to submit threads it knows from _SUBMIT_FUTURES.

A job is followed by the stage that matters to the limits: "result" stands for every
status a submitted job may come back from (to be downloaded, failed, paused), "ended"
for a job that never reached upstream. Jobs are numbered in the order of queued_at,
which a retry does not change.
*)
EXTENDS Integers, FiniteSets

CONSTANTS NumJobs,       \* the jobs are numbered 1 to NumJobs, in the order they are queued
          Users, Keys,   \* users and provider keys (channels)
          OwnerOf, KeyOf,
          MaxRunning,    \* setting max_running_jobs
          UserLimit,     \* concurrent_job_limit of a user, 0: none (or an administrator)
          KeyLimit,      \* concurrent_limit of a provider key, 0: none
          WindowFactor, MinWindow,  \* candidates read: max(available * 20, 100)
          MaxSubmit,     \* setting submit_max_attempts
          MaxReturns,    \* bound: jobs that go back to their status checks
          MaxFaults      \* bound: crashes and broken submit threads

Jobs == 1..NumJobs

ASSUME QueueAssumption == NumJobs \in Nat
ASSUME OwnersAssumption == OwnerOf \in [Jobs -> Users] /\ KeyOf \in [Jobs -> Keys]
ASSUME LimitsAssumption ==
  /\ MaxRunning \in Nat \ {0}
  /\ UserLimit \in [Users -> Nat] /\ KeyLimit \in [Keys -> Nat]
ASSUME SchedulerBoundsAssumption ==
  {WindowFactor, MinWindow, MaxSubmit, MaxReturns, MaxFaults} \subseteq Nat

VARIABLES stage,     \* stage[j]: where job j is
          attempts,  \* attempts[j]: submit_attempts
          future,    \* future[j]: its entry in _SUBMIT_FUTURES and what its thread does
          pass,      \* what the pass of the loop under way has read
          returned,  \* history: generating jobs that came back by themselves or a click
          up, returns, faults

vars == <<stage, attempts, future, pass, returned, up, returns, faults>>

GENERATION_RUNNING == {"submitting", "generating"}
Stages == {"none", "queued", "result", "ended"} \cup GENERATION_RUNNING
Futures == {"none", "pending", "posting", "done"}
Between == [pc |-> "idle"]

Running == {j \in Jobs : stage[j] \in GENERATION_RUNNING}
Scheduled == {j \in Jobs : future[j] # "none"}

OfUser(u) == {j \in Jobs : OwnerOf[j] = u}
OfKey(k) == {j \in Jobs : KeyOf[j] = k}

\* Mutation of Load: a job handed to a thread is counted only once it is submitting.
RunningOnly(S) == Cardinality(Running \cap S)

\* Jobs of S that count against a limit: running ones, and again those with a future.
Load(S) == Cardinality(Running \cap S) + Cardinality(pass.scheduled \cap S)

--------------------------------------------------------------------------------
\* A job is created (create_jobs_batch_and_reserve).
Arrive(j) ==
  /\ stage[j] = "none" /\ \A i \in Jobs : i < j => stage[i] # "none"
  /\ stage' = [stage EXCEPT ![j] = "queued"]
  /\ UNCHANGED <<attempts, future, pass, returned, up, returns, faults>>

\* Mutation of Cleaned: threads that brought nothing to upstream keep their entry.
CleanedIfSubmitted ==
  [j \in Jobs |-> IF future[j] = "done" /\ stage[j] # "queued" THEN "none" ELSE future[j]]

\* _cleanup_submit_futures
Cleaned == [j \in Jobs |-> IF future[j] = "done" THEN "none" ELSE future[j]]

PassStart ==
  /\ up /\ pass = Between
  /\ future' = Cleaned
  /\ pass' = [pc |-> "started", scheduled |-> {j \in Jobs : Cleaned[j] # "none"}]
  /\ UNCHANGED <<stage, attempts, returned, up, returns, faults>>

CountRunning ==
  LET available == MaxRunning - Load(Jobs)
  IN /\ pass.pc = "started"
     /\ pass' = IF available <= 0 THEN Between
                ELSE [pc |-> "counted", scheduled |-> pass.scheduled, available |-> available]
     /\ UNCHANGED <<stage, attempts, future, returned, up, returns, faults>>

CountByUser ==
  /\ pass.pc = "counted"
  /\ pass' = [pc |-> "users", scheduled |-> pass.scheduled, available |-> pass.available,
              byUser |-> [u \in Users |-> Load(OfUser(u))]]
  /\ UNCHANGED <<stage, attempts, future, returned, up, returns, faults>>

CountByKey ==
  /\ pass.pc = "users"
  /\ pass' = [pc |-> "keys", scheduled |-> pass.scheduled, available |-> pass.available,
              byUser |-> pass.byUser, byKey |-> [k \in Keys |-> Load(OfKey(k))]]
  /\ UNCHANGED <<stage, attempts, future, returned, up, returns, faults>>

Window == IF pass.available * WindowFactor > MinWindow THEN pass.available * WindowFactor
                                                       ELSE MinWindow

Queued == {j \in Jobs : stage[j] = "queued"}
Before(S, j) == {i \in S : i < j}
Candidates == {j \in Queued : Cardinality(Before(Queued, j)) < Window}

\* Is there room for one more, after n started before and those chosen in this pass.
Room(limit, n, chosen) == limit = 0 \/ n + Cardinality(chosen) < limit

\* Mutation of Picks: the jobs chosen in this pass are not added to a user's count.
PicksUncounted(j, chosen) ==
  /\ j \notin pass.scheduled
  /\ Cardinality(chosen) < pass.available
  /\ Room(UserLimit[OwnerOf[j]], pass.byUser[OwnerOf[j]], {})
  /\ Room(KeyLimit[KeyOf[j]], pass.byKey[KeyOf[j]], chosen \cap OfKey(KeyOf[j]))

\* Does the loop over the candidates take job j, having taken `chosen` before it.
Picks(j, chosen) ==
  /\ j \notin pass.scheduled
  /\ Cardinality(chosen) < pass.available
  /\ Room(UserLimit[OwnerOf[j]], pass.byUser[OwnerOf[j]], chosen \cap OfUser(OwnerOf[j]))
  /\ Room(KeyLimit[KeyOf[j]], pass.byKey[KeyOf[j]], chosen \cap OfKey(KeyOf[j]))

StartQueued ==
  /\ pass.pc = "keys"
  /\ \E chosen \in SUBSET Candidates :
       /\ \A j \in Candidates : j \in chosen <=> Picks(j, Before(chosen, j))
       /\ future' = [j \in Jobs |-> IF j \in chosen THEN "pending" ELSE future[j]]
  /\ pass' = Between
  /\ UNCHANGED <<stage, attempts, returned, up, returns, faults>>

--------------------------------------------------------------------------------
\* submit_queued_job in its thread (see JobPipeline for what it does to the job).

SubmitBegins(j) ==
  /\ future[j] = "pending"
  /\ IF stage[j] = "queued"
     THEN /\ stage' = [stage EXCEPT ![j] = "submitting"]
          /\ future' = [future EXCEPT ![j] = "posting"]
          /\ attempts' = [attempts EXCEPT ![j] = IF @ < MaxSubmit THEN @ + 1 ELSE @]
          /\ returned' = returned \ {j}
     ELSE /\ future' = [future EXCEPT ![j] = "done"]
          /\ UNCHANGED <<stage, attempts, returned>>
  /\ UNCHANGED <<pass, up, returns, faults>>

SubmitEnds(j, to) ==
  /\ future[j] = "posting"
  /\ future' = [future EXCEPT ![j] = "done"]
  /\ to = "queued" => attempts[j] < MaxSubmit
  /\ stage' = [stage EXCEPT ![j] = to]
  /\ UNCHANGED <<attempts, pass, returned, up, returns, faults>>

\* The key is missing or inactive: the job fails before the call.
SubmitRejected(j) ==
  /\ future[j] = "pending" /\ stage[j] = "queued"
  /\ future' = [future EXCEPT ![j] = "done"]
  /\ stage' = [stage EXCEPT ![j] = "ended"]
  /\ UNCHANGED <<attempts, pass, returned, up, returns, faults>>

\* _submit_job_background: the thread raises and a submitting job is queued again,
\* or that fails too and it is left behind.
SubmitBreaks(j) ==
  /\ future[j] = "posting" /\ faults < MaxFaults
  /\ future' = [future EXCEPT ![j] = "done"]
  /\ faults' = faults + 1
  /\ stage' \in {stage, [stage EXCEPT ![j] = IF @ = "submitting" THEN "queued" ELSE @]}
  /\ UNCHANGED <<attempts, pass, returned, up, returns>>

\* recover_stale_submitting_jobs, in the loop between two passes; the thread may be
\* still waiting for its answer.
RecoverSubmitting(j) ==
  /\ up /\ pass = Between /\ stage[j] = "submitting"
  /\ stage' = [stage EXCEPT ![j] = "queued"]
  /\ UNCHANGED <<attempts, future, pass, returned, up, returns, faults>>

\* A status check, a pause or a download that found the video ends the generation.
GenerationEnds(j) ==
  /\ stage[j] = "generating"
  /\ stage' = [stage EXCEPT ![j] = "result"]
  /\ returned' = returned \ {j}
  /\ UNCHANGED <<attempts, future, pass, up, returns, faults>>

\* Resume, a result that is not ready, a premature fallback: back to status checks,
\* with no look at the limits.
ReturnsToGeneration(j) ==
  /\ stage[j] = "result" /\ returns < MaxReturns
  /\ stage' = [stage EXCEPT ![j] = "generating"]
  /\ returned' = returned \cup {j}
  /\ returns' = returns + 1
  /\ UNCHANGED <<attempts, future, pass, up, faults>>

WorkerCrash ==
  /\ up /\ faults < MaxFaults
  /\ up' = FALSE /\ faults' = faults + 1
  /\ future' = [j \in Jobs |-> "none"]
  /\ pass' = Between
  /\ UNCHANGED <<stage, attempts, returned, returns>>

\* mark_inflight_jobs_interrupted
WorkerStart ==
  /\ ~up /\ up' = TRUE
  /\ stage' = [j \in Jobs |-> IF stage[j] = "submitting" THEN "queued" ELSE stage[j]]
  /\ UNCHANGED <<attempts, future, pass, returned, returns, faults>>

--------------------------------------------------------------------------------
Init ==
  /\ stage = [j \in Jobs |-> "none"] /\ attempts = [j \in Jobs |-> 0]
  /\ future = [j \in Jobs |-> "none"] /\ pass = Between
  /\ returned = {} /\ up = TRUE /\ returns = 0 /\ faults = 0

PassNext == PassStart \/ CountRunning \/ CountByUser \/ CountByKey \/ StartQueued

SubmitNext(j) ==
  \/ SubmitBegins(j) \/ SubmitRejected(j) \/ SubmitBreaks(j)
  \/ \E to \in {"generating", "queued", "ended"} : SubmitEnds(j, to)

Next ==
  \/ PassNext \/ WorkerCrash \/ WorkerStart
  \/ \E j \in Jobs : \/ Arrive(j) \/ SubmitNext(j) \/ RecoverSubmitting(j)
                     \/ GenerationEnds(j) \/ ReturnsToGeneration(j)

Spec == Init /\ [][Next]_vars

\* The loop and its threads go on, upstream calls time out and generations end (see
\* Settles of JobPipeline). The scan for stale submissions runs between any two passes,
\* so what stays stale meets it again and again (SF).
Fairness ==
  /\ WF_vars(PassNext) /\ WF_vars(WorkerStart)
  /\ \A j \in Jobs : /\ WF_vars(SubmitBegins(j) \/ SubmitRejected(j))
                     /\ WF_vars(\E to \in {"generating", "queued", "ended"} : SubmitEnds(j, to))
                     /\ SF_vars(RecoverSubmitting(j)) /\ WF_vars(GenerationEnds(j))

FairSpec == Spec /\ Fairness

--------------------------------------------------------------------------------
\* Properties.

SchedulerTypeOK ==
  /\ stage \in [Jobs -> Stages] /\ attempts \in [Jobs -> 0..MaxSubmit]
  /\ future \in [Jobs -> Futures]
  /\ pass \in {Between}
       \cup [pc : {"started"}, scheduled : SUBSET Jobs]
       \cup [pc : {"counted"}, scheduled : SUBSET Jobs, available : Nat \ {0}]
       \cup [pc : {"users"}, scheduled : SUBSET Jobs, available : Nat \ {0}, byUser : [Users -> Nat]]
       \cup [pc : {"keys"}, scheduled : SUBSET Jobs, available : Nat \ {0}, byUser : [Users -> Nat],
             byKey : [Keys -> Nat]]
  /\ returned \subseteq Jobs /\ up \in BOOLEAN /\ returns \in Nat /\ faults \in Nat

\* What the scheduler has let through: jobs that generate, those that returned to it
\* aside, or are about to.
Started == (Running \ returned) \cup Scheduled

\* No pass lets more jobs generate at once than max_running_jobs, however old its
\* counts are when it uses them and whatever stale recovery, retries and restarts queue
\* again meanwhile. Jobs that return to their status checks are not counted: resume and
\* the fallback put them there whatever is running.
SiteLimit == Cardinality(Started) <= MaxRunning

\* The same for the limit of each user and each channel.
UserLimits ==
  \A u \in Users : UserLimit[u] # 0 => Cardinality(Started \cap OfUser(u)) <= UserLimit[u]
KeyLimits ==
  \A k \in Keys : KeyLimit[k] # 0 => Cardinality(Started \cap OfKey(k)) <= KeyLimit[k]

WithinLimits == SiteLimit /\ UserLimits /\ KeyLimits

\* What makes the limits inductive: while a pass is under way nothing else is handed to
\* a thread, and its counts stay upper bounds of what they counted.
PassCounts ==
  /\ pass # Between => pass.scheduled = Scheduled
  /\ pass.pc \in {"counted", "users", "keys"} =>
       Cardinality(Started) + pass.available <= MaxRunning
  /\ pass.pc \in {"users", "keys"} =>
       \A u \in Users : Cardinality(Started \cap OfUser(u)) <= pass.byUser[u]
  /\ pass.pc = "keys" =>
       \A k \in Keys : Cardinality(Started \cap OfKey(k)) <= pass.byKey[k]

\* All of it: the inductive invariant SchedulerProofs works with.
SchedulerInv == SchedulerTypeOK /\ SiteLimit /\ UserLimits /\ KeyLimits /\ PassCounts

\* Every queued job is taken up, though it may stand behind more jobs at their limits
\* than the loop reads candidates.
QueueMoves == \A j \in Jobs : (stage[j] = "queued") ~> (stage[j] # "queued")
================================================================================
