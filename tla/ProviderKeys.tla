------------------------------- MODULE ProviderKeys -------------------------------
(*
The upstream keys (services/provider_keys.py): how one is chosen for a new job, what the
worker records about it, and what administrators do to it (api/admin/routes.py,
/provider-keys), while submissions and status queries are under way with it.

The worker's sessions keep the row as they loaded it: a later SELECT FOR UPDATE locks the
row and does not refresh it, and only columns that change are written. A token is a
number; a task can be billed and queried only with the token it was posted with.
*)
EXTENDS Integers, FiniteSets

CONSTANTS Keys, Jobs,
          Threshold,   \* provider_key_failure_threshold
          DailyLimit,  \* daily_limit of a key, 0: none
          MaxTokens,   \* bound: tokens a key has in turn
          MaxClicks,   \* bound: forms of administrators
          MaxFailures  \* bound: submissions and queries that fail

ASSUME KeysAssumption ==
  /\ {Threshold, DailyLimit, MaxTokens, MaxClicks, MaxFailures} \subseteq Nat
  /\ IsFiniteSet(Keys) /\ IsFiniteSet(Jobs)

VARIABLES key,     \* key[k]: row of a key
          calls,   \* calls[k]: successful POSTs of today in APICallLog
          job,     \* job[j]: status, key, and the token it was posted with
          cost,    \* cost[j]: the JobCost of the job, it survives the job
          thread,  \* thread[j]: the worker's thread on the job, with the row it loaded
          form,    \* an administrator's form between its reads and its write
          clicks, failures

vars == <<key, calls, job, cost, thread, form, clicks, failures>>

NoKey == "no key"
Absent == [status |-> "none"]
NoJob == [status |-> "none", key |-> NoKey, token |-> 0]
NoCost == [state |-> "none"]
Idle == [pc |-> "idle"]

Live == {k \in Keys : key[k] # Absent}
UsedBy(k) == {j \in Jobs : job[j].key = k}
PendingOf(k) == {j \in Jobs : cost[j].state = "pending" /\ cost[j].key = k}

--------------------------------------------------------------------------------
\* select_provider_key. A key that failed Threshold times in a row cools down; it is
\* chosen only if all that are left do.
InCooldown(row) == row.failures >= Threshold /\ row.recent
Allowed == {k \in Live : key[k].status = "active" /\ (DailyLimit > 0 => calls[k] < DailyLimit)}
Eligible == {k \in Allowed : ~InCooldown(key[k])}
Choices == IF Eligible # {} THEN Eligible ELSE Allowed

\* Jobs refer to their key: the database refuses what would leave one without.
JobsKeep(k) == UsedBy(k) # {}

\* A job is created with a key that was chosen a moment ago, or asked for by its id.
Chooses(j, k) ==
  /\ job[j] = NoJob /\ thread[j] = Idle /\ cost[j] = NoCost
  /\ k \in Choices \cup {c \in Live : key[c].status = "active"}
  /\ thread' = [thread EXCEPT ![j] = [pc |-> "create", key |-> k]]
  /\ UNCHANGED <<key, calls, job, cost, form, clicks, failures>>

CreatesJob(j) ==
  LET k == thread[j].key
  IN /\ thread[j].pc = "create"
     /\ thread' = [thread EXCEPT ![j] = Idle]
     /\ job' = [job EXCEPT ![j] = IF k \in Live THEN [status |-> "queued", key |-> k, token |-> 0] ELSE NoJob]
     /\ UNCHANGED <<key, calls, cost, form, clicks, failures>>

--------------------------------------------------------------------------------
\* What a thread writes back. `loaded` is the counter as the thread has read it.
FailureWritten(row, loaded) == [row EXCEPT !.failures = loaded + 1, !.recent = TRUE]
SuccessWritten(row, loaded) == IF loaded = 0 THEN row ELSE [row EXCEPT !.failures = 0, !.recent = FALSE]

\* submit_queued_job
SubmitStarts(j) ==
  LET row == key[job[j].key]
  IN /\ job[j].status = "queued" /\ thread[j] = Idle
     /\ IF row.status # "active"
        THEN job' = [job EXCEPT ![j].status = "ended"] /\ thread' = thread
        ELSE /\ job' = [job EXCEPT ![j].status = "submitting", ![j].token = row.token]
             /\ thread' = [thread EXCEPT ![j] = [pc |-> "post", loaded |-> row.failures]]
     /\ UNCHANGED <<key, calls, cost, form, clicks, failures>>

SubmitSucceeds(j) ==
  LET k == job[j].key
  IN /\ thread[j].pc = "post"
     /\ job' = [job EXCEPT ![j].status = "submitted"]
     /\ cost' = [cost EXCEPT ![j] = [state |-> "pending", key |-> k, token |-> job[j].token]]
     /\ key' = [key EXCEPT ![k] = SuccessWritten(@, thread[j].loaded)]
     /\ calls' = [calls EXCEPT ![k] = @ + 1]
     /\ thread' = [thread EXCEPT ![j] = Idle]
     /\ UNCHANGED <<form, clicks, failures>>

SubmitFails(j, retry) ==
  /\ thread[j].pc = "post" /\ failures < MaxFailures
  /\ failures' = failures + 1
  /\ job' = [job EXCEPT ![j].status = IF retry THEN "queued" ELSE "ended"]
  /\ key' = [key EXCEPT ![job[j].key] = FailureWritten(@, thread[j].loaded)]
  /\ thread' = [thread EXCEPT ![j] = Idle]
  /\ UNCHANGED <<calls, cost, form, clicks>>

\* poll_remote, with the token the key has now.
QueryStarts(j) ==
  /\ job[j].status = "submitted" /\ thread[j] = Idle
  /\ thread' = [thread EXCEPT ![j] = [pc |-> "query", loaded |-> key[job[j].key].failures,
                                       own |-> key[job[j].key].token = job[j].token]]
  /\ UNCHANGED <<key, calls, job, cost, form, clicks, failures>>

QueryEnds(j, end) ==
  /\ thread[j].pc = "query" /\ thread[j].own
  /\ job' = [job EXCEPT ![j].status = IF end THEN "ended" ELSE @]
  /\ key' = [key EXCEPT ![job[j].key] = SuccessWritten(@, thread[j].loaded)]
  /\ thread' = [thread EXCEPT ![j] = Idle]
  /\ UNCHANGED <<calls, cost, form, clicks, failures>>

QueryFails(j, end) ==
  /\ thread[j].pc = "query" /\ failures < MaxFailures
  /\ failures' = failures + 1
  /\ job' = [job EXCEPT ![j].status = IF end THEN "ended" ELSE @]
  /\ key' = [key EXCEPT ![job[j].key] = FailureWritten(@, thread[j].loaded)]
  /\ thread' = [thread EXCEPT ![j] = Idle]
  /\ UNCHANGED <<calls, cost, form, clicks>>

\* Billing settles or excludes a cost.
CostEnds(j) ==
  /\ cost[j].state = "pending" /\ key[cost[j].key] # Absent /\ cost[j].token = key[cost[j].key].token
  /\ cost' = [cost EXCEPT ![j].state = "final"]
  /\ UNCHANGED <<key, calls, job, thread, form, clicks, failures>>

\* The administrator deletes the record of a job.
DeleteJob(j) ==
  /\ clicks < MaxClicks /\ clicks' = clicks + 1
  /\ form = Idle /\ job[j].status = "ended" /\ thread[j] = Idle
  /\ job' = [job EXCEPT ![j] = NoJob]
  /\ UNCHANGED <<key, calls, cost, thread, form, failures>>

CooldownEnds(k) ==
  /\ k \in Live /\ key[k].recent
  /\ key' = [key EXCEPT ![k].recent = FALSE]
  /\ UNCHANGED <<calls, job, cost, thread, form, clicks, failures>>

--------------------------------------------------------------------------------
\* The administrator, one. A form reads, checks, and writes what it has decided; rows are
\* not locked between.

Written(k, row) == key' = [key EXCEPT ![k] = row]

CreateKey(k) ==
  /\ key[k] = Absent /\ calls[k] = 0 /\ clicks < MaxClicks /\ clicks' = clicks + 1
  /\ Written(k, [status |-> "active", token |-> 1, failures |-> 0, recent |-> FALSE, gone |-> FALSE])
  /\ UNCHANGED <<calls, job, cost, thread, form, failures>>

FormOpens(f) ==
  /\ form = Idle /\ clicks < MaxClicks /\ clicks' = clicks + 1
  /\ form' = f
  /\ UNCHANGED <<key, calls, job, cost, thread, failures>>

Toggles(k) == k \in Live /\ FormOpens([pc |-> "toggle", key |-> k, was |-> key[k].status])

\* A token is not replaced while costs of the key are pending.
MayReplace(k) == PendingOf(k) = {}

Updates(k, replace) ==
  /\ k \in Live /\ (replace => MayReplace(k) /\ key[k].token < MaxTokens)
  /\ FormOpens([pc |-> "update", key |-> k, replace |-> replace])

\* Mutation of KeepsRow: only jobs are looked at.
KeepsRowForJobs(k) == UsedBy(k) # {}
\* A key that jobs or pending costs need is only marked.
KeepsRow(k) == UsedBy(k) # {} \/ PendingOf(k) # {}

Deletes(k) == k \in Live /\ FormOpens([pc |-> "delete", key |-> k, mark |-> KeepsRow(k)])

FormWrites ==
  LET k == form.key
  IN /\ form # Idle /\ form' = Idle
     /\ \/ /\ form.pc = "toggle" /\ k \in Live
           /\ IF form.was = "active" THEN Written(k, [key[k] EXCEPT !.status = "disabled"])
              ELSE Written(k, [key[k] EXCEPT !.status = "active", !.failures = 0, !.recent = FALSE])
        \/ /\ form.pc = "update" /\ k \in Live
           /\ Written(k, [key[k] EXCEPT !.failures = 0, !.recent = FALSE,
                                        !.token = IF form.replace THEN @ + 1 ELSE @])
        \/ /\ form.pc = "delete" /\ form.mark /\ k \in Live
           /\ Written(k, [key[k] EXCEPT !.status = "deleted", !.gone = TRUE])
        \/ /\ form.pc = "delete" /\ ~form.mark
           /\ Written(k, IF JobsKeep(k) THEN key[k] ELSE Absent)
     /\ UNCHANGED <<calls, job, cost, thread, clicks, failures>>

--------------------------------------------------------------------------------
Init ==
  /\ key = [k \in Keys |-> Absent] /\ calls = [k \in Keys |-> 0]
  /\ job = [j \in Jobs |-> NoJob] /\ cost = [j \in Jobs |-> NoCost]
  /\ thread = [j \in Jobs |-> Idle] /\ form = Idle /\ clicks = 0 /\ failures = 0

WorkerNext(j) ==
  \/ CreatesJob(j) \/ SubmitStarts(j) \/ SubmitSucceeds(j) \/ QueryStarts(j) \/ CostEnds(j)
  \/ \E b \in BOOLEAN : SubmitFails(j, b) \/ QueryEnds(j, b) \/ QueryFails(j, b)

Next ==
  \/ \E j \in Jobs : WorkerNext(j) \/ DeleteJob(j) \/ \E k \in Keys : Chooses(j, k)
  \/ \E k \in Keys : \/ CreateKey(k) \/ Toggles(k) \/ Deletes(k) \/ CooldownEnds(k)
                     \/ \E replace \in BOOLEAN : Updates(k, replace)
  \/ FormWrites

Spec == Init /\ [][Next]_vars

--------------------------------------------------------------------------------
\* A job always has a key, however deletions fall between the choice of the key and the
\* insertion of the job: the worker's "Provider key missing" is never reached.
JobHasKey ==
  \A j \in Jobs : job[j] # NoJob => job[j].key \in Live

\* The key of a cost that is still pending stays, so that it can be settled, even if the
\* job was deleted: delete_provider_key_form counts both.
PendingHasKey ==
  \A j \in Jobs : cost[j].state = "pending" => cost[j].key \in Live

\* Both uses of a channel the deletion form counts.
UsedKeyStays == JobHasKey /\ PendingHasKey
================================================================================
