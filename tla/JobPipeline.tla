------------------------------- MODULE JobPipeline -------------------------------
(*
The life of a user's video jobs: the rows of table jobs, the threads of the
background worker that submit, poll and download (services/worker_*.py), the status
checks the web process starts on a click, and the routes by which users and
administrators pause, resume, re-download and delete (api/user, api/admin). The
quota books of module Quota move with them, in the same transactions.

A thread of the worker or a route reads a job row into memory, may wait for the
upstream service or for another transaction, and writes the columns it changed
against what it read. Such a thread keeps its row in a `seen` field until it writes.
A transaction that locks the row as it reads it, or holds the advisory lock and
commits at once, is one action.
The worker's per-job advisory lock lasts until the first commit of the transaction
that took it, so only a status check that has nothing to commit before it calls
upstream holds it across the call (`held`).
Clocks are not modelled: what becomes due, or stale, may do so at any moment.
*)
EXTENDS Quota

CONSTANTS MaxTasks,       \* bound: upstream tasks one job may cause
          MaxSubmit,      \* setting submit_max_attempts
          MaxDownloads,   \* entries of setting download_retry_delays_seconds
          MaxFaults,      \* bound: crashes and failed transactions
          MaxClicks,      \* bound: user and administrator requests on jobs
          LateAnswers     \* may an upstream answer come after the stale cutoff

ASSUME PipelineAssumption ==
  /\ {MaxTasks, MaxSubmit, MaxDownloads} \subseteq Nat \ {0}
  /\ MaxFaults \in Nat /\ MaxClicks \in Nat /\ LateAnswers \in BOOLEAN

VARIABLES job,      \* job[j]: the columns of the row that steer it
          events,   \* events[j]: the job_events types the code looks up later
          record,   \* record[j]: task whose video the output JobFile row names, or 0
          files,    \* files[j]: tasks whose video is on disk
          task,     \* task[j][k]: state of the k-th upstream task of job j
          sub,      \* sub[j]: the worker's submit thread
          poll,     \* poll[p][j]: a status check run by process p
          dl,       \* dl[j]: the worker's download thread
          op,       \* op[j]: an unlocked read-then-write under way
          kicked,   \* kicked[j]: schedule_job_now has queued a check in the web process
          up,       \* is the worker process running
          faults, clicks

rowVars == <<job, events>>
outputVars == <<record, files>>
threadVars == <<sub, poll, dl, op>>
pipelineVars == <<job, events, record, files, task, sub, poll, dl, op, kicked, up,
                  faults, clicks>>
vars == <<pipelineVars, quotaVars>>

Pollers == {"worker", "web"}
Tasks == 1..MaxTasks
NoTask == 0

PollableStatuses == {"submitted", "polling"}
DownloadableStatuses == {"remote_completed", "download_waiting"}
ResultStatuses == DownloadableStatuses \cup {"downloading"}
REDOWNLOAD_ALLOWED == ResultStatuses \cup {"download_failed"}
RESUME_ALLOWED == PollableStatuses \cup REDOWNLOAD_ALLOWED \cup {"interrupted", "failed"}
PAUSE_ALLOWED == PollableStatuses \cup REDOWNLOAD_ALLOWED \cup {"failed"}
LiveStatuses == {"queued", "submitting"} \cup PollableStatuses \cup ResultStatuses
EndStatuses == {"completed", "failed", "download_failed", "interrupted"}
Absent == {"none", "deleted"}

Idle == [pc |-> "idle"]

Exists(j) == job[j].status \notin Absent
LockFree(j) == \A p \in Pollers : poll[p][j].pc = "asking" => ~poll[p][j].held
Confirmed(j) == "remote_completed" \in events[j]
Saturated(n, bound) == AtMost(n + 1, bound)

\* What is left in the table when a session writes new over a row it had read as seen.
Flush(row, seen, new) ==
  [column \in DOMAIN row |-> IF new[column] = seen[column] THEN row[column] ELSE new[column]]

\* The row of job j is overwritten, unless it was deleted: then the flush fails.
Write(j, seen, new) ==
  job' = [job EXCEPT ![j] = IF Exists(j) THEN Flush(@, seen, new) ELSE @]

\* Mutation of Pending: jobs with an upstream task count as well.
Unfinished(row) == row.status \in LiveStatuses

\* job.status in {"queued", "submitting"} and not job.remote_task_id
Pending(row) == row.status \in {"queued", "submitting"} /\ row.remote = NoTask

\* refund_failed_job_quota, which pays back a charged unit and otherwise does nothing
Refund(j) == IF reservation[j].status = "charged" THEN RefundFailedJob(j)
                                                  ELSE UNCHANGED quotaVars

--------------------------------------------------------------------------------
\* Creation and submission.

CreateJob(j) ==
  /\ job[j].status = "none"
  /\ ReserveQuota(j)
  /\ job' = [job EXCEPT ![j].status = "queued"]
  /\ UNCHANGED <<events, outputVars, task, threadVars, kicked, up, faults, clicks>>

\* submit_queued_job up to the upstream call: the row is read FOR UPDATE and the
\* attempt committed, which also gives the advisory lock back.
SubmitStart(j) ==
  LET started == [job[j] EXCEPT !.status = "submitting", !.submits = Saturated(@, MaxSubmit)]
  IN /\ up /\ sub[j] = Idle /\ job[j].status = "queued" /\ LockFree(j)
     /\ job' = [job EXCEPT ![j] = started]
     /\ sub' = [sub EXCEPT ![j] = [pc |-> "posting", seen |-> started]]
     /\ UNCHANGED <<quotaVars, events, outputVars, task, poll, dl, op, kicked, up, faults, clicks>>

\* Mutation of SubmitRejected: the unit is not released.
SubmitRejectedUnreleased(j) ==
  /\ up /\ sub[j] = Idle /\ job[j].status = "queued" /\ LockFree(j)
  /\ job' = [job EXCEPT ![j].status = "failed"]
  /\ UNCHANGED <<quotaVars, events, outputVars, task, threadVars, kicked, up, faults, clicks>>

\* The same with a provider key that is missing or inactive.
SubmitRejected(j) ==
  /\ up /\ sub[j] = Idle /\ job[j].status = "queued" /\ LockFree(j)
  /\ ReleaseForJob(j, Pending(job[j]))
  /\ job' = [job EXCEPT ![j].status = "failed"]
  /\ UNCHANGED <<events, outputVars, task, threadVars, kicked, up, faults, clicks>>

\* Upstream accepts the request: it starts a task, or answers with one it started
\* before, should it honour the Idempotency-Key of the job.
PostAccepted(j) ==
  /\ sub[j].pc = "posting"
  /\ \E k \in Tasks :
       /\ \/ /\ \A i \in Tasks : task[j][i] = "none" <=> i >= k
             /\ task' = [task EXCEPT ![j][k] = "running"]
          \/ task[j][k] # "none" /\ UNCHANGED task
       /\ sub' = [sub EXCEPT ![j] = [pc |-> "accepted", seen |-> @.seen, task |-> k]]
  /\ UNCHANGED <<quotaVars, rowVars, outputVars, poll, dl, op, kicked, up, faults, clicks>>

\* The call fails, upstream refuses, or the answer of a request it accepted is lost:
\* _fail_submit writes over the row as the thread remembers it, without reading it again.
SubmitFails(j, retryable) ==
  LET seen == sub[j].seen
      retry == retryable /\ seen.submits < MaxSubmit
  IN /\ sub[j].pc = "posting" \/ (sub[j].pc = "accepted" /\ retryable)
     /\ sub' = [sub EXCEPT ![j] = Idle]
     /\ Write(j, seen, [seen EXCEPT !.status = IF retry THEN "queued" ELSE "failed"])
     /\ IF retry \/ ~Exists(j) THEN UNCHANGED quotaVars ELSE ReleaseForJob(j, Pending(seen))
     /\ UNCHANGED <<events, outputVars, task, poll, dl, op, kicked, up, faults, clicks>>

\* The task id is stored and the unit charged in one commit. The row is locked now
\* but not refreshed, and its status is not looked at. A unit that is neither held
\* nor charged makes charge_reserved_quota raise, and the job fails.
SubmitCommit(j) ==
  LET seen == sub[j].seen
      chargeable == reservation[j].status \in {"reserved", "charged"}
  IN /\ sub[j].pc = "accepted"
     /\ sub' = [sub EXCEPT ![j] = Idle]
     /\ Write(j, seen, [seen EXCEPT !.status = IF chargeable THEN "submitted" ELSE "failed",
                                    !.remote = sub[j].task, !.full = FALSE])
     /\ IF reservation[j].status = "reserved" THEN ChargeReserved(j) ELSE UNCHANGED quotaVars
     /\ UNCHANGED <<events, outputVars, task, poll, dl, op, kicked, up, faults, clicks>>

\* The submit thread raises (a deadlock victim, a lost connection): its wrapper reads
\* the row afresh and queues it again.
SubmitBreaks(j) ==
  /\ sub[j] # Idle /\ faults < MaxFaults
  /\ sub' = [sub EXCEPT ![j] = Idle]
  /\ job' = [job EXCEPT ![j].status =
       IF @ = "submitting" /\ job[j].remote = NoTask THEN "queued" ELSE @]
  /\ faults' = faults + 1
  /\ UNCHANGED <<quotaVars, events, outputVars, task, poll, dl, op, kicked, up, clicks>>

\* The wrapper's own transaction fails as well: the job stays "submitting".
SubmitLost(j) ==
  /\ sub[j] # Idle /\ faults < MaxFaults
  /\ sub' = [sub EXCEPT ![j] = Idle]
  /\ faults' = faults + 1
  /\ UNCHANGED <<quotaVars, rowVars, outputVars, task, poll, dl, op, kicked, up, clicks>>

--------------------------------------------------------------------------------
\* The upstream service finishes a task.

UpstreamFinishes(j, k, outcome) ==
  /\ task[j][k] = "running"
  /\ task' = [task EXCEPT ![j][k] = outcome]
  /\ UNCHANGED <<quotaVars, rowVars, outputVars, threadVars, kicked, up, faults, clicks>>

--------------------------------------------------------------------------------
\* process_job: the worker runs it for every active job it has no thread on, the web
\* process once after a click.

MayProcess(p, j) ==
  /\ poll[p][j] = Idle /\ LockFree(j) /\ job[j].status \in PollableStatuses
  /\ IF p = "worker" THEN up ELSE kicked[j]

AfterStart(p, j) == IF p = "web" THEN [kicked EXCEPT ![j] = FALSE] ELSE kicked

\* A job known to be done upstream goes on to its download.
ProcessResumesDownload(p, j) ==
  /\ MayProcess(p, j) /\ (Confirmed(j) \/ job[j].full)
  /\ job' = [job EXCEPT ![j].status = "remote_completed"]
  /\ kicked' = AfterStart(p, j)
  /\ UNCHANGED <<quotaVars, events, outputVars, task, threadVars, up, faults, clicks>>

\* Otherwise the status of its task is asked for. The row was read without FOR
\* UPDATE, and the advisory lock is kept only when no event is committed first.
PollStart(p, j) ==
  /\ MayProcess(p, j) /\ ~Confirmed(j) /\ ~job[j].full
  /\ \E held \in BOOLEAN :
       poll' = [poll EXCEPT ![p][j] = [pc |-> "asking", seen |-> job[j], held |-> held,
                                       was |-> task[j][job[j].remote]]]
  /\ kicked' = AfterStart(p, j)
  /\ UNCHANGED <<quotaVars, rowVars, outputVars, task, sub, dl, op, up, faults, clicks>>

\* The answer tells the state the task had at some moment of the call.
Answers(p, j) == {poll[p][j].was, task[j][poll[p][j].seen.remote]}

PollEnds(p, j) ==
  /\ poll[p][j].pc = "asking"
  /\ poll' = [poll EXCEPT ![p][j] = Idle]
  /\ UNCHANGED <<outputVars, task, sub, dl, op, kicked, up, faults, clicks>>

\* A transport error, or one the code takes for transient, only leaves an event.
PollError(p, j) == PollEnds(p, j) /\ UNCHANGED <<quotaVars, rowVars>>

\* A status the code does not know counts as running, and may come with progress 100.
PollProcessing(p, j) ==
  LET seen == poll[p][j].seen
  IN /\ PollEnds(p, j) /\ "running" \in Answers(p, j)
     /\ \E full \in BOOLEAN :
          Write(j, seen, [seen EXCEPT !.status = "polling", !.full = @ \/ full])
     /\ UNCHANGED <<quotaVars, events>>

\* After content_fallback_after_seconds a task still reported as running is tried anyway.
PollFallback(p, j) ==
  LET seen == poll[p][j].seen
  IN /\ PollEnds(p, j) /\ "running" \in Answers(p, j) /\ Exists(j)
     /\ Write(j, seen, [seen EXCEPT !.status = "remote_completed"])
     /\ events' = [events EXCEPT ![j] = @ \cup {"content_fallback"}]
     /\ UNCHANGED quotaVars

\* A known running status with progress 100 or a result address counts as completed too:
\* a task is "done" here from the moment upstream answers so.
PollCompleted(p, j) ==
  LET seen == poll[p][j].seen
  IN /\ PollEnds(p, j) /\ "done" \in Answers(p, j) /\ Exists(j)
     /\ Write(j, seen, [seen EXCEPT !.status = "remote_completed", !.full = TRUE])
     /\ events' = [events EXCEPT ![j] = @ \cup {"remote_completed"}]
     /\ UNCHANGED quotaVars

PollFailed(p, j) ==
  LET seen == poll[p][j].seen
  IN /\ PollEnds(p, j) /\ "failed" \in Answers(p, j) /\ Exists(j)
     /\ \E full \in BOOLEAN :
          Write(j, seen, [seen EXCEPT !.status = "failed", !.full = @ \/ full])
     /\ Refund(j)
     /\ UNCHANGED events

\* Any HTTP error but the transient ones that comes with a failure body ends the job,
\* whatever its task is doing and whoever has booked its video since the row was read.
PollRefused(p, j) ==
  LET seen == poll[p][j].seen
  IN /\ PollEnds(p, j) /\ Exists(j)
     /\ Write(j, seen, [seen EXCEPT !.status = "failed"])
     /\ Refund(j)
     /\ UNCHANGED events

\* A check whose job was deleted meanwhile fails at its flush; one the web process
\* finds not due, or the lock taken, ends at once.
PollVoid(p, j) == PollEnds(p, j) /\ ~Exists(j) /\ UNCHANGED <<quotaVars, rowVars>>

KickEnds(j) ==
  /\ kicked[j]
  /\ kicked' = [kicked EXCEPT ![j] = FALSE]
  /\ UNCHANGED <<quotaVars, rowVars, outputVars, task, threadVars, up, faults, clicks>>

--------------------------------------------------------------------------------
\* download_remote_job. The claim, under the advisory lock and FOR UPDATE:

Claimable(j) ==
  up /\ dl[j] = Idle /\ LockFree(j) /\ job[j].status \in DownloadableStatuses

\* Mutation of BudgetLeft: one attempt too many.
BudgetOffByOne(j) == job[j].downloads <= MaxDownloads

\* download_attempts has not used up the retry list.
BudgetLeft(j) == job[j].downloads < MaxDownloads

\* Mutation of OnDisk: an existing file is not looked for.
NeverOnDisk(j) == FALSE

\* The video of the current task lies at the path the job's row determines.
OnDisk(j) == job[j].remote \in files[j]

\* Mutation of Complete: no JobFile row is written.
CompleteUnrecorded(j) ==
  job' = [job EXCEPT ![j] = [@ EXCEPT !.status = "completed", !.full = TRUE]] /\ UNCHANGED record

Complete(j) ==
  /\ job' = [job EXCEPT ![j] = [@ EXCEPT !.status = "completed", !.full = TRUE]]
  /\ record' = [record EXCEPT ![j] = job[j].remote]

Claim(j, status) ==
  /\ Claimable(j) /\ ~OnDisk(j)
  /\ job' = [job EXCEPT ![j].status = status]
  /\ UNCHANGED <<quotaVars, events, outputVars, task, threadVars, kicked, up, faults, clicks>>

ClaimFindsFile(j) ==
  /\ Claimable(j) /\ OnDisk(j)
  /\ Complete(j)
  /\ UNCHANGED <<quotaVars, events, files, task, threadVars, kicked, up, faults, clicks>>

\* A fallback the code now holds for premature.
FallbackUnconfirmed(j) == "content_fallback" \in events[j] /\ ~Confirmed(j)
ClaimRestoresPolling(j) == FallbackUnconfirmed(j) /\ Claim(j, "polling")

ClaimExhausted(j) == ~BudgetLeft(j) /\ Claim(j, "download_failed")

ClaimWaits(j) == BudgetLeft(j) /\ Claim(j, "download_waiting")

ClaimStarts(j) ==
  /\ Claimable(j) /\ ~OnDisk(j) /\ BudgetLeft(j)
  /\ job' = [job EXCEPT ![j].status = "downloading", ![j].downloads = @ + 1]
  /\ dl' = [dl EXCEPT ![j] = [pc |-> "transferring", task |-> job[j].remote]]
  /\ events' = [events EXCEPT ![j] = @ \ {"download_error"}]
  /\ UNCHANGED <<quotaVars, outputVars, task, sub, poll, op, kicked, up, faults, clicks>>

\* The transfer puts the finished file in place before the result is booked.
DownloadSaved(j) ==
  /\ dl[j].pc = "transferring" /\ task[j][dl[j].task] = "done"
  /\ dl' = [dl EXCEPT ![j].pc = "saved"]
  /\ files' = [files EXCEPT ![j] = @ \cup {dl[j].task}]
  /\ UNCHANGED <<quotaVars, rowVars, record, task, sub, poll, op, kicked, up, faults, clicks>>

\* The result counts if the lock is free, the job still asks for this task, and no
\* other thread has moved it on.
ResultApplies(j) ==
  LockFree(j) /\ job[j].remote = dl[j].task /\ job[j].status \in ResultStatuses

Result(j, pc) ==
  /\ dl[j].pc = pc
  /\ dl' = [dl EXCEPT ![j] = Idle]
  /\ UNCHANGED <<files, task, sub, poll, op, kicked, up, faults, clicks>>

DownloadBooked(j) ==
  Result(j, "saved") /\ ResultApplies(j) /\ Complete(j)
  /\ UNCHANGED <<quotaVars, events>>

\* Otherwise it ends without effect.
DownloadDropped(j) ==
  /\ \E pc \in {"transferring", "saved"} : Result(j, pc)
  /\ ~ResultApplies(j)
  /\ UNCHANGED <<quotaVars, rowVars, record>>

Failure(j, status, downloads) ==
  /\ Result(j, "transferring") /\ ResultApplies(j)
  /\ job' = [job EXCEPT ![j].status = status, ![j].downloads = downloads]
  /\ UNCHANGED record

\* A slow transfer made progress: it is continued without using up the attempt.
DownloadPartial(j) ==
  /\ Failure(j, "download_waiting", AtLeastZero(job[j].downloads - 1))
  /\ UNCHANGED <<quotaVars, events>>

DownloadNotReady(j) ==
  /\ Failure(j, "polling", AtLeastZero(job[j].downloads - 1))
  /\ UNCHANGED <<quotaVars, events>>

\* Mutation of DownloadRefused: no refund.
RefusedUnpaid(j) ==
  Failure(j, "failed", job[j].downloads) /\ UNCHANGED <<quotaVars, events>>

\* An error with a failure body is believed, whatever the task is doing.
DownloadRefused(j) ==
  Failure(j, "failed", job[j].downloads) /\ Refund(j) /\ UNCHANGED events

\* It is true of a task that failed.
DownloadFindsTaskFailed(j) ==
  dl[j].pc = "transferring" /\ task[j][dl[j].task] = "failed" /\ DownloadRefused(j)

\* Any other error: another attempt, or after the last one the refund.
DownloadError(j) ==
  /\ events' = [events EXCEPT ![j] = @ \cup {"download_error"}]
  /\ IF BudgetLeft(j)
     THEN Failure(j, "download_waiting", job[j].downloads) /\ UNCHANGED quotaVars
     ELSE Failure(j, "download_failed", job[j].downloads) /\ Refund(j)

\* The thread raises anything but an upstream error, or its last transaction fails.
DownloadBreaks(j) ==
  /\ dl[j] # Idle /\ faults < MaxFaults
  /\ dl' = [dl EXCEPT ![j] = Idle]
  /\ faults' = faults + 1
  /\ UNCHANGED <<quotaVars, rowVars, outputVars, task, sub, poll, op, kicked, up, clicks>>

--------------------------------------------------------------------------------
\* The recovery scans of the worker loop. Each selects its rows without a lock, takes
\* their advisory locks one by one and writes; the later FOR UPDATE does not refresh a
\* row the session has already loaded, so all of them act on the row as selected.

\* Mutation of StaleSubmitting: only with attempts left.
StaleFirstTry(row) == row.status = "submitting" /\ row.submits < MaxSubmit

\* The cutoff for a submission lies a minute past the HTTP timeout, so a thread that
\* still waits for its answer then is possible only with LateAnswers.
StaleSubmitting(row) == row.status = "submitting" /\ row.remote = NoTask

ScanRead(j) ==
  /\ up /\ op[j] = Idle
  /\ \/ StaleSubmitting(job[j]) /\ (LateAnswers \/ sub[j] = Idle)
     \/ job[j].status \in ResultStatuses
  /\ op' = [op EXCEPT ![j] = [pc |-> "scan", seen |-> job[j]]]
  /\ UNCHANGED <<quotaVars, rowVars, outputVars, task, sub, poll, dl, kicked, up, faults, clicks>>

ScanEnds(j) ==
  /\ op[j].pc = "scan"
  /\ op' = [op EXCEPT ![j] = Idle]
  /\ UNCHANGED <<quotaVars, events, files, task, sub, poll, dl, kicked, up, faults, clicks>>

\* The lock is taken, the row is gone, or another scan had it.
ScanSkips(j) == ScanEnds(j) /\ UNCHANGED <<job, record>>

\* recover_stale_submitting_jobs
RecoverSubmitting(j) ==
  LET seen == op[j].seen
  IN /\ ScanEnds(j) /\ LockFree(j) /\ StaleSubmitting(seen)
     /\ Write(j, seen, [seen EXCEPT !.status = "queued"])
     /\ UNCHANGED record

\* complete_jobs_with_existing_output_files
CompleteExisting(j) ==
  LET seen == op[j].seen
  IN /\ ScanEnds(j) /\ LockFree(j) /\ Exists(j)
     /\ seen.status \in ResultStatuses /\ seen.remote \in files[j]
     /\ Write(j, seen, [seen EXCEPT !.status = "completed", !.full = TRUE])
     /\ record' = [record EXCEPT ![j] = seen.remote]

\* recover_stale_downloading_jobs, which skips a row with an error since its claim.
RecoverDownloading(j) ==
  LET seen == op[j].seen
  IN /\ ScanEnds(j) /\ LockFree(j) /\ Exists(j)
     /\ seen.status = "downloading" /\ "download_error" \notin events[j]
     /\ Write(j, seen, [seen EXCEPT !.status = "remote_completed",
                                    !.downloads = AtLeastZero(@ - 1)])
     /\ UNCHANGED record

--------------------------------------------------------------------------------
\* Crash and restart of the worker process.

WorkerCrash ==
  /\ up /\ faults < MaxFaults
  /\ up' = FALSE /\ faults' = faults + 1
  /\ sub' = [j \in Jobs |-> Idle] /\ dl' = [j \in Jobs |-> Idle]
  /\ poll' = [poll EXCEPT !["worker"] = [j \in Jobs |-> Idle]]
  /\ op' = [j \in Jobs |-> IF op[j].pc = "scan" THEN Idle ELSE op[j]]
  /\ UNCHANGED <<quotaVars, rowVars, outputVars, task, kicked, clicks>>

\* Mutation of Recovered: nothing is queued again.
RecoveredAsInterrupted(row) ==
  IF row.status \in {"submitting", "downloading"} THEN [row EXCEPT !.status = "interrupted"]
                                                  ELSE row

\* mark_inflight_jobs_interrupted
Recovered(row) ==
  CASE row.status \notin {"submitting", "downloading"} -> row
    [] row.status = "submitting" /\ row.remote = NoTask -> [row EXCEPT !.status = "queued"]
    [] row.status = "downloading" /\ row.remote # NoTask -> [row EXCEPT !.status = "remote_completed"]
    [] OTHER -> [row EXCEPT !.status = "interrupted"]

WorkerStart ==
  /\ ~up /\ up' = TRUE
  /\ job' = [j \in Jobs |-> Recovered(job[j])]
  /\ UNCHANGED <<quotaVars, events, outputVars, task, threadVars, kicked, faults, clicks>>

--------------------------------------------------------------------------------
\* Requests of users and administrators.

Click(j) == Exists(j) /\ clicks < MaxClicks /\ clicks' = clicks + 1

CanRedownload(j) ==
  /\ job[j].remote # NoTask
  /\ job[j].status \in REDOWNLOAD_ALLOWED \/ (job[j].status = "completed" /\ record[j] = NoTask)
CanResume(j) == job[j].remote # NoTask /\ job[j].status \in RESUME_ALLOWED
CanPause(j) == job[j].remote # NoTask /\ job[j].status \in PAUSE_ALLOWED

\* The row as the resume routes leave it.
Resumed(j) ==
  IF CanRedownload(j) \/ job[j].full \/ Confirmed(j)
  THEN [job[j] EXCEPT !.status = "remote_completed", !.downloads = 0]
  ELSE [job[j] EXCEPT !.status = "polling"]

\* The row as the user's redownload route leaves it.
Redownloaded(j) ==
  IF record[j] = NoTask /\ ~Confirmed(j)
  THEN [job[j] EXCEPT !.status = "polling", !.downloads = 0]
  ELSE [job[j] EXCEPT !.status = "remote_completed", !.downloads = 0, !.full = TRUE]

\* Routes that read the row without a lock and write it later.
OpRead(j, pc, new) ==
  /\ Click(j) /\ op[j] = Idle
  /\ op' = [op EXCEPT ![j] = [pc |-> pc, seen |-> job[j], new |-> new]]
  /\ UNCHANGED <<quotaVars, rowVars, outputVars, task, sub, poll, dl, kicked, up, faults>>

PauseRead(j) == CanPause(j) /\ OpRead(j, "pause", [job[j] EXCEPT !.status = "interrupted"])
RedownloadRead(j) == CanRedownload(j) /\ OpRead(j, "redownload", Redownloaded(j))
AdminResumeRead(j) == (CanRedownload(j) \/ CanResume(j)) /\ OpRead(j, "resume", Resumed(j))
BulkDeleteRead(j) == OpRead(j, "delete", job[j])

\* The flush of what was read.
OpWrite(j) ==
  /\ op[j].pc \in {"pause", "redownload", "resume"} /\ Exists(j)
  /\ op' = [op EXCEPT ![j] = Idle]
  /\ Write(j, op[j].seen, op[j].new)
  /\ kicked' = [kicked EXCEPT ![j] = @ \/ op[j].pc = "resume"
                   \/ (op[j].pc = "redownload" /\ op[j].new.status = "remote_completed")]
  /\ UNCHANGED <<quotaVars, events, outputVars, task, sub, poll, dl, up, faults, clicks>>

OpVoid(j) ==
  /\ op[j].pc \in {"pause", "redownload", "resume"} /\ ~Exists(j)
  /\ op' = [op EXCEPT ![j] = Idle]
  /\ UNCHANGED <<quotaVars, rowVars, outputVars, task, sub, poll, dl, kicked, up, faults, clicks>>

\* _delete_job; row is the job as the request read it.
Delete(j, row) ==
  /\ DeleteJobQuota(j, Pending(row))
  /\ job' = [job EXCEPT ![j].status = "deleted"]
  /\ events' = [events EXCEPT ![j] = {}]
  /\ record' = [record EXCEPT ![j] = NoTask]
  /\ files' = [files EXCEPT ![j] = @ \ {record[j]}]

\* The bulk deletes go through the list they read, whatever became of the rows.
BulkDeleteWrite(j) ==
  /\ op[j].pc = "delete"
  /\ Delete(j, op[j].seen)
  /\ op' = [op EXCEPT ![j] = Idle]
  /\ UNCHANGED <<task, sub, poll, dl, kicked, up, faults, clicks>>

\* Routes that lock the row first.
DeleteOne(j) ==
  /\ Click(j) /\ Delete(j, job[j])
  /\ UNCHANGED <<task, threadVars, kicked, up, faults>>

LockedWrite(j, new, kick) ==
  /\ Click(j)
  /\ job' = [job EXCEPT ![j] = new]
  /\ kicked' = [kicked EXCEPT ![j] = @ \/ kick]
  /\ UNCHANGED <<quotaVars, events, outputVars, task, threadVars, up, faults>>

UserResume(j) == (CanRedownload(j) \/ CanResume(j)) /\ LockedWrite(j, Resumed(j), TRUE)

AdminRedownload(j) ==
  /\ CanRedownload(j) /\ job[j].status \notin {"remote_completed", "downloading"}
  /\ LockedWrite(j, [job[j] EXCEPT !.status = "remote_completed", !.downloads = 0,
                                   !.full = TRUE], TRUE)

BatchRetryDownload(j) ==
  /\ job[j].status = "download_failed" /\ job[j].remote # NoTask
  /\ LockedWrite(j, [job[j] EXCEPT !.status = "remote_completed", !.downloads = 0], FALSE)

--------------------------------------------------------------------------------
NewRow == [status |-> "none", remote |-> NoTask, submits |-> 0, downloads |-> 0, full |-> FALSE]

PipelineInit ==
  /\ QuotaInit
  /\ job = [j \in Jobs |-> NewRow]
  /\ events = [j \in Jobs |-> {}]
  /\ record = [j \in Jobs |-> NoTask] /\ files = [j \in Jobs |-> {}]
  /\ task = [j \in Jobs |-> [k \in Tasks |-> "none"]]
  /\ sub = [j \in Jobs |-> Idle] /\ dl = [j \in Jobs |-> Idle] /\ op = [j \in Jobs |-> Idle]
  /\ poll = [p \in Pollers |-> [j \in Jobs |-> Idle]]
  /\ kicked = [j \in Jobs |-> FALSE]
  /\ up = TRUE /\ faults = 0 /\ clicks = 0

SubmitNext(j) ==
  \/ CreateJob(j) \/ SubmitStart(j) \/ SubmitRejected(j) \/ PostAccepted(j)
  \/ \E retryable \in BOOLEAN : SubmitFails(j, retryable)
  \/ SubmitCommit(j) \/ SubmitBreaks(j) \/ SubmitLost(j)

PollNext(p, j) ==
  \/ ProcessResumesDownload(p, j) \/ PollStart(p, j)
  \/ PollError(p, j) \/ PollProcessing(p, j) \/ PollFallback(p, j)
  \/ PollCompleted(p, j) \/ PollFailed(p, j) \/ PollRefused(p, j) \/ PollVoid(p, j)

DownloadNext(j) ==
  \/ ClaimFindsFile(j) \/ ClaimRestoresPolling(j) \/ ClaimExhausted(j)
  \/ ClaimWaits(j) \/ ClaimStarts(j)
  \/ DownloadSaved(j) \/ DownloadBooked(j) \/ DownloadDropped(j) \/ DownloadPartial(j)
  \/ DownloadNotReady(j) \/ DownloadRefused(j) \/ DownloadError(j)
  \/ DownloadBreaks(j)

ScanNext(j) ==
  \/ ScanRead(j) \/ ScanSkips(j)
  \/ RecoverSubmitting(j) \/ CompleteExisting(j) \/ RecoverDownloading(j)

ClickNext(j) ==
  \/ PauseRead(j) \/ RedownloadRead(j) \/ AdminResumeRead(j) \/ BulkDeleteRead(j)
  \/ OpWrite(j) \/ OpVoid(j) \/ BulkDeleteWrite(j) \/ KickEnds(j)
  \/ DeleteOne(j) \/ UserResume(j) \/ AdminRedownload(j) \/ BatchRetryDownload(j)

UpstreamNext(j) == \E k \in Tasks, outcome \in {"done", "failed"} : UpstreamFinishes(j, k, outcome)

BooksNext == (WalletNext \/ PackageNext) /\ UNCHANGED pipelineVars

PipelineNext ==
  \/ \E j \in Jobs : \/ SubmitNext(j) \/ DownloadNext(j) \/ ScanNext(j)
                     \/ ClickNext(j) \/ UpstreamNext(j)
                     \/ \E p \in Pollers : PollNext(p, j)
  \/ WorkerCrash \/ WorkerStart
  \/ BooksNext

PipelineSpec == PipelineInit /\ [][PipelineNext]_vars

\* What the loop of the worker, its threads and the upstream service owe every job. A
\* thread that waits ends; the loop comes round to what it can do (WF). A job that
\* returns to the same point again and again is in the end asked about truthfully,
\* claimed when it is due, transferred or refused, and recovered when stale (SF):
\* upstream errors and progress without an end are not refused by the code.
Fairness ==
  /\ WF_vars(WorkerStart)
  /\ \A j \in Jobs :
       /\ WF_vars(SubmitStart(j) \/ SubmitRejected(j))
       /\ WF_vars(SubmitCommit(j) \/ \E retryable \in BOOLEAN : SubmitFails(j, retryable))
       /\ WF_vars(UpstreamNext(j))
       /\ WF_vars(PollStart("worker", j) \/ ProcessResumesDownload("worker", j))
       /\ \A p \in Pollers :
            WF_vars(PollError(p, j)) /\ SF_vars(PollCompleted(p, j) \/ PollFailed(p, j))
       /\ SF_vars(ClaimFindsFile(j) \/ ClaimStarts(j) \/ ClaimExhausted(j))
       /\ SF_vars(DownloadSaved(j) \/ DownloadFindsTaskFailed(j))
       /\ WF_vars(DownloadBooked(j) \/ DownloadDropped(j) \/ DownloadError(j))
       /\ WF_vars(ScanRead(j) \/ ScanSkips(j))
       /\ SF_vars(RecoverSubmitting(j) \/ RecoverDownloading(j))
       /\ WF_vars(OpWrite(j) \/ OpVoid(j) \/ BulkDeleteWrite(j))

FairPipelineSpec == PipelineSpec /\ Fairness

--------------------------------------------------------------------------------
\* Properties.

Statuses == Absent \cup LiveStatuses \cup EndStatuses
JobRow == [status : Statuses, remote : Tasks \cup {NoTask}, submits : 0..MaxSubmit,
           downloads : 0..MaxDownloads, full : BOOLEAN]
SubmitThread == {Idle} \cup [pc : {"posting"}, seen : JobRow]
                       \cup [pc : {"accepted"}, seen : JobRow, task : Tasks]
Poll == {Idle} \cup [pc : {"asking"}, seen : JobRow, held : BOOLEAN,
                     was : {"running", "done", "failed"}]
DownloadThread == {Idle} \cup [pc : {"transferring", "saved"}, task : Tasks]
Operation == {Idle} \cup [pc : {"scan"}, seen : JobRow]
  \cup [pc : {"pause", "redownload", "resume", "delete"}, seen : JobRow, new : JobRow]

\* Every row a thread writes back has columns the rest of the code can read, whatever
\* it was merged with: no status checks a job without an upstream task, and no chain of
\* retries, recoveries and restarts takes download_attempts past the retry list.
PipelineTypeOK ==
  /\ job \in [Jobs -> JobRow]
  /\ events \in [Jobs -> SUBSET {"remote_completed", "content_fallback", "download_error"}]
  /\ record \in [Jobs -> Tasks \cup {NoTask}] /\ files \in [Jobs -> SUBSET Tasks]
  /\ task \in [Jobs -> [Tasks -> {"none", "running", "done", "failed"}]]
  /\ sub \in [Jobs -> SubmitThread] /\ dl \in [Jobs -> DownloadThread]
  /\ poll \in [Pollers -> [Jobs -> Poll]] /\ op \in [Jobs -> Operation]
  /\ kicked \in [Jobs -> BOOLEAN] /\ up \in BOOLEAN
  /\ faults \in 0..MaxFaults /\ clicks \in 0..MaxClicks

\* The quota unit of a job follows its row through every interleaving of submission,
\* failure, recovery and clicks: held as long as the job waits for a task, returned
\* if it fails without one, spent (and perhaps refunded) once it has one.
UnitFollowsJob ==
  \A j \in Jobs :
    LET unit == reservation[j].status
    IN CASE job[j].status \in Absent -> unit = job[j].status
         [] Exists(j) /\ job[j].remote # NoTask -> unit \in {"charged", "refunded"}
         [] OTHER -> unit = IF job[j].status \in {"queued", "submitting"} THEN "reserved"
                                                                         ELSE "released"

\* A job whose upstream task failed has its unit back: no stale writer leaves it failed
\* with the unit spent.
FailedIsRefunded ==
  \A j \in Jobs : job[j].status = "failed" /\ job[j].remote # NoTask
                    => reservation[j].status = "refunded"

\* What is delivered can always be had again: whatever late checks and scans make of the
\* row, the video of its own task stays booked and on disk, with the progress of 100
\* that makes a resume find it instead of asking upstream; a download never gives up
\* on it.
DeliveredKeepsVideo ==
  \A j \in Jobs : Exists(j) /\ record[j] # NoTask =>
    /\ record[j] = job[j].remote /\ record[j] \in files[j]
    /\ job[j].full /\ job[j].status # "download_failed"

\* Status check p of job j asks without the lock, about a row that had no video yet.
Overlapped(p, j) == ~poll[p][j].held /\ ~poll[p][j].seen.full

\* A delivered job turns failed or is paid back in one case only: a status check that
\* runs without the lock since before the delivery is answered with an error. No check
\* that holds the lock, no later one, no download, scan or click does it.
OnlyRefusalsUndoDelivery ==
  [][\A j \in Jobs :
       /\ record[j] # NoTask
       /\ \/ job'[j].status = "failed" /\ job[j].status # "failed"
          \/ reservation'[j].status = "refunded" /\ reservation[j].status = "charged"
       => \E p \in Pollers : PollRefused(p, j) /\ Overlapped(p, j)]_vars

\* A completed job has the video of the very task its row names, even when a late
\* answer, a second submission and a slow download overlap.
CompletedHasItsVideo ==
  \A j \in Jobs : job[j].status = "completed"
                    => record[j] = job[j].remote /\ record[j] \in files[j]

\* Only a bulk delete that works from an old list can release a unit another job
\* holds; the worker, with all its stale rows, never does.
OnlyDeletesMisrelease ==
  [][misreleased' # misreleased => \E j \in Jobs : BulkDeleteWrite(j)]_vars

\* A job that is under way ends: completed, failed, paused or deleted. No crash, lost
\* transaction, lost answer or stale row strands it.
Settles ==
  \A j \in Jobs : (job[j].status \in LiveStatuses) ~> (job[j].status \notin LiveStatuses)

\* The claim of README.md ("failures are refunded") and of refund_failed_job_quota
\* ("refund one charged quota for a finally failed job"): no job stays failed, whether
\* upstream or in the download, with its unit spent.
FinallyFailedRefunded ==
  \A j \in Jobs :
    job[j].status \in {"failed", "download_failed"} /\ job[j].remote # NoTask
      => reservation[j].status = "refunded"
================================================================================
