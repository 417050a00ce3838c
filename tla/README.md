# Lumora video studio in TLA+

Models, model checks and proofs about this repository: how a video job is asked for,
queued, sent to an upstream channel, watched, downloaded and billed, how the quota unit it
costs is held, spent and returned on the way, and who may ask. Paths below are relative to
`src/app/` unless they name another directory.

## The system

A FastAPI web process and a worker process share a PostgreSQL database. There are no
queues and no messages between them: everything goes through rows, and a row may be read in
one transaction, kept in memory across an HTTP call of minutes, and written in another.

| Component | State | Operations | Modelled in |
|---|---|---|---|
| Quota: wallet, packages, reservations (`services/quota_plans.py`, `user_admin.py`, `jobs.py`) | `quota_wallets`, `user_quota_plan_assignments`, `job_quota_reservations`, two ledgers | grant, deduct, bind, unbind, refresh, custom amount, plan edit and toggle, reserve, charge, release, refund | `Quota` |
| Submission (`services/worker_submitter.py`) | `jobs` row, submit threads | start, post, commit or fail, retry | `JobPipeline` |
| Status polling (`services/worker_poller.py`, `worker_common.py`) | `jobs` row, events, threads of worker and web | poll, content fallback, failure with refund | `JobPipeline`, answers in `Adapter` |
| Download (`services/worker_downloader.py`, `sora_api.py`) | `jobs`, `job_files`, files and locks on disk, download pool | claim, transfer, resume, book, retry, give up | `JobPipeline`, `Transfer` |
| Recovery (`services/worker_recovery.py`, `workers/main.py`) | `jobs` row | start-up recovery, three scans of the loop | `JobPipeline` |
| Job actions (`api/user/routes.py`, `api/admin/routes.py`) | `jobs` row, web-side status checks | pause, resume, redownload, delete, bulk delete | `JobPipeline` |
| Scheduler limits (`services/worker_engine.py`) | four snapshots of a pass, futures of the worker | choose queued jobs under three limits | `Scheduler` |
| Batches, request ids, daily limit (`services/jobs.py`) | `job_batches`, `jobs.request_id`, row locks | create once per request id, extend, clean up | `Batches` |
| Regeneration (`services/job_regeneration.py`) | `retry_of_job_id` | replace failed jobs | `Batches`, `Creation` |
| Cost accounting (`services/cost_accounting.py`) | `job_costs`, revisions, accounting pool, log cache | register, back-fill, reconcile, recheck | `Billing` |
| Upstream adapters (`services/sora_api.py`, `flow_omni.py`, `oaire_omni.py`, `oaire_grok.py`) | none | build a request, read an answer | `Channels`, `Adapter` |
| Provider keys (`services/provider_keys.py`, `model_*.py`, admin forms) | `provider_keys`, call log | choose a key, count failures, edit, delete | `ProviderKeys`, `Channels`, `Creation` |
| Reference images, risk rules (`services/reference_images.py`, `risk_control.py`) | presets, rules | forms, check of prompts, resolution of materials | `Creation` |
| Accounts, sessions, quota requests (`api/auth`, `deps.py`, `services/user_admin.py`) | `users`, tokens, `quota_requests` | log in, register, change and reset passwords, status, role, delete, ask, review | `Accounts` |
| Settings, usage reports, library, start-up, pages | | | no, see the end |

What is hard here:

* **Rows across calls.** Sessions are opened with `autoflush=False` and
  `expire_on_commit=False` (`db.py`), and a second query of a row already loaded,
  even `FOR UPDATE`, does not refresh it. So a poll writes over what a click did
  while it waited, `submit_queued_job` commits on the row it loaded before the
  upstream call, the recovery scans act on rows as selected, a failure counter is
  written from an old value. What saves most of these is that a flush writes only the
  columns that changed against what was read.
* **A lock that is not held.** `_acquire_job_lock` takes a transaction-level
  advisory lock, gone at the first commit; `_release_job_lock` does nothing. A poll
  holds it across its HTTP call only if no `poll_request_started` event had to be
  committed first. A download result that finds it taken is thrown away.
* **Read, decide, write.** Limits are counted and jobs inserted later; forms check a
  count and write on the strength of it; a login verifies a password and issues its token
  afterwards. Most of these have no lock in between.
* **Crashes and lost answers.** The upstream service may have accepted a job whose
  task id was never committed. Start-up recovery and the stale scans put jobs back. A
  partial file outlives the process, and perhaps the address it came from.
* **Two processes** poll the same job: the worker's loop and the web process after
  a click (`schedule_job_now`). Only the worker downloads, but a second worker may overlap
  with it when a container is replaced.
* **One table of facts, written four times.** What a channel can do is known to the page,
  the forms, the regeneration and the request builders, each with code of its own.
* **Money.** Every path that ends a job must leave its unit where the row says, and
  every upstream charge must end in one cost.

## Modules

    JobQuota          what the quota subsystem promises (abstract)
      ^ implemented by
    Quota             the quota tables and every transaction part that writes them
      ^ extended by (EXTENDS), its job actions called from the handlers
    JobPipeline       rows, threads, upstream tasks, crashes, clicks

    Channels          what each channel can do, four times (definitions only)
      ^ extended by
    Creation          how a job comes to be queued, while administrators edit
      ^ extended by
    Adapter           its way through the upstream service

    Scheduler  Batches  Billing  ProviderKeys  Accounts  Transfer    each on its own

    MC<module>        instances for TLC
    PipelineProofs    theorems about Quota and JobPipeline
    SchedulerProofs  BatchesProofs  BillingProofs  KeysProofs  AccountsProofs
    TransferProofs  AdapterProofs                   theorems about the others

The modules that stand alone look at one component through a magnifying glass and keep of
the life of a job what that component can tell apart: JobPipeline's `Submit*`, `Poll*` and
`Download*` actions are `SubmitBegins`, `SubmitEnds` and `GenerationEnds` to the scheduler,
one `Claim`, `Receive`, `Book` chain to the transfer, `SubmitStarts` to `QueryEnds` to the
keys.

**JobQuota.** One unit per job: `none -> reserved -> charged -> refunded`,
`reserved -> released`, any of them `-> deleted`; the personal balance moves by one
with the charge and refund of a job that draws on the wallet, or by an
administrator's hand. `Quota` implements it under
`stage[j] <- reservation[j].status`, `source[j] <- reservation[j].source`,
`balance <- wallet.remaining`.

**Quota.** One user's tables, one action per function of `quota_plans.py`,
`user_admin.py` and the administrator's forms. Transactions lock the reservation and
then the package or wallet before they write, so each is one action, except the
custom-amount form (`CustomRead`, `CustomWrite`) and the bind form (`BindCheck`,
`BindInsert`), which read without a lock. `ReleaseForJob(j, pending)` has the branch
of `jobs.py:583-589` that takes a unit off the wallet for a job that holds none but
looks pending in the caller's row; `misreleased` counts these. `periodLedger` and
`lostEdit` are history variables: a package's ledger sum since its last refresh, and
the packages where a custom edit overwrote a booking.

**JobPipeline.** Per job: the row (`job`: status, remote task, attempts, whether
progress is 100), the events that later code looks up, the output file record and
the files on disk; the upstream tasks it caused; and its threads, each a record with
a program counter and the row as it read it: `sub` (submission), `poll[p]` (status
check of process p), `dl` (download), `op` (a route or recovery scan between its
read and its write). `Flush` is the ORM's column-wise write of a row read earlier
over the row as it is now. A handler that reads FOR UPDATE and commits without
leaving the database is one action. The quota actions are conjoined with the row's
change where the code does both in one transaction; `BooksNext` lets wallet and
packages change by themselves in between.

**Scheduler.** A pass of `_start_queued_jobs` reads the running jobs, the users' counts,
the channels' counts and the candidates in four steps (`pass.pc`), while jobs move, and
then hands jobs to submit threads (`future`, with `_SUBMIT_FUTURES`' clean-up). `returned`
remembers jobs that came back to their status checks by themselves or a click: those pass
the limits by design of the code, and the limits are stated without them.

**Batches.** Two web requests at once, each a transaction of several statements at READ
COMMITTED: every statement reads what is committed, and waits where a lock of the other
(user row, batch row, a unique value being inserted, a job row) makes it wait. A deadlock ends one of the two
(`RequestFails`). Administrators' clean-up and resume read and write in two steps. A job's
life is as coarse as a regeneration sees it: `generating` is every status in which work may
go on, `ended` completed or download_failed. `late` are the rows that a status check, a
recovery scan or the user's redownload has read while the task was under way or ended; what
they write (`LateWrites`) lands on whatever has become of the row, replaced or not.

**Billing.** The upstream's log of a token grows at one end and shows its last `window`
entries, through a cache; registrations, the back-fill, reconciliations (several steps,
with two upstream calls between them) and rechecks interleave on one row. `booked` is the sum of the revisions.
The order of `next_check_at` is a queue, since a pass takes the first two.

**ProviderKeys.** Rows loaded by threads and written back later; forms that count and
write. A token is a number, and a task can only be queried and billed with the one it was
posted with.

**Accounts.** A session is a token with a name and a version. An
account's password is the number of the latest, so that a session can remember which one
its owner has given. The name of a deleted account may be taken again (`Register`,
`CreateUser`, and `BootstrapAdmin` for the founder's): the new account is another row, at
version 0 again. `life`, the number of accounts the name has had, stands for its id; requests under
way refer to accounts by id, tokens do not (the `life` and `password` of a session are
known to the model only). Requests authenticate, read and write in separate steps where the
code does not lock.

**Transfer.** Worker processes with their pools, the lock that the system frees when a
process ends, and the three files of a download as sequences of the addresses their blocks
came from, so that a mixed file shows. Every write to disk is a step a crash may follow.

**Channels, Creation, Adapter.** `Channels` holds, for each channel and as separate
operators, what `model_options` offers, the forms check, the administrators' forms accept
and the request builders raise on. `Creation` runs a creation form through these checks
while keys, rules and presets are edited between its statements; `Adapter` submits, polls
and downloads the job, the upstream answering with any body its documents allow
(`Bodies`), HTTP errors included, which may come with a failure body whatever the task is
doing (`ErrorAnswers`). A form's input is chosen where the code first looks at
it, which gives the same behaviours with fewer states. A job's `row` is the model's memory
of the channel it was checked for, which "as long as nobody has edited the channel" refers
to; the program keeps none. A regeneration compares model, length and ratio only, so a job
regenerated under an edited channel was checked for no channel as a whole, and its `row` is
nobody's.

External, modelled from how the code uses it: the upstream service (a running task ends
done or failed; a POST starts a task or returns an earlier one, since the job's request id
is sent as Idempotency-Key; its log and its answers), its video addresses, and the end of a
process.

Abstractions, with their reasons:

* Clocks: whatever has a delay, a poll interval or a stale cutoff may happen at any
  moment. One exception is a constant: with `LateAnswers = FALSE` a submission is
  never called stale while its thread waits, which is what the cutoff (timeout + 60 s,
  at least 180 s) intends. It is not guaranteed: connect, write and each chunk read
  have their own timeouts and reference images are fetched first. With
  `LateAnswers = TRUE` the scan may come first: `recover_stale_submitting_jobs` then writes
  `queued` over a submission that commits in between, and the job is submitted twice.
  `UnitFollowsJob`, `FailedIsRefunded`, `DeliveredKeepsVideo`, `OnlyRefusalsUndoDelivery` and
  `CompletedHasItsVideo` fail there; `PromiseSpec` and `PipelineTypeOK` are proved for both,
  so the unit is charged once even so.
* `LateLinks` in `Adapter` is another: may the upstream say "completed" without a link in a
  documented field. With TRUE, `DeliversTheVideo` fails: `normalize_response` drops the echoed
  reference image, but `worker_common.py:255` finds its link in the stored raw answer, and
  it is downloaded as the video, which `flow_omni.py:28` says never happens. The run has FALSE,
  which is what the channels' documents show.
* One user in `Quota`, `JobPipeline`, `Batches` and `Creation`: what joins users are the
  limits of `Scheduler`, the packages are per user.
* One web process, which does not crash; its threads only check the status.
* At most one scan or unlocked route per job is between read and write at a time in
  `JobPipeline`. Scans run in one thread; two routes on one job at the same moment are left
  out.
* Jobs without a reservation row (before migration 0021), and output files removed
  by hand, are left out, and so are branches for a missing key or task id after
  submission, which no route can bring about for a live job (`UsedKeyStays`).
* A batch has at least one prompt: the forms refuse an empty list.
* A video is `Size` blocks, a size is a resolution and a ratio, a prompt is clean or has the
  word a rule hits, images are counted. Words and numbers of answers are kept as far as the
  code branches on them.

## Runs

| Run | Instance | Properties | What it asks |
|---|---|---|---|
| `packages` | 2 jobs, 1 plan, 1 binding, amounts 0..1, 1 wallet unit | `QuotaTypeOK`, `PackageHoldsCovered`, `WalletCovers`, `LedgersMatch`, `PromiseSpec` | do refreshes, edits and floors keep wallet and packages consistent with ledgers and holds; do the books implement `JobQuota` |
| `recovery` | 2 jobs, shared wallet, 1 task, 1 fault, 2 clicks | `PipelineTypeOK`, `FailedIsRefunded`, `DeliveredKeepsVideo`, `CompletedHasItsVideo`, `OnlyRefusalsUndoDelivery`, `OnlyDeletesMisrelease` | do stale writers lose a video or a unit, and which of them undoes a delivery; who can take another job's unit |
| `settles` | 1 job, 2 tasks, 2 submissions, 2 faults, with fairness | `UnitFollowsJob`, `Settles` | does the unit follow the row through crash and recovery, does every live job end |
| `finally_failed` | 1 job, 1 fault | `FinallyFailedRefunded` | violated, see below |
| `scheduler` | 4 jobs, 2 users, 2 channels, site limit 2, window of 2, 1 return, 1 fault, with fairness | `SchedulerInv`, `WithinLimits`, `QueueMoves` | do the limits hold over old counts; is a job starved behind a full window |
| `replays` | 2 requests, 1 batch of 2 prompts, 3 jobs, 1 click | `BatchesTypeOK`, `OneJobPerPrompt`, `RegenSeesTruth` | is a prompt ever made twice, does a regeneration commit on what it checked |
| `replaced` | 2 requests, 1 prompt, 3 jobs, 1 late writer at a time, 1 click | `RegenSeesTruth`, `ReplacedIsFinal` | do writers that read a row before it was replaced harm a regeneration; what may wake a replaced job |
| `billing` | 1 job, 2 tasks, 2 log entries, windows 1 and 3, 1 fault, 1 click, with fairness | `BillingTypeOK`, `RevisionsExplain`, `AmountIsItsLogs`, `FirstChargeKept`, `PendingIsWatched`, `Booked` | is a cost the sum of its entries, explained by its revisions, and decided in the end |
| `keys` | 2 keys, 2 jobs, threshold 1, 2 tokens, 4 forms, 2 failures | `UsedKeyStays` | can a deletion take a key that is needed |
| `accounts` | 2 names with 2 accounts each in turn, 2 requests, 2 quota requests, 8 forms | `SessionsKnowPassword`, `ReviewedOnce` | can a session outlive its password within its account, a request be granted twice |
| `transfer` | 2 jobs (one with its video), 2 processes, 2 addresses, 2 blocks, 2 attempts, pool of 1, 1 fault, 1 move, with fairness | `TransferTypeOK`, `PublishedWhole`, `PartHasOneSource`, `FailureEarned`, `DownloadEnds` | is a published file whole, is an attempt spent for nothing, does a download end |
| `adapter` | 1 key, 1 preset, 1 rule, 2 jobs, 2 forms, 2 submissions, with fairness | `QueuedIsSendable`, `OfferedIsAccepted`, `DeliversTheVideo`, `DoneOnlyIfFinished`, `MovesOn` | do the four tables of channels agree, are answers read for what they mean |

Bounds. A job's threads interact only through its own row and the quota tables, so
one job shows every interleaving of them; what jobs share is the wallet, for which
`packages` and `recovery` have two (`OthersWait` lets one at a time past the queue: two
jobs' threads have nothing else in common; `AllQueuedFirst` leaves wallet operations between
them to `packages`; `ClicksOrFaults` allows the second click only where nothing has gone
wrong). A fault and a click between any two steps reach every recovery path and every stale
write; `settles` has two of the former over longer chains of retries. Two tasks are enough
for a second submission, and a row holds only the latest. Amounts of 0 and 1 reach every
floor, lowering below the holds, and zero. In `scheduler` the first two jobs share a user and fill
the window, the others alternate so that each combination of a user and a channel
at its limit occurs; `MaxRunning` of 2 lets a full site, a full user and a full channel be
different states. In `replays` three ids are one more than the prompts, so that a
replacement or a double may be made; both sides of the daily limit occur. In `replaced` one
job, its replacement and that one's replacement are a chain in which each may be late, and
one late writer at a time meets every step of two requests. Two accounts a name in
`accounts` let tokens, requests and forms of the first meet the second. In `billing` a
window of 1 loses a first charge and one of 3 never does, which is all a window can do to
two entries; quotas of 2, 1 and -1 reach a correction and a refund past zero. It has one job, so
that a row is kept from the pool by other rows is not exercised: that no pending row falls
out of the order is (`PendingIsWatched`). Two
processes in `transfer` are what a restart can leave; two blocks are a beginning and an end
to resume between. In `adapter`, `KeyForms` has every channel and the forms that are
refused, lengths and counts the values on both sides of each limit; after submission one
size without images goes on (`TypicalOnceSent`), since nothing past it reads them, one job
is in flight at a time (`OneInFlight`), and a prompt has the word only where a rule
may hit it (`WordNeedsRule`). The theorems below need none of these bounds. Liveness is
checked
inside these constraints: a job that waits for ever does so too when the other one has not
been created or has failed, and those behaviours are all there.

Symmetry is used in safety runs only. Deadlock is not checked where the system stops by
itself: when faults, clicks, forms and grants are used up and all jobs have ended. It is
checked in `packages`.

Every property has a mutant in `PROJECT.json` that breaks it; the mutated operators
stand in the modules next to their originals, marked `Mutation of`.

## Findings

* `finally_failed`: README.md promises that failures are returned, and
  `refund_failed_job_quota` says so of "a finally failed job". A crash of the worker
  in the last download attempt breaks it: start-up recovery puts the job back to
  `remote_completed` without giving the attempt back, the next claim finds the list
  exhausted, and that path (`worker_downloader.py:95-103`) does not refund.

What the models show besides, where no run states a property because the code, its
documents and its tests promise none, or because the promise was narrowed to what holds:

* A stale scan that overtakes its submission (`LateAnswers`) and a link found in a stored
  raw answer (`LateLinks`), above.
* `worker_engine.py:224` queues a job again whose submission raised, without looking at its
  attempts. A Grok job whose key was turned into another channel raises in
  `create_video_request_summary` before every call: it returns for ever and keeps its unit.
  `QueuedIsSendable` and `MovesOn` are stated of channels nobody has edited.
* Two submissions at once exceed the daily limit (`jobs.py:288`), the channel's daily limit
  (`provider_keys.py:135`) and the number of pending quota requests
  (`user/routes.py:1099`). Jobs put back to their checks exceed `max_running_jobs`.
* A delivered job may turn failed and be paid back. A status check that holds no lock
  (a click's, beside the worker's) may be out while another check and the download finish the
  job; if it is then answered with a 401, 403 or 404 and an error body, `worker_poller.py:85-99`
  fails and refunds the job without looking at the row or the file. `OnlyRefusalsUndoDelivery`
  says that nothing else undoes a delivery, `DeliveredKeepsVideo` that the video stays and a
  resume finds it; the unit stays with the user.
* A job that has been replaced may run again. The administrator's resume does not ask
  (`admin/routes.py:2318`), and a status check, a scan or the user's redownload
  (`user/routes.py:1857-1882`) that read the row before it failed writes its own status over it
  (`worker_poller.py:155, 165, 172`). `ReplacedIsFinal` says that there is nothing else: once
  those have written, the job stays as it is.
* Whoever holds an unexpired token of a deleted account is let into the next account of that
  name when the versions agree: `create_user_with_wallet` (`user_admin.py:46-54`) and
  `ensure_bootstrap_admin` (`bootstrap.py:13-28`) start at version 0 again, and a token has
  only the name and the version (`security.py:23-26`, `deps.py:32-35`). `SessionsKnowPassword`
  is stated of sessions with the account they were issued for.
* A regeneration and a repeated submission may wait for each other's locks; only
  PostgreSQL's deadlock detection ends that, so no property is stated of it.
* Cleanup of empty batches may delete a batch that got its jobs after it was read
  (`admin/routes.py:2179`).
* A second task's registration keeps the first one's entries (`cost_accounting.py:60`): the
  amount is then not the task's own. `AmountIsItsLogs` and `FirstChargeKept` are stated of
  rows whose entries are their own (`OwnLogs`). A recheck that commits after an exclusion
  leaves a row that is due for ever and keeps a place of the pool (`Stuck` in `Booked`).
* A pending cost may outlive the token it was posted with, not its key
  (`admin/routes.py:1689`). Failure counters lose updates. The toggle form turns a deleted
  key active (`admin/routes.py:1654`).
* Two administrators who delete or demote each other at once can leave none
  (`admin/routes.py:1372`).
* With two worker processes a job may fail for good while the other process still
  transfers it; `FailureEarned` counts that transfer, and one whose booking was lost to a
  crash or a taken lock, which with two faults can be the attempt that ends the job.
* `worker_recovery.py:96` looks for
  `.part`, while transfers write `.download.part`: that clean-up finds nothing.

## Fairness

Threads that wait end, because every HTTP call has a timeout, and the loops come round to
what they can do: weak fairness. Strong fairness stands only where something may come
first again and again:

* `JobPipeline`: an answer about a finished task (an upstream that fails every poll, or
  reports running for ever, is not bounded by the code), a claim that is due
  (`download_waiting` between retries), a transfer that ends or finds the task failed
  (partial progress and "not ready" give their attempt back and may repeat), and the stale
  scans (skipped while the lock is taken).
* `Scheduler`: the stale scan between any two passes, where a submission goes stale again.
* `Billing`: weak throughout; the order of the queue does the rest, which is what `Booked`
  shows.
* `Transfer`: a place in the pool and a claim, since another job or the other process may
  take both whenever they are free; the loop asks again every pass.
* `Adapter`: a status query that is answered with how the task stands; any number of
  errors may come before.

Nothing is assumed of faults, clicks, forms or edits.

## Proofs

For all values of the constants under the named assumptions of each module (finite sets,
naturals, and what the name says):

* `QuotaTypeCorrect`: `QuotaSpec => []QuotaTypeOK`. Inductive as it stands; the proof
  has one step per action. The floors (`AtLeastZero`) carry it for packages; wallet
  columns rest on the guards.
* `WalletCovered`: `QuotaSpec => []WalletCovers`, that is `WalletHolds /\ NoOverdraft`:
  a charge takes one from the balance, and needs a hold to be covered; a deduction checks
  the balance against `reserved_quota`, and needs that to count the holds; neither is
  inductive alone. Lemmas `HoldsAfterReserve`, `HoldsAfterDrop`, `HoldsSame` say how the
  number of holding jobs moves with one reservation's status.
* `QuotaKeepsPromise`: `QuotaSpec => PromiseSpec`, step by step: each booking is the
  abstract move it looks like, everything else is `Adjust` or a stutter.
* `PackagesCovered` and `LedgersAgree`: packages' counts against the jobs
  that hold, and both balances against their ledgers. The latter needs `DebitsFollow`: which
  jobs the ledger has debits and refunds of is what their reservations say.
* `PipelineRefinesQuota`: `PipelineSpec => QuotaSpec`. Every step of the pipeline is a
  `QuotaNext` step or leaves the books alone. With it, `PipelineCoversWallet` and
  `PipelineKeepsPromise` carry the theorems above to the pipeline with its crashes,
  stale rows and clicks, late answers included.
* `PipelineTypeCorrect`: by `TypeInv`, late answers included. The type says that a job past
  its submission has a task id; a stale writer keeps that only because of what `TypeInv`
  adds: nothing a thread may still write over the row takes its task away (`TaskKept`).
* `UnitsFollowJobs`, `FailedAreRefunded`, `DeliveredStays`, `CompletedJobsHaveVideos`,
  `UndoneByRefusals`, `MisreleasesAreDeletions`: under the hypothesis `~LateAnswers`
  (see Abstractions; without it TLC finds counterexamples to the first five) by `FitsInv`. It
  says of each job that its row, its unit and its files belong together (`RowFits`,
  `FilesFit`), and of each kind of thread, for each of its program counters, in what the
  row it read may differ from the row there is (`SubFits`, `ScanFits`, `ClickFits`,
  `DlFits`, `PollFits`). None of the six is inductive: what a thread writes is right only
  because of what it has read, and that no other thread could have moved on meanwhile.
  `DeliveredStays` and `UndoneByRefusals` also need `MarkedInv`: a booked job has its
  progress of 100, which no stale writer takes back, and a check that is out at a booking
  neither holds the lock nor has seen that progress.
* `BatchesTypeCorrect`, `OneJobEach`, `RegenerationsSeeTruth`, `ReplacedStays`: by
  `BatchesInv`: no two jobs have one entry of a batch (`OneEach`, by the request id's unique
  value), one regeneration at a time is past the user's row (`OneAtATime`) and replaces only
  jobs it has locked (`PendingLocked`), so that what it has read stays so (`RegenTrue`).
  Every unit the user gets back was held by the row it comes back from (`RowsFit`,
  `UnitsCovered`).
* `BillingTypeCorrect`, `RevisionsAddUp`, `AmountsAreSums`, `FirstChargeIsKept`,
  `PendingRowsAreWatched`: by `BillingInv`: each row with its revisions and entries, its
  registration and its check under way (`JobFits`), a charge in the log for exactly the
  tasks upstream accepted (`LogFits`), a job in one place of the timer (`TimerFits`), a
  place of the executor for each check (`ChecksFit`), and each pending row waiting or due
  (`Watched`). Sums of entries are counts of entries by quota (`Net`), so that they can be
  reasoned about without a fold.
* `SchedulerInvariant` and `LimitsHold`: the limits with `PassCounts`, which says that what a
  pass has counted plus what it may still start bounds what runs, whatever ends or
  starts between its four snapshots.
* `FailuresAreEarned`: by `EarnedInv`: an attempt spent is a claim still held or one of the
  ends `fruitless` counts, for any number of processes that claim, crash and start again.
* `TransferTypeCorrect`, `OnlyWholePublished`, `PartOfOneSource`: by `TransferInv`, which
  adds to the types what the thread that owns a lock knows of the files at each step, and
  that no other thread is past the lock. Needs `FreeAssumption` (no process is called "free").
* `SessionsEnd`, `DecidedOnce` (`AccountsProofs`): the first by `AccountTypes` and
  `TokensFit`, which relates, for an account of the same life, version and
  password of account, session, and logins and registrations under way; the second by
  `ReviewInv`: one request at a time holds a quota request, and units granted are the
  approved requests counted.
* `UsedKeysStay` (`KeysProofs`): by `KeysInv`; besides types it says that a deletion form
  that found no use is still right about pending costs when it writes, except for those
  whose job the database itself still protects (`DeletionSafe`).
* `OffersAreAccepted`, `QueuedAreSendable`, `VideosAreDelivered`, `EndsAreFinished`
  (`AdapterProofs`): by `AdapterInv`, for any text in an administrator's form, any lengths,
  numbers of images, presets and rules, of which the run has a few. It says what each step
  of a creation request has checked so far (`RequestFits`), that a job which waits passes the
  request builder of the channel it was checked for (`JobFits`, by `ChecksAgree`, the heart
  of it), and that on a documented channel full progress means a finished task, and a link
  the video's (`LifeFits`). `VideosAreDelivered` has the hypothesis `~LateLinks` (see
  Abstractions); the others have none.

Each inductive invariant was first checked by TLC as an invariant of its run, and of
variants of it with larger bounds (two faults in `transfer`, three log entries in
`billing`, late links and channels edited back in `adapter`).

Only model-checked: liveness (`Settles`, `QueueMoves`, `Booked`, `DownloadEnds`, `MovesOn`), since
fairness and ENABLED are out of the prover's reach. Every
invariant and action property of a passing run is a theorem.

## Plan

Done: the quota chain and the pipeline with its promise; scheduler; batches and
regeneration; billing; keys; accounts and quota requests; transfer; channels, creation
and adapter; theorems about all of them. Next, in this order:

1. A composition of `Scheduler` and `JobPipeline`, to show that `GenerationEnds` and
   `ReturnsToGeneration` are what the pipeline does to a stage; then `Transfer` and the
   pipeline's `Download*` actions likewise.
2. The poll schedule and `period_bounds` against reference definitions.
3. Cleanup of empty batches and the administrators' head count, which break what one would
   state (see Findings), if the code comes to promise something.

## Not modelled

System and network settings (validated rows; the ones that matter are constants here),
usage reports (read only), library, archives and file delivery (they read finished files),
storage and start-up (table definitions; the session semantics shape every action), pages,
templates, static files, migrations and the vendored proxy under `integrations/`. Of the
modelled components: URLs, headers, proxies and time limits of upstream calls, dimensions in
pixels, uploads and groups of materials, stars and private protection, profile names and
rate limits: they change no job, quota, cost or account state beyond what is described, or
are presentation.
