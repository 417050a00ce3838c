---------------------------------- MODULE Billing ----------------------------------
(*
What a video really cost (services/cost_accounting.py): the worker registers a cost row
for every task the upstream accepted, and an accounting thread pool asks the upstream for
the state of the task and for the billing log of the token until the row is settled or
excluded.

The upstream's log only ever grows; a reader sees its last entries, through a
cache of a minute. Time is abstracted: the position of an entry in the log stands for
its created_at, and a row waits until its next_check_at and then is in the queue of the
rows that are due. A job has a second task when its submission was recovered and both
submissions were answered (JobPipeline).
*)
EXTENDS Integers, Sequences, FiniteSets, SequencesExt

CONSTANTS Jobs,
          MaxTasks,   \* tasks of a job that the upstream accepts
          Windows,    \* how many entries of the token's log the upstream may show (1000)
          MaxChecks,  \* ACCOUNTING_EXECUTOR runs that many checks, 2
          MaxLogs,    \* bound: entries of the log
          MaxFaults,  \* bound: failed lookups, tasks that turn from completed to failed
          MaxClicks   \* bound: rechecks asked for, restarts

ASSUME BillingAssumption ==
  /\ {MaxTasks, MaxChecks} \cup Windows \subseteq Nat \ {0}
  /\ {MaxLogs, MaxFaults, MaxClicks} \subseteq Nat
  /\ IsFiniteSet(Jobs)

VARIABLES window,    \* how many it shows
          upstream,  \* upstream[t]: state of the upstream's task
          log,       \* the token's billing log, signed quotas: a refund is negative
          posted,    \* posted[j]: accepted tasks whose submit thread has not registered them
          reg,       \* reg[j]: the registration that holds the row of job j
          remote,    \* remote[j]: remote_task_id of the job
          seen,      \* seen[j]: the job has a remote_completed event
          row,       \* row[j]: the JobCost of the job
          booked,    \* booked[j]: sum of the differences its JobCostRevisions record
          waiting,   \* jobs whose row has a next_check_at that is still to come
          queue,     \* jobs whose row is due, in the order of next_check_at
          check,     \* check[j]: the reconciliation of j under way
          cached,    \* _token_log_cache: length of the log when it was read
          click,     \* click[j]: a recheck between its read and its commit
          faults, clicks

jobVars == <<posted, reg, remote, seen>>
rowVars == <<row, booked>>
timer == <<waiting, queue>>
vars == <<window, upstream, log, jobVars, rowVars, timer, check, cached, click, faults, clicks>>

Attempts == 1..MaxTasks
Tasks == Jobs \X Attempts
Other == <<>>       \* tasks of the token's other users
NoTask == 0
NoCache == -1
NoAmount == -1
Absent == [state |-> "none"]
Idle == [pc |-> "idle"]

Positions == 1..MaxLogs
\* The sum of the quotas of a set of entries, which are 2, 1 or -1.
With(quota, positions) == {p \in positions : log[p].quota = quota}
Net(positions) == 2 * Cardinality(With(2, positions)) + Cardinality(With(1, positions))
                    - Cardinality(With(-1, positions))

LogsOf(t) == {p \in DOMAIN log : log[p].task = t}
Amount(j) == IF row[j] # Absent /\ row[j].net # NoAmount THEN row[j].net ELSE 0

\* Mutation of Unscheduled: a row that is set for later also stays due.
StillDue(j) == queue
Unscheduled(j) ==
  IF j \in Range(queue) THEN RemoveAt(queue, CHOOSE p \in DOMAIN queue : queue[p] = j) ELSE queue
CheckLater(j) == waiting' = waiting \cup {j} /\ queue' = Unscheduled(j)
CheckNow(j) == waiting' = waiting \ {j} /\ queue' = Append(Unscheduled(j), j)
CheckNever(j) == waiting' = waiting \ {j} /\ queue' = Unscheduled(j)
Scheduled(j) == j \in waiting \cup Range(queue)

TimePasses(j) ==
  /\ j \in waiting
  /\ CheckNow(j)
  /\ UNCHANGED <<window, upstream, log, jobVars, rowVars, check, cached, click, faults, clicks>>

--------------------------------------------------------------------------------
\* The upstream. A task is charged when it is accepted; later entries correct that.

Logged(t, quota) == log' = Append(log, [task |-> t, quota |-> quota])

UpstreamAccepts(j, a) ==
  /\ upstream[<<j, a>>] = "none" /\ \A b \in 1..a-1 : upstream[<<j, b>>] # "none"
  /\ Len(log) < MaxLogs
  /\ upstream' = [upstream EXCEPT ![<<j, a>>] = "running"]
  /\ Logged(<<j, a>>, 2)
  /\ posted' = [posted EXCEPT ![j] = @ \cup {a}]
  /\ UNCHANGED <<window, reg, remote, seen, rowVars, timer, check, cached, click, faults, clicks>>

UpstreamEnds(t) ==
  /\ \/ upstream[t] = "running" /\ faults' = faults
     \/ upstream[t] = "completed" /\ faults < MaxFaults /\ faults' = faults + 1
  /\ \E end \in {"completed", "failed"} \ {upstream[t]} : upstream' = [upstream EXCEPT ![t] = end]
  /\ UNCHANGED <<window, log, jobVars, rowVars, timer, check, cached, click, clicks>>

UpstreamCorrects(t, quota) ==
  /\ Len(log) < MaxLogs
  /\ t # Other => upstream[t] # "none" /\ Net(LogsOf(t)) + quota >= 0
  /\ Logged(t, quota)
  /\ UNCHANGED <<window, upstream, jobVars, rowVars, timer, check, cached, click, faults, clicks>>

--------------------------------------------------------------------------------
\* Registration, in the transaction of the submit thread that writes the answer. It locks
\* the job, not the cost row: what it has read may be gone when it commits.

\* A task that is accepted while the row is settled raises: the thread's transaction is
\* rolled back and the task is not recorded (SubmitBreaks in JobPipeline).
RegisterReads(j, a) ==
  /\ a \in posted[j] /\ reg[j] = Idle
  /\ posted' = [posted EXCEPT ![j] = @ \ {a}]
  /\ reg' = IF row[j].state = "settled" THEN reg
            ELSE [reg EXCEPT ![j] = [pc |-> "commit", task |-> a, state |-> row[j].state]]
  /\ UNCHANGED <<window, upstream, log, remote, seen, rowVars, timer, check, cached, click, faults, clicks>>

NewRow(a, created) == [remote |-> a, state |-> "pending", net |-> NoAmount, logs |-> {}, created |-> created]

\* created_at is the start of the transaction, which reads the proxy before it posts.
BeforePost(t) == CHOOSE p \in 0..Len(log) : p + 1 \in LogsOf(t) /\ \A q \in LogsOf(t) : p < q

\* Only the columns that change are written: the state only if it was not pending.
Reassigned(r, a, state) == [r EXCEPT !.remote = a, !.state = IF state = "pending" THEN @ ELSE "pending"]

\* A row that a backfill has inserted meanwhile makes the commit fail.
RegisterCommits(j) ==
  LET a == reg[j].task
      conflict == reg[j].state = "none" /\ row[j] # Absent
  IN /\ reg[j].pc = "commit"
     /\ reg' = [reg EXCEPT ![j] = Idle]
     /\ IF conflict THEN UNCHANGED <<remote, row, timer>>
        ELSE /\ remote' = [remote EXCEPT ![j] = a]
             /\ row' = [row EXCEPT ![j] = IF @ = Absent THEN NewRow(a, BeforePost(<<j, a>>))
                                            ELSE Reassigned(@, a, reg[j].state)]
             /\ CheckLater(j)
     /\ UNCHANGED <<window, upstream, log, posted, seen, booked, check, cached, click, faults, clicks>>

\* The provider key is gone or of another kind: the task is recorded without a row.
CommitsUnregistered(j, a) ==
  /\ a \in posted[j] /\ reg[j] = Idle /\ row[j] = Absent
  /\ posted' = [posted EXCEPT ![j] = @ \ {a}]
  /\ remote' = [remote EXCEPT ![j] = a]
  /\ UNCHANGED <<window, upstream, log, reg, seen, rowVars, timer, check, cached, click, faults, clicks>>

\* Mutation of NeedsRow: the backfill is forgotten.
NeverNeedsRow(j) == FALSE
NeedsRow(j) == remote[j] # NoTask /\ row[j] = Absent

\* The worker looks every ten minutes for tasks of the last two days without a row.
Backfill(j) ==
  /\ NeedsRow(j)
  /\ row' = [row EXCEPT ![j] = NewRow(remote[j], Len(log))]
  /\ CheckLater(j)
  /\ UNCHANGED <<window, upstream, log, jobVars, booked, check, cached, click, faults, clicks>>

--------------------------------------------------------------------------------
\* reconcile_job_cost: reads the row, asks the upstream outside a transaction, and saves
\* under the row's lock if the row still is of the same task.

InFlight == {j \in Jobs : check[j] # Idle}

PassPicks(j) ==
  /\ Cardinality(InFlight) < MaxChecks
  /\ \E p \in DOMAIN queue : queue[p] = j /\ \A q \in 1..p-1 : queue[q] \in InFlight
  /\ check[j] = Idle
  /\ check' = [check EXCEPT ![j] = [pc |-> "start"]]
  /\ UNCHANGED <<window, upstream, log, jobVars, rowVars, timer, cached, click, faults, clicks>>

ReconcileReads(j) ==
  LET r == row[j]
  IN /\ check[j].pc = "start"
     /\ check' = [check EXCEPT ![j] = IF r.state \in {"none", "excluded"} \/ ~Scheduled(j) THEN Idle
                    ELSE [pc |-> "status", remote |-> r.remote, had |-> r.logs # {}, created |-> r.created]]
     /\ UNCHANGED <<window, upstream, log, jobVars, rowVars, timer, cached, click, faults, clicks>>

ReconcileAsksStatus(j) ==
  LET c == check[j]
  IN /\ c.pc = "status"
     /\ check' = [check EXCEPT ![j] = [pc |-> "logs", remote |-> c.remote, had |-> c.had, created |-> c.created,
                                        status |-> upstream[<<j, c.remote>>]]]
     /\ UNCHANGED <<window, upstream, log, jobVars, rowVars, timer, cached, click, faults, clicks>>

\* Mutation of MayMissFirst: a window that is just full is not taken for full.
MayMissFirstLater(shown, created) ==
  Cardinality(shown) > window /\ \A p \in shown : p > created
\* The first charge of a task may have left a full window before anyone saw it.
MayMissFirst(shown, created) ==
  Cardinality(shown) >= window /\ \A p \in shown : p > created

\* _token_logs and matching_billing_logs: the window at the time the cache was filled.
ReconcileAsksLogs(j) ==
  LET c == check[j]
      end == IF cached = NoCache THEN Len(log) ELSE cached
      shown == {p \in 1..end : p > end - window}
      matched == shown \cap LogsOf(<<j, c.remote>>)
      unusable == ~c.had /\ (MayMissFirst(shown, c.created) \/ (c.status = "completed" /\ matched = {}))
  IN /\ c.pc = "logs"
     /\ cached' = end
     /\ check' = [check EXCEPT ![j] = IF unusable THEN [pc |-> "retry", remote |-> c.remote]
                    ELSE [pc |-> "save", remote |-> c.remote, status |-> c.status, matched |-> matched]]
     /\ UNCHANGED <<window, upstream, log, jobVars, rowVars, timer, click, faults, clicks>>

CacheExpires ==
  /\ cached # NoCache
  /\ cached' = NoCache
  /\ UNCHANGED <<window, upstream, log, jobVars, rowVars, timer, check, click, faults, clicks>>

LookupFails(j) ==
  /\ faults < MaxFaults /\ check[j].pc \in {"status", "logs"}
  /\ check' = [check EXCEPT ![j] = [pc |-> "retry", remote |-> @.remote]]
  /\ faults' = faults + 1
  /\ UNCHANGED <<window, upstream, log, jobVars, rowVars, timer, cached, click, clicks>>

\* Mutation of ReconcileRetries: a failed check is not repeated.
ReconcileGivesUp(j) ==
  /\ check[j].pc = "retry"
  /\ check' = [check EXCEPT ![j] = Idle]
  /\ CheckNever(j)
  /\ UNCHANGED <<window, upstream, log, jobVars, rowVars, cached, click, faults, clicks>>

ReconcileRetries(j) ==
  /\ check[j].pc = "retry"
  /\ check' = [check EXCEPT ![j] = Idle]
  /\ IF row[j].state # "excluded" /\ row[j].remote = check[j].remote
     THEN CheckLater(j) ELSE UNCHANGED timer
  /\ UNCHANGED <<window, upstream, log, jobVars, rowVars, cached, click, faults, clicks>>

\* merge_billing_logs
Merged(previous, matched) == previous \cup matched

Excluded(r) == [r EXCEPT !.state = "excluded", !.net = NoAmount]
\* Mutation of Settled: the first amount stays.
SettledOnce(r, net) == [r EXCEPT !.state = "settled", !.net = IF @ = NoAmount THEN net ELSE @]
Settled(r, net) == [r EXCEPT !.state = "settled", !.net = net]
\* Mutation of Revised: what was settled is excluded without a revision.
RevisedIfPositive(j, net) == IF net = 0 THEN booked[j] ELSE booked[j] + net - Amount(j)
Revised(j, net) == booked[j] + net - Amount(j)

\* A negative sum is an error, and is tried again later.
ReconcileSaves(j) ==
  LET c == check[j]
      logs == Merged(row[j].logs, c.matched)
      merged == [row[j] EXCEPT !.logs = logs]
      net == Net(logs)
  IN /\ c.pc = "save"
     /\ check' = [check EXCEPT ![j] = Idle]
     /\ \/ /\ row[j].remote # c.remote
           /\ UNCHANGED <<rowVars, timer>>
        \/ /\ row[j].remote = c.remote /\ net < 0
           /\ CheckLater(j)
           /\ UNCHANGED rowVars
        \/ /\ row[j].remote = c.remote /\ net >= 0 /\ c.status = "failed"
           /\ row' = [row EXCEPT ![j] = Excluded(merged)]
           /\ booked' = [booked EXCEPT ![j] = Revised(j, 0)]
           /\ CheckNever(j)
        \/ /\ row[j].remote = c.remote /\ net >= 0 /\ c.status = "running"
           /\ row' = [row EXCEPT ![j] = merged]
           /\ CheckLater(j)
           /\ UNCHANGED booked
        \/ /\ row[j].remote = c.remote /\ net >= 0 /\ c.status = "completed" /\ logs # {}
           /\ row' = [row EXCEPT ![j] = Settled(merged, net)]
           /\ booked' = [booked EXCEPT ![j] = Revised(j, net)]
           /\ \/ CheckLater(j)                                \* within two days of its completion
              \/ row[j].state = "settled" /\ CheckNever(j)    \* after them
        \/ /\ row[j].remote = c.remote /\ c.status = "completed" /\ logs = {}
           /\ CheckLater(j)
           /\ UNCHANGED rowVars
     /\ UNCHANGED <<window, upstream, log, jobVars, cached, click, faults, clicks>>

--------------------------------------------------------------------------------
\* The poller's event, the administrator's recheck, a restart of the worker.

PollerSees(j) ==
  /\ remote[j] # NoTask /\ upstream[<<j, remote[j]>>] = "completed" /\ ~seen[j]
  /\ seen' = [seen EXCEPT ![j] = TRUE]
  /\ UNCHANGED <<window, upstream, log, posted, reg, remote, rowVars, timer, check, cached, click, faults, clicks>>

\* queue_billing_recheck
RecheckReads(j) ==
  /\ clicks < MaxClicks /\ clicks' = clicks + 1
  /\ ~click[j] /\ row[j].state = "pending" /\ seen[j]
  /\ click' = [click EXCEPT ![j] = TRUE]
  /\ UNCHANGED <<window, upstream, log, jobVars, rowVars, timer, check, cached, faults>>

RecheckCommits(j) ==
  /\ click[j]
  /\ click' = [click EXCEPT ![j] = FALSE]
  /\ CheckNow(j)
  /\ UNCHANGED <<window, upstream, log, jobVars, rowVars, check, cached, faults, clicks>>

\* Submissions under way are lost, the checks and the cache are gone.
WorkerRestarts ==
  /\ clicks < MaxClicks /\ clicks' = clicks + 1
  /\ posted' = [j \in Jobs |-> {}] /\ reg' = [j \in Jobs |-> Idle]
  /\ check' = [j \in Jobs |-> Idle] /\ cached' = NoCache
  /\ UNCHANGED <<window, upstream, log, remote, seen, rowVars, timer, click, faults>>

--------------------------------------------------------------------------------
Init ==
  /\ window \in Windows
  /\ upstream = [t \in Tasks |-> "none"] /\ log = <<>>
  /\ posted = [j \in Jobs |-> {}] /\ reg = [j \in Jobs |-> Idle]
  /\ remote = [j \in Jobs |-> NoTask] /\ seen = [j \in Jobs |-> FALSE]
  /\ row = [j \in Jobs |-> Absent] /\ booked = [j \in Jobs |-> 0]
  /\ waiting = {} /\ queue = <<>>
  /\ check = [j \in Jobs |-> Idle] /\ cached = NoCache
  /\ click = [j \in Jobs |-> FALSE] /\ faults = 0 /\ clicks = 0

Registration(j) ==
  \/ \E a \in Attempts : RegisterReads(j, a) \/ CommitsUnregistered(j, a)
  \/ RegisterCommits(j) \/ Backfill(j)
Reconciliation(j) ==
  \/ ReconcileReads(j) \/ ReconcileAsksStatus(j) \/ ReconcileAsksLogs(j)
  \/ ReconcileRetries(j) \/ ReconcileSaves(j)

Next ==
  \/ \E t \in Tasks : UpstreamAccepts(t[1], t[2]) \/ UpstreamEnds(t)
  \/ \E t \in Tasks \cup {Other}, q \in {1, -1} : UpstreamCorrects(t, q)
  \/ \E j \in Jobs : \/ Registration(j) \/ Reconciliation(j) \/ PassPicks(j) \/ LookupFails(j)
                     \/ TimePasses(j) \/ PollerSees(j) \/ RecheckReads(j) \/ RecheckCommits(j)
  \/ CacheExpires \/ WorkerRestarts

Spec == Init /\ [][Next]_vars

\* Time passes, the cache expires, the upstream ends its tasks, and the worker takes its
\* steps: they are threads of a process the container restarts.
FairSpec ==
  /\ Spec
  /\ WF_vars(CacheExpires)
  /\ \A t \in Tasks : WF_vars(upstream[t] = "running" /\ UpstreamEnds(t))
  /\ \A j \in Jobs : /\ WF_vars(Registration(j)) /\ WF_vars(Reconciliation(j))
                     /\ WF_vars(TimePasses(j)) /\ WF_vars(PassPicks(j)) /\ WF_vars(RecheckCommits(j))

--------------------------------------------------------------------------------
Row == [remote : Attempts, state : {"pending", "settled", "excluded"}, net : {NoAmount} \cup 0..2 * MaxLogs,
        logs : SUBSET Positions, created : 0..MaxLogs]
Check == {Idle} \cup [pc : {"start"}] \cup [pc : {"retry"}, remote : Attempts]
   \cup [pc : {"status"}, remote : Attempts, had : BOOLEAN, created : 0..MaxLogs]
   \cup [pc : {"logs"}, remote : Attempts, had : BOOLEAN, created : 0..MaxLogs,
         status : {"running", "completed", "failed"}]
   \cup [pc : {"save"}, remote : Attempts, status : {"running", "completed", "failed"}, matched : SUBSET Positions]

\* The state has its types: no row is ever saved with a negative amount, a job is in at
\* most one place of the timer.
BillingTypeOK ==
  /\ window \in Windows
  /\ upstream \in [Tasks -> {"none", "running", "completed", "failed"}]
  /\ Len(log) <= MaxLogs /\ \A p \in DOMAIN log : log[p] \in [task : Tasks \cup {Other}, quota : {2, 1, -1}]
  /\ posted \in [Jobs -> SUBSET Attempts] /\ remote \in [Jobs -> Attempts \cup {NoTask}]
  /\ reg \in [Jobs -> {Idle} \cup [pc : {"commit"}, task : Attempts, state : {"none", "pending", "excluded"}]]
  /\ seen \in [Jobs -> BOOLEAN] /\ click \in [Jobs -> BOOLEAN]
  /\ row \in [Jobs -> {Absent} \cup Row] /\ booked \in [Jobs -> Nat]
  /\ waiting \subseteq Jobs /\ Range(queue) \subseteq Jobs
  /\ IsInjective(queue) /\ waiting \cap Range(queue) = {}
  /\ check \in [Jobs -> Check] /\ Cardinality(InFlight) <= MaxChecks
  /\ cached \in {NoCache} \cup 0..Len(log)
  /\ faults \in 0..MaxFaults /\ clicks \in 0..MaxClicks

\* The detail page lists the revisions of a cost: a row has an amount exactly when it is
\* settled, and the revisions recorded add up to it, also after exclusions and reassignments.
RevisionsExplain ==
  \A j \in Jobs : row[j] # Absent =>
    /\ row[j].state = "settled" <=> row[j].net # NoAmount
    /\ booked[j] = Amount(j)

\* docs/plans/model-cost-accounting.notes.md: logs are matched exactly by task id. They are,
\* unless the row was reassigned: the entries of its first task stay with it.
OwnLogs(j) == row[j].logs \subseteq LogsOf(<<j, row[j].remote>>)

\* A settled amount is the sum of the entries stored with it, each counted once however
\* often the upstream has shown it and whatever the cache and other checks did.
AmountIsItsLogs ==
  \A j \in Jobs : row[j].state = "settled" /\ OwnLogs(j) => row[j].net = Net(row[j].logs)

\* A pending row is always going to be looked at again, whatever failed.
PendingIsWatched ==
  \A j \in Jobs : row[j].state = "pending" => Scheduled(j)

FirstOf(t) == CHOOSE p \in LogsOf(t) : \A q \in LogsOf(t) : p <= q

\* docs/plans/model-cost-accounting.notes.md: a task whose first charge has left the window
\* before it was seen stays pending. So it is for a row made when the task was submitted; a
\* row that the backfill made is younger than the charge and may be settled without it.
FirstChargeKept ==
  \A j \in Jobs : row[j].state = "settled" /\ OwnLogs(j) =>
    LET first == FirstOf(<<j, row[j].remote>>)
    IN row[j].created < first => first \in row[j].logs

\* The charge has left the window of the log, or may have before the row was made: the
\* code cannot tell, and leaves the row pending.
OutOfSight(t) ==
  \/ FirstOf(t) <= Len(log) - window
  \/ row[t[1]] # Absent /\ row[t[1]].created <= Len(log) - window

\* A recheck that was answered while its row was excluded leaves that row in the queue,
\* where a reconciliation does nothing and never takes it out.
Stuck == \E k \in Jobs : row[k].state = "excluded" /\ Scheduled(k)

\* Every video that the upstream has completed is decided in the end, settled or (if the
\* upstream says later that it failed) excluded, through failed lookups, restarts, lost
\* registrations and rechecks: unless its charge is out of sight or the queue is stuck.
Booked ==
  \A t \in Tasks :
    LET j == t[1]
    IN upstream[t] = "completed" /\ remote[j] = t[2]
         ~> \/ row[j].state \in {"settled", "excluded"}
            \/ remote[j] # t[2] \/ OutOfSight(t) \/ Stuck
================================================================================
