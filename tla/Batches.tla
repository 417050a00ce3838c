--------------------------------- MODULE Batches ---------------------------------
(*
Submission of batches (services/jobs.py, create_jobs_batch_and_reserve), their
regeneration (services/job_regeneration.py) and what users and administrators do to
jobs that have been replaced (api/user, api/admin), for one user.

Every web request is a transaction of several statements at READ COMMITTED: a
statement sees what was committed when it begins, a row lock lasts until the end. The
locks matter here and are modelled by what they make a step wait for:
  - an insert holds a key-share lock on the rows it refers to (user, batch), which only
    a FOR UPDATE of another transaction excludes;
  - an insert waits for another transaction that is inserting the same unique value;
  - a request that changes a batch row holds it until its end.
A prompt of a batch is an entry <<batch, index>>. Its first job has a request id that
is computed from the entry, a regenerated one has a fresh id. A job is followed by what
matters to these operations; what happens in between is JobPipeline's:
  queued       queued and submitting,
  generating   submitted, polling, remote_completed, download_waiting and downloading,
  ended        completed and download_failed,
  failed, interrupted.
*)
EXTENDS Integers, FiniteSets

CONSTANTS Reqs,        \* web requests that may be under way at once
          Batches,     \* request ids of batches
          NumPrompts,  \* prompts of a batch
          MaxJobs,     \* bound: jobs ever made, a request for more is refused
          DailyLimit,  \* daily_job_limit of the user, 0: none
          Units,       \* quota of the user
          MaxLate,     \* bound: jobs that are read at once by somebody who writes later
          MaxClicks    \* bound: resumes, pauses, deletions and cleanups

ASSUME BatchesAssumption ==
  /\ {MaxJobs, DailyLimit, Units, MaxLate, MaxClicks} \subseteq Nat /\ NumPrompts \in Nat \ {0}
  /\ IsFiniteSet(Reqs) /\ IsFiniteSet(Batches)

VARIABLES batches,  \* batch rows, by request id
          job,      \* job[id]: the row of a job and the state of its reservation
          free,     \* quota of the user that is neither spent nor reserved
          made,     \* ids given out so far
          req,      \* req[r]: what request r has read and holds
          op,       \* an administrator's operation between its read and its write
          late,     \* jobs whose row somebody has read who will write to it without asking again
          clicks

vars == <<batches, job, free, made, req, op, late, clicks>>

Ids == 1..MaxJobs
Indexes == 1..NumPrompts
Entries == Batches \X Indexes
NoEntry == <<>>        \* request id of a regenerated job
NoBatch == "no batch"
Statuses == {"queued", "generating", "ended", "failed", "interrupted"}
Absent == [status |-> "none"]
Idle == [pc |-> "idle"]

Rows == {i \in Ids : job[i] # Absent}
ChildOf(i) == {c \in Rows : job[c].source = i}
RowsOf(e) == {i \in Rows : job[i].request = e}

\* Locks, as far as they are held between two steps, by some request of Q.
Creating(Q) == {q \in Q : req[q].pc \in {"jobs", "limits", "insert"}}
Regenerating(Q) == {q \in Q : req[q].pc \in {"regen", "regen_checked"}}
\* Mutation of UserLocked: regenerations do not lock the user's row.
NoUserLock(Q) == FALSE

UserLocked(Q) == Regenerating(Q) # {} \/ \E q \in Q : req[q].pc = "regen_user"
UserShared(Q) == \E q \in Creating(Q) : req[q].new
Inserting(b, Q) == \E q \in Creating(Q) : req[q].batch = b /\ req[q].new
BatchLocked(b, Q) ==
  \/ \E q \in Regenerating(Q) : req[q].batch = b
  \/ \E q \in Creating(Q) : req[q].batch = b /\ req[q].touch
\* Mutation of JobLocked: regenerations do not lock the jobs they replace.
NoJobLock(i) == FALSE

JobLocked(i) == \E q \in Regenerating(Reqs) : i \in req[q].ids
Others(r) == Reqs \ {r}

--------------------------------------------------------------------------------
\* create_jobs_batch_and_reserve. `risky` are the prompts a risk rule refuses: their jobs
\* are failed from the start and hold no quota.

\* A request reads the batch row; `touch`: the form changes its name, labels or count.
CreateReads(r, b, n, risky, touch) ==
  /\ req[r] = Idle
  /\ req' = [req EXCEPT ![r] = [pc |-> "batch", batch |-> b, wanted |-> 1..n, risky |-> risky,
                                 missing |-> {}, moved |-> {}, new |-> b \notin batches, touch |-> touch /\ b \in batches]]
  /\ UNCHANGED <<batches, job, free, made, op, late, clicks>>

\* The routes for one prompt and for several.
SubmitOne(r) ==
  \E b \in Batches, risky \in SUBSET {1}, touch \in BOOLEAN : CreateReads(r, b, 1, risky, touch)
SubmitBatch(r) ==
  \E b \in Batches, n \in Indexes, touch \in BOOLEAN : \E risky \in SUBSET (1..n) :
    CreateReads(r, b, n, risky, touch)

\* The first flush inserts the batch or updates it; a batch inserted or deleted in
\* between is an error.
CreateFlushes(r) ==
  LET b == req[r].batch
      clash == IF req[r].new THEN b \in batches ELSE req[r].touch /\ b \notin batches
  IN /\ req[r].pc = "batch"
     /\ req[r].new => ~Inserting(b, Others(r)) /\ ~UserLocked(Others(r))
     /\ req[r].touch => ~BatchLocked(b, Others(r))
     /\ req' = [req EXCEPT ![r] = IF clash THEN Idle ELSE [@ EXCEPT !.pc = "jobs"]]
     /\ UNCHANGED <<batches, job, free, made, op, late, clicks>>

CreateReadsJobs(r) ==
  LET missing == {i \in req[r].wanted : RowsOf(<<req[r].batch, i>>) = {}}
  IN /\ req[r].pc = "jobs"
     /\ req' = [req EXCEPT ![r] = [@ EXCEPT
                  !.pc = IF missing \ req[r].risky = {} THEN "insert" ELSE "limits",
                  !.wanted = {}, !.risky = req[r].risky \cap missing, !.missing = missing,
                  !.moved = {i \in Rows : /\ job[i].request \in {<<req[r].batch, k>> : k \in req[r].wanted}
                                          /\ job[i].batch # req[r].batch}]]
     /\ UNCHANGED <<batches, job, free, made, op, late, clicks>>

\* enforce_user_rate_limits: jobs of today, those a risk rule refused among them.
WithinDaily(n) == DailyLimit = 0 \/ Cardinality(Rows) + n <= DailyLimit

CreateChecksLimits(r) ==
  /\ req[r].pc = "limits"
  /\ req' = [req EXCEPT ![r] = IF WithinDaily(Cardinality(req[r].missing \ req[r].risky))
                               THEN [@ EXCEPT !.pc = "insert"] ELSE Idle]
  /\ UNCHANGED <<batches, job, free, made, op, late, clicks>>

\* Ids for a set of prompts, in the order of the loop.
IdFor(S, i) == made + Cardinality({k \in S : k <= i})

NewJob(b, i, request, source, status) ==
  [batch |-> b, index |-> i, request |-> request, source |-> source, status |-> status,
   unit |-> IF status = "queued" THEN "reserved" ELSE "none", remote |-> FALSE]

\* Mutation of Duplicate: request ids without a unique constraint.
NeverDuplicate(b, missing) == FALSE

\* A prompt whose job another request inserted meanwhile.
Duplicate(b, missing) == \E k \in missing : RowsOf(<<b, k>>) # {}


\* reserve_quota_for_job of each of n jobs in one transaction.
Enough(n) == free >= n

\* Inserts and reservations, to the commit. A job another request inserted meanwhile
\* and a batch that is gone break a constraint, missing quota raises: nothing is left.
CreateCommits(r) ==
  LET b == req[r].batch
      missing == req[r].missing
      normal == missing \ req[r].risky
      moved == req[r].moved
      refused == \/ missing \cup moved # {} /\ ~req[r].new /\ b \notin batches
                 \/ Duplicate(b, missing) \/ ~(moved \subseteq Rows)
                 \/ ~Enough(Cardinality(normal)) \/ made + Cardinality(missing) > MaxJobs
  IN /\ req[r].pc = "insert"
     /\ missing \cup moved # {} => ~UserLocked(Others(r)) /\ ~\E i \in moved : JobLocked(i)
     /\ req' = [req EXCEPT ![r] = Idle]
     /\ IF refused THEN UNCHANGED <<batches, job, free, made>>
        ELSE /\ batches' = IF req[r].new THEN batches \cup {b} ELSE batches
             /\ made' = made + Cardinality(missing)
             /\ free' = free - Cardinality(normal)
             /\ job' = [i \in Ids |->
                  CASE \E k \in missing : i = IdFor(missing, k) ->
                         LET k == CHOOSE k \in missing : i = IdFor(missing, k)
                         IN NewJob(b, k, <<b, k>>, 0, IF k \in normal THEN "queued" ELSE "failed")
                    [] i \in moved -> [job[i] EXCEPT !.batch = b]
                    [] OTHER -> job[i]]
     /\ UNCHANGED <<op, late, clicks>>

--------------------------------------------------------------------------------
\* regenerate_failed_jobs

RegenLocksUser(r, b, ids) ==
  /\ req[r] = Idle
  /\ ~UserLocked(Others(r)) /\ ~UserShared(Others(r))
  /\ req' = [req EXCEPT ![r] = [pc |-> "regen_user", batch |-> b, ids |-> ids]]
  /\ UNCHANGED <<batches, job, free, made, op, late, clicks>>

\* Locks the batch and the source jobs and reads what replaced them; sources that are
\* not the batch's, or neither failed nor replaced, end the request.
RegenLocksJobs(r) ==
  LET b == req[r].batch
      ids == req[r].ids
      pending == {i \in ids : ChildOf(i) = {}}
      allowed == /\ b \in batches
                 /\ \A i \in ids : i \in Rows /\ job[i].batch = b
                 /\ \A i \in pending : job[i].status = "failed"
  IN /\ req[r].pc = "regen_user" /\ ~BatchLocked(b, Others(r))
     /\ req' = [req EXCEPT ![r] = IF allowed THEN [pc |-> "regen", batch |-> b, ids |-> ids,
                                                   pending |-> pending]
                                  ELSE Idle]
     /\ UNCHANGED <<batches, job, free, made, op, late, clicks>>

RegenChecksLimits(r) ==
  /\ req[r].pc = "regen"
  /\ req' = [req EXCEPT ![r] = IF req[r].pending = {} \/ WithinDaily(Cardinality(req[r].pending))
                               THEN [@ EXCEPT !.pc = "regen_checked"] ELSE Idle]
  /\ UNCHANGED <<batches, job, free, made, op, late, clicks>>

RegenCommits(r) ==
  LET pending == req[r].pending
  IN /\ req[r].pc = "regen_checked"
     /\ req' = [req EXCEPT ![r] = Idle]
     /\ IF ~Enough(Cardinality(pending)) \/ made + Cardinality(pending) > MaxJobs THEN UNCHANGED <<job, free, made>>
        ELSE /\ made' = made + Cardinality(pending)
             /\ free' = free - Cardinality(pending)
             /\ job' = [i \in Ids |->
                  IF \E s \in pending : i = IdFor(pending, s)
                  THEN LET s == CHOOSE s \in pending : i = IdFor(pending, s)
                       IN NewJob(req[r].batch, job[s].index, NoEntry, s, "queued")
                  ELSE job[i]]
     /\ UNCHANGED <<batches, op, late, clicks>>

\* A crash, a lost connection, a deadlock that PostgreSQL ends, a check of the sources
\* that this model leaves out: the transaction is rolled back.
RequestFails(r) ==
  /\ req[r] # Idle
  /\ req' = [req EXCEPT ![r] = Idle]
  /\ UNCHANGED <<batches, job, free, made, op, late, clicks>>

--------------------------------------------------------------------------------
\* What becomes of a job (JobPipeline).

WorkerSubmits(i) ==
  /\ i \in Rows /\ job[i].status = "queued" /\ ~JobLocked(i)
  /\ job' = [job EXCEPT ![i].status = "generating", ![i].remote = TRUE, ![i].unit = "charged"]
  /\ UNCHANGED <<batches, free, made, req, op, late, clicks>>

\* Whoever fails a job gives its unit back in the same transaction.
Fail(i) ==
  /\ i \in Rows
  /\ job' = [job EXCEPT ![i].status = "failed",
                        ![i].unit = IF @ = "charged" THEN "refunded"
                                    ELSE IF @ = "reserved" THEN "released" ELSE @]
  /\ free' = IF job[i].unit \in {"charged", "reserved"} THEN free + 1 ELSE free

WorkerFails(i) ==
  /\ i \in Rows /\ job[i].status \in {"queued", "generating"} /\ ~JobLocked(i) /\ Fail(i)
  /\ UNCHANGED <<batches, made, req, op, late, clicks>>

WorkerEnds(i) ==
  /\ i \in Rows /\ job[i].status = "generating" /\ ~JobLocked(i)
  /\ job' = [job EXCEPT ![i].status = "ended"]
  /\ UNCHANGED <<batches, free, made, req, op, late, clicks>>

\* A status check, a recovery scan or the user's redownload reads a row. It locks nothing
\* and does not ask for a job that replaced this one.
LateReads(i) ==
  /\ Cardinality(late) < MaxLate /\ i \in Rows \ late
  /\ job[i].remote /\ job[i].status \in {"generating", "ended"}
  /\ late' = late \cup {i}
  /\ UNCHANGED <<batches, job, free, made, req, op, clicks>>

\* What it decided is written over whatever has become of the row.
LateWrites(i) ==
  /\ i \in late /\ ~JobLocked(i)
  /\ late' = late \ {i}
  /\ \/ /\ i \in Rows /\ UNCHANGED free
        /\ \E status \in {"generating", "ended"} : job' = [job EXCEPT ![i].status = status]
     \/ Fail(i)
     \/ i \notin Rows /\ UNCHANGED <<job, free>>
  /\ UNCHANGED <<batches, made, req, op, clicks>>

--------------------------------------------------------------------------------
\* Clicks.

Click == clicks < MaxClicks /\ clicks' = clicks + 1
CanResume(i) ==
  i \in Rows /\ job[i].remote /\ job[i].status \in {"failed", "ended", "interrupted"}
Resumed(i) == [job EXCEPT ![i].status = "generating"]

\* Mutation of UserResume: does not ask for a job that replaced this one.
UserResumeUnasked(i) ==
  /\ Click /\ CanResume(i) /\ ~JobLocked(i)
  /\ job' = Resumed(i)
  /\ UNCHANGED <<batches, free, made, req, op, late>>

\* The user's resume locks the row and asks for a job that replaced it.
UserResume(i) ==
  /\ Click /\ CanResume(i) /\ ~JobLocked(i) /\ ChildOf(i) = {}
  /\ job' = Resumed(i)
  /\ UNCHANGED <<batches, free, made, req, op, late>>

\* The administrator's does neither.
AdminResumeRead(i) ==
  /\ Click /\ op = Idle /\ CanResume(i)
  /\ op' = [pc |-> "resume", ids |-> {i}]
  /\ UNCHANGED <<batches, job, free, made, req, late>>

AdminResumeWrite(i) ==
  /\ op.pc = "resume" /\ op.ids = {i} /\ ~JobLocked(i)
  /\ op' = Idle
  /\ job' = IF i \in Rows THEN Resumed(i) ELSE job
  /\ UNCHANGED <<batches, free, made, req, late, clicks>>

\* A pause reads without a lock too; every job with a task has been in a status it allows.
Pause(i) ==
  /\ Click /\ i \in Rows /\ job[i].remote /\ ~JobLocked(i)
  /\ job' = [job EXCEPT ![i].status = "interrupted"]
  /\ UNCHANGED <<batches, free, made, req, op, late>>

\* Mutation of Holds: what was spent or has gone back is given back as well.
Held(i) == job[i].unit # "none"
Holds(i) == job[i].unit = "reserved"

\* _delete_job for every job of S: a unit still reserved is released, retry_of_job_id of
\* a child is set to null by its foreign key.
DeleteRows(S) ==
  /\ \A i \in S : ~JobLocked(i) /\ \A c \in ChildOf(i) : ~JobLocked(c)
  /\ free' = free + Cardinality({i \in S : Holds(i)})
  /\ job' = [i \in Ids |-> IF i \in S \/ job[i] = Absent THEN Absent
                           ELSE [job[i] EXCEPT !.source = IF @ \in S THEN 0 ELSE @]]

DeleteJob(i) ==
  /\ Click /\ i \in Rows /\ DeleteRows({i})
  /\ UNCHANGED <<batches, made, req, op, late>>

DeleteFailed ==
  /\ Click /\ DeleteRows({i \in Rows : job[i].status = "failed"})
  /\ UNCHANGED <<batches, made, req, op, late>>

DeleteBatch(b) ==
  /\ Click /\ b \in batches /\ ~BatchLocked(b, Reqs)
  /\ DeleteRows({i \in Rows : job[i].batch = b})
  /\ batches' = batches \ {b}
  /\ UNCHANGED <<made, req, op, late>>

\* Cleanup of batches without jobs: one statement reads the batches that have jobs, the
\* next all others.
CleanupReads ==
  /\ Click /\ op = Idle
  /\ op' = [pc |-> "cleanup", used |-> {job[i].batch : i \in Rows}]
  /\ UNCHANGED <<batches, job, free, made, req, late>>

CleanupDeletes ==
  LET empty == batches \ op.used
  IN /\ op.pc = "cleanup" /\ \A b \in empty : ~BatchLocked(b, Reqs)
     /\ op' = Idle
     /\ batches' = batches \ empty
     /\ job' = [i \in Ids |-> IF i \in Rows /\ job[i].batch \in empty
                              THEN [job[i] EXCEPT !.batch = NoBatch] ELSE job[i]]
     /\ UNCHANGED <<free, made, req, late, clicks>>

--------------------------------------------------------------------------------
Init ==
  /\ batches = {} /\ job = [i \in Ids |-> Absent] /\ free = Units /\ made = 0
  /\ req = [r \in Reqs |-> Idle] /\ op = Idle /\ late = {} /\ clicks = 0

CreateNext(r) ==
  CreateFlushes(r) \/ CreateReadsJobs(r) \/ CreateChecksLimits(r) \/ CreateCommits(r)

RegenNext(r) == RegenLocksJobs(r) \/ RegenChecksLimits(r) \/ RegenCommits(r)

ClickNext ==
  \/ DeleteFailed \/ CleanupReads \/ CleanupDeletes
  \/ \E b \in Batches : DeleteBatch(b)
  \/ \E i \in Ids : \/ UserResume(i) \/ AdminResumeRead(i) \/ AdminResumeWrite(i)
                    \/ Pause(i) \/ DeleteJob(i)

Next ==
  \/ \E r \in Reqs : \/ SubmitOne(r) \/ SubmitBatch(r) \/ CreateNext(r)
                     \/ \E b \in Batches, ids \in SUBSET Rows : ids # {} /\ RegenLocksUser(r, b, ids)
                     \/ RegenNext(r) \/ RequestFails(r)
  \/ \E i \in Ids : \/ WorkerSubmits(i) \/ WorkerFails(i) \/ WorkerEnds(i)
                    \/ LateReads(i) \/ LateWrites(i)
  \/ ClickNext

Spec == Init /\ [][Next]_vars

--------------------------------------------------------------------------------
\* Properties.

BatchesTypeOK ==
  /\ batches \subseteq Batches /\ free \in 0..Units /\ made \in 0..MaxJobs
  /\ \A i \in Ids : job[i] = Absent \/
       job[i] \in [batch : Batches \cup {NoBatch}, index : Indexes, request : Entries \cup {NoEntry},
                   source : 0..MaxJobs, status : Statuses,
                   unit : {"none", "reserved", "charged", "released", "refunded"}, remote : BOOLEAN]
  /\ late \subseteq Ids /\ clicks \in 0..MaxClicks

\* Two clicks on "create", a repeated request and a request with more prompts never make
\* two jobs of one prompt.
OneJobPerPrompt == \A e \in Entries : Cardinality(RowsOf(e)) <= 1

\* What a regeneration has read stays true until it commits: its sources are still
\* failed, nothing replaces them, and no other request of the user adds a job to the
\* count it checked.
RegenSeesTruth ==
  \A r \in Reqs :
    /\ req[r].pc \in {"regen", "regen_checked"} =>
         \A i \in req[r].pending : i \in Rows /\ job[i].status = "failed" /\ ChildOf(i) = {}
    /\ req[r].pc = "regen_checked" /\ req[r].pending # {} =>
         WithinDaily(Cardinality(req[r].pending))

\* Job i was replaced and nothing is left that may run it again: nobody who read its row
\* before it failed has still to write, no administrator is resuming it.
Final(i) ==
  /\ i \in Rows /\ job[i].status \in {"failed", "interrupted"} /\ ChildOf(i) # {}
  /\ i \notin late /\ ~(op.pc = "resume" /\ op.ids = {i})

\* A job is replaced once, and only when it has failed. From the moment when nothing that
\* was decided earlier is outstanding it stays as it is while its replacement is there,
\* whatever the worker, the user's resume, pauses, regenerations and repeated submissions
\* do, until an administrator resumes it.
ReplacedIsFinal ==
  [][\A i \in Ids :
       /\ ChildOf(i)' \subseteq ChildOf(i) \/ (ChildOf(i) = {} /\ job[i].status = "failed")
       /\ Final(i) => Final(i)' \/ ChildOf(i)' = {} \/ AdminResumeRead(i)]_vars
================================================================================
