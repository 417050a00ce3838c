-------------------------------- MODULE Adapter --------------------------------
(*
The job on its way through the upstream service: what submit_queued_job, poll_remote and
the downloader make of the answers (services/sora_api.py, flow_omni.py, worker_submitter.py,
worker_poller.py, worker_downloader.py), against what the service really does.

An answer is a body with a status, a link to the result in a place the channel documents,
and possibly a link that is something else, the reference image of the request sent back;
or an HTTP error. Retries of downloads, pauses, crashes and the books are in JobPipeline;
here a task is the one whose id the job holds.
*)
EXTENDS Creation

CONSTANTS MaxSubmit,  \* setting submit_max_attempts
          LateLinks   \* may upstream report the end before it has the link

ASSUME AdapterAssumption == MaxSubmit \in Nat \ {0} /\ LateLinks \in BOOLEAN

VARIABLES task,   \* task[j]: what the upstream task of job j really does
          life    \* life[j]: attempts, the thread, progress, links in the job's events

vars == <<creationVars, task, life>>

Unborn == [attempts |-> 0, thread |-> "none", channel |-> Channel(NoRow), full |-> FALSE,
           link |-> "none", got |-> "none"]

Is(j, statuses) == job[j].status \in statuses

--------------------------------------------------------------------------------
\* Submission.

\* _fail_submit, after an attempt that could be made again
Retried(j) == IF life[j].attempts + 1 < MaxSubmit THEN "queued" ELSE "failed"

\* submit_queued_job up to the call. The row of the key is kept until the answer.
Submit(j) ==
  LET row == KeyOf(j)
      attempt(thread) ==
        life' = [life EXCEPT ![j].attempts = IF @ < MaxSubmit THEN @ + 1 ELSE @,
                             ![j].thread = thread, ![j].channel = Channel(row)]
  IN /\ Is(j, {"queued"})
     /\ \/ /\ row.status # "active"
           /\ job' = [job EXCEPT ![j].status = "failed"] /\ life' = life
        \/ /\ row.status = "active" /\ SubmitRaises(row, job[j])
           /\ job' = [job EXCEPT ![j].status = "submitting"] /\ attempt("raised")
        \/ /\ row.status = "active" /\ ~SubmitRaises(row, job[j]) /\ ~PayloadAccepted(row, job[j])
           /\ job' = [job EXCEPT ![j].status = Retried(j)] /\ attempt("none")
        \/ /\ row.status = "active" /\ ~SubmitRaises(row, job[j]) /\ PayloadAccepted(row, job[j])
           /\ job' = [job EXCEPT ![j].status = "submitting"] /\ attempt("posting")
     /\ UNCHANGED <<adminVars, req, requests, task>>

\* _submit_job_background, around a submission that raised (recover_stale_submitting_jobs
\* does the same where the thread is gone). The attempts are not looked at.
SubmitWorkerError(j) ==
  /\ Is(j, {"submitting"}) /\ life[j].thread = "raised"
  /\ job' = [job EXCEPT ![j].status = "queued"]
  /\ life' = [life EXCEPT ![j].thread = "none"]
  /\ UNCHANGED <<adminVars, req, requests, task>>

\* The model that goes with the request, or the one upstream says it took.
SentModel(j) ==
  LET provider == ProviderName(life[j].channel.provider)
  IN IF provider = "veo_omni" THEN "veo flash" ELSE ModelFor(provider, job[j].model)

\* Upstream starts a task. The documented family clamps the progress of an unfinished one.
Accepted(j) ==
  /\ Is(j, {"submitting"}) /\ life[j].thread = "posting"
  /\ \E model \in {SentModel(j), "renamed"}, full \in BOOLEAN :
       /\ job' = [job EXCEPT ![j].status = "submitted", ![j].model = model]
       /\ life' = [life EXCEPT ![j].thread = "none",
                               ![j].full = full /\ life[j].channel.provider \notin FlowFamily]
  /\ task' = [task EXCEPT ![j] = "running"]
  /\ UNCHANGED <<adminVars, req, requests>>

\* How the call ends if not with a task: out of reach, busy or broken upstream, which may
\* pass; a refusal; a failure in an answer; an answer without a task id.
Errors == {"passing error", "error", "failure", "no task"}

Refused(j) ==
  /\ Is(j, {"submitting"}) /\ life[j].thread = "posting"
  /\ \E error \in Errors :
       job' = [job EXCEPT ![j].status =
                 IF error = "passing error" /\ life[j].attempts < MaxSubmit THEN "queued" ELSE "failed"]
  /\ life' = [life EXCEPT ![j].thread = "none"]
  /\ UNCHANGED <<adminVars, req, requests, task>>

\* The service itself.
TaskEnds(j) ==
  /\ task[j] = "running"
  /\ \E end \in {"finished", "failed"} : task' = [task EXCEPT ![j] = end]
  /\ UNCHANGED <<creationVars, life>>

--------------------------------------------------------------------------------
\* Answers to a status query.

\* The key's channel is the one the task was posted to.
SameChannel(j) == Channel(KeyOf(j)) = life[j].channel

Body == [status : {"processing", "completed", "failed", "unknown"}, url : BOOLEAN, echo : BOOLEAN, full : BOOLEAN]

\* What upstream may say of a task: the truth, or nothing. The link of the result may be
\* late. Asked at an address the task was not posted to, it knows nothing.
Bodies(j) ==
  {a \in Body :
     /\ a.status = "processing" => SameChannel(j) /\ task[j] = "running"
     /\ a.status = "completed" => SameChannel(j) /\ task[j] = "finished" /\ a.full
     /\ a.status = "failed" => SameChannel(j) /\ task[j] = "failed"
     /\ a.url => a.status = "completed"
     /\ a.status = "completed" /\ ~LateLinks => a.url
     /\ a.status = "unknown" => ~a.full /\ ~a.echo}

\* Mutation of NormalizeResponse: progress is passed on.
Unclamped(a) == [a EXCEPT !.url = @ /\ a.status = "completed"]
\* Mutation of NormalizeResponse: any link counts, and at any time.
AnyLink(a) == [a EXCEPT !.url = @ \/ a.echo, !.full = @ \/ a.url \/ a.echo]

\* flow_omni.normalize_response: the link counts at the end only, and work the documented
\* words (queued, in_progress) call unfinished is at most at 99.
NormalizeResponse(a) ==
  [a EXCEPT !.url = @ /\ a.status = "completed", !.full = @ /\ a.status # "processing"]

\* Any link in the body counts, but for Wuyin, which answers with numbers and has one place for
\* it. A link in a body without progress stands for 100.
NormalizeTaskResponse(provider, a) ==
  IF provider = "wuyin_omni" THEN [a EXCEPT !.full = @ \/ a.status = "completed"]
  ELSE [a EXCEPT !.url = @ \/ a.echo, !.full = @ \/ a.url \/ a.echo]

Normalised(provider, a) ==
  IF provider \in FlowFamily THEN NormalizeResponse(a) ELSE NormalizeTaskResponse(provider, a)

\* The link a later look through the events of the job finds: the result, else whatever
\* the raw answer stored with them holds.
LinkStored(provider, a) ==
  IF Normalised(provider, a).url
  THEN {IF a.url THEN "video" ELSE "echo"} \cup (IF provider = "veo_omni" /\ a.echo THEN {"echo"} ELSE {})
  ELSE IF a.echo THEN {"echo"} ELSE {"same"}

\* Mutation of PollAnswered: whoever waits for a video waits through a failure.
PollPastFailure(j, a) ==
  LET n == Normalised(ProviderName(KeyOf(j).provider), a)
      completed == n.status = "completed" \/ (n.status = "processing" /\ (life[j].full \/ n.full \/ n.url))
  IN /\ job' = [job EXCEPT ![j].status = IF completed THEN "remote_completed" ELSE "polling"]
     /\ life' = [life EXCEPT ![j].full = completed]

\* poll_remote with a body. Progress never falls, and full progress or a link makes an
\* unfinished answer a finished one. After a long time without an end the worker tries to
\* download anyway (content_fallback).
PollAnswered(j, a) ==
  LET provider == ProviderName(KeyOf(j).provider)
      n == Normalised(provider, a)
      full == life[j].full \/ n.full
      completed == n.status = "completed" \/ (n.status = "processing" /\ (full \/ n.url))
  IN \/ /\ completed
        /\ job' = [job EXCEPT ![j].status = "remote_completed"]
        /\ \E link \in LinkStored(provider, a) :
             life' = [life EXCEPT ![j].full = TRUE, ![j].link = IF link = "same" THEN @ ELSE link]
     \/ /\ ~completed /\ n.status \in {"processing", "unknown"}
        /\ job' = [job EXCEPT ![j].status = "polling"]
        /\ life' = [life EXCEPT ![j].full = full]
     \/ /\ n.status = "failed"
        /\ job' = [job EXCEPT ![j].status = "failed"]
        /\ life' = life

Asked(j) == Is(j, {"submitted", "polling"}) /\ key[job[j].key] # NoRow

Poll(j) ==
  /\ Asked(j)
  /\ \E a \in Bodies(j) : PollAnswered(j, a)
  /\ UNCHANGED <<adminVars, req, requests, task>>

\* The answer says how the task is.
PollTold(j) ==
  /\ Asked(j)
  /\ \E a \in Bodies(j) : a.status # "unknown" /\ PollAnswered(j, a)
  /\ UNCHANGED <<adminVars, req, requests, task>>

ContentFallback(j) ==
  /\ Asked(j)
  /\ \E a \in Bodies(j) :
       LET n == Normalised(ProviderName(KeyOf(j).provider), a)
       IN n.status = "processing" /\ ~life[j].full /\ ~n.full /\ ~n.url
  /\ job' = [job EXCEPT ![j].status = "remote_completed"]
  /\ UNCHANGED <<adminVars, req, requests, task, life>>

\* Answers that are errors: has the HTTP code one that may pass, does the body tell a failure
\* (is_upstream_failure). A refusal of the key or of the query itself tells one too, however
\* the task is.
ErrorAnswers == [passing : BOOLEAN, failure : BOOLEAN]

\* One with a failure in its body ends the job, unless its code is a passing one; others are
\* written down, and the worker asks again.
PollError(j) ==
  /\ Asked(j)
  /\ \E x \in ErrorAnswers :
       job' = [job EXCEPT ![j].status = IF x.failure /\ ~x.passing THEN "failed" ELSE @]
  /\ UNCHANGED <<adminVars, req, requests, task, life>>

\* A result that is not there yet sends the job back to polling.
NotReady(n) == ~n.url /\ n.status # "failed"

\* download_remote_job: the link found in the job's events, or else a last look at upstream.
Download(j) ==
  /\ Is(j, {"remote_completed"}) /\ key[job[j].key] # NoRow
  /\ \/ /\ life[j].link # "none"
        /\ job' = [job EXCEPT ![j].status = "completed"]
        /\ life' = [life EXCEPT ![j].got = life[j].link]
     \/ /\ life[j].link = "none"
        /\ \E a \in Bodies(j) :
             LET n == Normalised(ProviderName(KeyOf(j).provider), a)
             IN \/ /\ n.url
                   /\ job' = [job EXCEPT ![j].status = "completed"]
                   /\ life' = [life EXCEPT ![j].got = IF a.url THEN "video" ELSE "echo"]
                \/ /\ ~n.url
                   /\ job' = [job EXCEPT ![j].status = IF NotReady(n) THEN "polling" ELSE "failed"]
                   /\ life' = life
  /\ UNCHANGED <<adminVars, req, requests, task>>

--------------------------------------------------------------------------------
Init == CreationInit /\ task = [j \in Jobs |-> "none"] /\ life = [j \in Jobs |-> Unborn]

JobStep(j) ==
  \/ Submit(j) \/ SubmitWorkerError(j) \/ Accepted(j) \/ Refused(j) \/ TaskEnds(j)
  \/ Poll(j) \/ ContentFallback(j) \/ PollError(j) \/ Download(j)

Next == (CreationStep /\ UNCHANGED <<task, life>>) \/ \E j \in Jobs : JobStep(j)

Spec == Init /\ [][Next]_vars

\* The worker's rounds come back to every job, and upstream answers in the end and says
\* now and then how the task is.
Fairness ==
  \A j \in Jobs : /\ WF_vars(Submit(j)) /\ WF_vars(SubmitWorkerError(j))
                  /\ WF_vars(Accepted(j) \/ Refused(j))
                  /\ SF_vars(PollTold(j))

FairSpec == Spec /\ Fairness

--------------------------------------------------------------------------------
\* What the creation form or a regeneration let into the queue is never refused, or dropped
\* with an exception, by the code that builds the request, as long as nobody has edited the
\* channel since: the four places that know what a channel can do agree
\* (routes.py:298-544, job_regeneration.py:22-45, sora_api.py:500-560).
QueuedIsSendable ==
  \A j \in Jobs : Is(j, {"queued"}) /\ Unedited(j) =>
    PayloadAccepted(KeyOf(j), job[j]) /\ ~SubmitRaises(KeyOf(j), job[j])

\* On the documented channels a status query ends the wait for a video only if upstream has
\* finished: progress, links sent back and earlier answers do not count
\* (flow_omni.py:31-51 against worker_poller.py:129-147).
DoneOnlyIfFinished ==
  [][\A j \in Jobs :
       Is(j, {"submitted", "polling"}) /\ job'[j].status = "remote_completed" /\ life'[j].full
         => task[j] = "finished" \/ life[j].channel.provider \notin FlowFamily]_vars

\* Unless its channel is edited, a job does not stay in the queue or in submission, and one
\* whose task has ended does not stay in polling.
MovesOn ==
  \A j \in Jobs :
    /\ Is(j, {"queued", "submitting"}) ~> ~Is(j, {"queued", "submitting"}) \/ ~Unedited(j)
    /\ Is(j, {"submitted", "polling"}) /\ task[j] \in {"finished", "failed"}
         ~> ~Is(j, {"submitted", "polling"}) \/ ~SameChannel(j)

\* What a job of the documented channels delivers is the video, never a reference image
\* that upstream sent back with an answer (flow_omni.py:31-32, worker_common.py:255-276).
DeliversTheVideo ==
  \A j \in Jobs : Is(j, {"completed"}) /\ life[j].channel.provider \in FlowFamily => life[j].got = "video"
================================================================================
