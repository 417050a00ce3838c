-------------------------------- MODULE Transfer --------------------------------
(*
The download of a finished video: the pool of a worker process
(services/worker_engine.py), the claim and the booking of its result
(services/worker_downloader.py) and the transfer itself, resumable and with a lock
that the operating system holds for a process (services/sora_api.py). A file is the
sequence of the addresses its blocks came from, so that a file mixed from two sources
shows; an empty file and a missing one are alike to the code. JobPipeline has the
whole life of a job and leaves out what is here.
*)
EXTENDS Naturals, Sequences, FiniteSets

CONSTANTS Jobs, Kept,   \* jobs to download, those whose video is already there
          Procs,        \* worker processes: the second one of a restart or by mistake
          Urls,         \* addresses the upstream gives for a video
          Size,         \* blocks of a video
          MaxAttempts,  \* length of the setting download_retry_delays_seconds
          MaxLimit,     \* largest setting video_download_concurrency
          MaxFaults,    \* bound: crashes, hung threads, lost bookings
          MaxMoves      \* bound: changes of an address

ASSUME TransferAssumption ==
  /\ Size \in Nat \ {0} /\ MaxAttempts \in Nat \ {0} /\ MaxLimit \in Nat \ {0}
  /\ {MaxFaults, MaxMoves} \subseteq Nat /\ Kept \subseteq Jobs
  /\ IsFiniteSet(Jobs) /\ IsFiniteSet(Procs) /\ Urls # {}

VARIABLES status, attempts,    \* columns of the job
          known,               \* address in the job's latest event
          part, source, dest,  \* .download.part, .download.source and the video
          locked,              \* process that holds .download.lock
          thread,              \* thread[p][j]: the entry of j in _DOWNLOAD_FUTURES of p
          limit,               \* DOWNLOAD_CONCURRENCY of each process
          up,
          fruitless,           \* history: transfers that ended without a new byte or without a booking
          faults, moves

row == <<status, attempts>>
disk == <<part, source, dest>>
bounds == <<faults, moves>>
vars == <<row, known, disk, locked, thread, limit, up, fruitless, bounds>>

Free == "free"
ASSUME FreeAssumption == Free \notin Procs
NoSource == "no source"
Idle == [pc |-> "idle"]
Claimable == {"remote_completed", "download_waiting"}
Open == Claimable \cup {"downloading"}

Busy(p) == {j \in Jobs : thread[p][j] # Idle}
\* Threads that have claimed the job and not booked their result.
Claims(j) == {p \in Procs : thread[p][j].pc \notin {"idle", "pending"}}
\* A claim whose end is not counted in fruitless.
Holds(p, j) == p \in Claims(j) /\ thread[p][j].result # "error"
Holders(j) == {p \in Procs : Holds(p, j)}
Counted(p, j) == IF Holds(p, j) THEN fruitless[j] + 1 ELSE fruitless[j]
Becomes(p, j, t) == thread' = [thread EXCEPT ![p][j] = t]
At(p, j, pc) == up[p] /\ thread[p][j].pc = pc
Url(p, j) == thread[p][j].url
Whole(file) == Len(file) = Size /\ \E u \in Urls : \A n \in 1..Size : file[n] = u

--------------------------------------------------------------------------------
\* The pool of a process.

\* The worker reads the setting in every pass.
RefreshLimit(p) ==
  /\ up[p] /\ \E n \in 1..MaxLimit : limit' = [limit EXCEPT ![p] = n]
  /\ UNCHANGED <<row, known, disk, locked, thread, up, fruitless, bounds>>

\* The rows a pass of the worker asks for.
KickedDownloads == {j \in Jobs : status[j] \in Claimable}

\* Futures that are done have left by now: the call removes them first.
Schedule(p, j) ==
  /\ up[p] /\ j \in KickedDownloads
  /\ thread[p][j] = Idle /\ Cardinality(Busy(p)) < limit[p]
  /\ Becomes(p, j, [pc |-> "pending"])
  /\ UNCHANGED <<row, known, disk, locked, limit, up, fruitless, bounds>>

--------------------------------------------------------------------------------
\* The claim, under the advisory lock of the job.

Starts(p, j) ==
  [status |-> "downloading", attempts |-> attempts[j] + 1,
   thread |-> [pc |-> "claimed", url |-> known[j], initial |-> 0, result |-> "none"]]
Leaves(p, j, s) == [status |-> s, attempts |-> attempts[j], thread |-> Idle]

\* Mutation of Exhausted: one attempt more than the setting lists.
ExhaustedLater(j) == attempts[j] > MaxAttempts
Exhausted(j) == attempts[j] >= MaxAttempts

\* The row and the thread after the claim.
Claimed(p, j) ==
  IF status[j] \notin Claimable THEN Leaves(p, j, status[j])
  ELSE IF dest[j] # <<>> THEN Leaves(p, j, "completed")
  ELSE IF Exhausted(j) THEN Leaves(p, j, "download_failed")
  ELSE Starts(p, j)

Claim(p, j) ==
  /\ At(p, j, "pending")
  /\ status' = [status EXCEPT ![j] = Claimed(p, j).status]
  /\ attempts' = [attempts EXCEPT ![j] = Claimed(p, j).attempts]
  /\ Becomes(p, j, Claimed(p, j).thread)
  /\ UNCHANGED <<known, disk, locked, limit, up, fruitless, bounds>>

\* The delay of the next attempt, counted from the last change of the row, has not passed.
ClaimWaits(p, j) ==
  /\ At(p, j, "pending")
  /\ status[j] \in Claimable /\ dest[j] = <<>> /\ attempts[j] \in 1..(MaxAttempts - 1)
  /\ status' = [status EXCEPT ![j] = "download_waiting"] /\ Becomes(p, j, Idle)
  /\ UNCHANGED <<attempts, known, disk, locked, limit, up, fruitless, bounds>>

--------------------------------------------------------------------------------
\* The transfer.

\* Mutation of LockFree: the lock does not exclude.
NeverLocked(j) == TRUE
LockFree(j) == locked[j] = Free

Ends(p, j, result) ==
  /\ Becomes(p, j, [thread[p][j] EXCEPT !.pc = "result", !.result = result])
  /\ fruitless' = IF result = "error" THEN [fruitless EXCEPT ![j] = @ + 1] ELSE fruitless

Lock(p, j) ==
  /\ At(p, j, "claimed")
  /\ IF LockFree(j)
     THEN /\ locked' = [locked EXCEPT ![j] = p]
          /\ Becomes(p, j, [thread[p][j] EXCEPT !.pc = "locked"]) /\ UNCHANGED fruitless
     ELSE Ends(p, j, "error") /\ UNCHANGED locked
  /\ UNCHANGED <<row, known, disk, limit, up, bounds>>

\* Mutation of Resumable: what was saved of another address is resumed.
ResumableAny(p, j) == part[j] # <<>> \/ source[j] = Url(p, j)
Resumable(p, j) == source[j] = Url(p, j)

\* What is saved of another address is removed, then the new address noted.
CheckSource(p, j) ==
  /\ At(p, j, "locked")
  /\ IF Resumable(p, j)
     THEN /\ Becomes(p, j, [thread[p][j] EXCEPT !.pc = "running", !.initial = Len(part[j])])
          /\ UNCHANGED part
     ELSE Becomes(p, j, [thread[p][j] EXCEPT !.pc = "fresh"]) /\ part' = [part EXCEPT ![j] = <<>>]
  /\ UNCHANGED <<row, known, source, dest, locked, limit, up, fruitless, bounds>>

NoteSource(p, j) ==
  /\ At(p, j, "fresh")
  /\ source' = [source EXCEPT ![j] = Url(p, j)]
  /\ Becomes(p, j, [thread[p][j] EXCEPT !.pc = "running"])
  /\ UNCHANGED <<row, known, part, dest, locked, limit, up, fruitless, bounds>>

\* curl appends what it receives from the byte it asked for.
Receive(p, j) ==
  /\ At(p, j, "running") /\ Len(part[j]) < Size
  /\ part' = [part EXCEPT ![j] = Append(@, Url(p, j))]
  /\ UNCHANGED <<row, known, source, dest, locked, thread, limit, up, fruitless, bounds>>

\* curl ends well only if it has received something: a file that was whole before makes
\* the upstream refuse the range. temp_path.replace(dest_path)
Publish(p, j) ==
  /\ At(p, j, "running") /\ Len(part[j]) = Size /\ thread[p][j].initial < Size
  /\ dest' = [dest EXCEPT ![j] = part[j]] /\ part' = [part EXCEPT ![j] = <<>>]
  /\ Becomes(p, j, [thread[p][j] EXCEPT !.pc = "unlink", !.result = "ok"])
  /\ UNCHANGED <<row, known, source, locked, limit, up, fruitless, bounds>>

\* Mutation of Grown: bytes that were there before count.
GrownOrKept(p, j) == Len(part[j]) > 0
Grown(p, j) == Len(part[j]) > thread[p][j].initial

\* The connection ends early, or the time is up: what is saved stays.
Interrupted(p, j) ==
  /\ At(p, j, "running") /\ part[j] # <<>>
  /\ Ends(p, j, IF Grown(p, j) THEN "progress" ELSE "error")
  /\ locked' = [locked EXCEPT ![j] = Free]
  /\ UNCHANGED <<row, known, disk, limit, up, bounds>>

\* Every other end: an HTTP error, a refused range, an empty or a useless file.
Refused(p, j) ==
  /\ At(p, j, "running")
  /\ Becomes(p, j, [thread[p][j] EXCEPT !.pc = "unlink", !.result = "error"])
  /\ fruitless' = [fruitless EXCEPT ![j] = @ + 1]
  /\ UNCHANGED <<row, known, disk, locked, limit, up, bounds>>

\* finally: the partial file goes, then the note of its source, then the lock.
UnlinkPart(p, j) ==
  /\ At(p, j, "unlink")
  /\ part' = [part EXCEPT ![j] = <<>>]
  /\ Becomes(p, j, [thread[p][j] EXCEPT !.pc = "unlinked"])
  /\ UNCHANGED <<row, known, source, dest, locked, limit, up, fruitless, bounds>>
UnlinkSource(p, j) ==
  /\ At(p, j, "unlinked")
  /\ source' = [source EXCEPT ![j] = NoSource] /\ locked' = [locked EXCEPT ![j] = Free]
  /\ Becomes(p, j, [thread[p][j] EXCEPT !.pc = "result"])
  /\ UNCHANGED <<row, known, part, dest, limit, up, fruitless, bounds>>

--------------------------------------------------------------------------------
\* The booking of the result.

\* Mutation of GivenBack: the attempt stays spent.
NotGivenBack(n) == n
GivenBack(n) == IF n > 0 THEN n - 1 ELSE 0

Booked(p, j) ==
  LET result == thread[p][j].result IN
  CASE result = "ok" -> <<"completed", attempts[j]>>
    [] result = "progress" -> <<"download_waiting", GivenBack(attempts[j])>>
    [] OTHER -> <<IF attempts[j] < MaxAttempts THEN "download_waiting" ELSE "download_failed", attempts[j]>>

Book(p, j) ==
  /\ At(p, j, "result")
  /\ LET booked == IF status[j] \in Open THEN Booked(p, j) ELSE <<status[j], attempts[j]>>
     IN status' = [status EXCEPT ![j] = booked[1]] /\ attempts' = [attempts EXCEPT ![j] = booked[2]]
  /\ Becomes(p, j, Idle)
  /\ UNCHANGED <<known, disk, locked, limit, up, fruitless, bounds>>

\* The advisory lock is busy or the transaction breaks: the attempt stays spent.
BookingLost(p, j) ==
  /\ At(p, j, "result") /\ faults < MaxFaults
  /\ Becomes(p, j, Idle) /\ faults' = faults + 1
  /\ fruitless' = [fruitless EXCEPT ![j] = Counted(p, j)]
  /\ UNCHANGED <<row, known, disk, locked, limit, up, moves>>

--------------------------------------------------------------------------------
\* Scans of the loop, crashes, and what others do.

CompleteExisting(j) ==
  /\ \E p \in Procs : up[p]
  /\ status[j] \in Open /\ dest[j] # <<>>
  /\ status' = [status EXCEPT ![j] = "completed"]
  /\ UNCHANGED <<attempts, known, disk, locked, thread, limit, up, fruitless, bounds>>

\* Nothing was written to the row for DOWNLOAD_STALE_SECONDS: no thread is left, or one
\* hangs longer than the time its transfer may take.
RecoverStale(j) ==
  /\ \E p \in Procs : up[p]
  /\ status[j] = "downloading"
  /\ IF Claims(j) = {} THEN UNCHANGED faults ELSE faults < MaxFaults /\ faults' = faults + 1
  /\ status' = [status EXCEPT ![j] = "remote_completed"]
  /\ attempts' = [attempts EXCEPT ![j] = GivenBack(@)]
  /\ UNCHANGED <<known, disk, locked, thread, limit, up, fruitless, moves>>

\* The locks of a process end with it. A thread that was about to note its source may
\* leave a torn note, which equals no address.
Freed(p) == [j \in Jobs |-> IF locked[j] = p THEN Free ELSE locked[j]]

Crash(p) ==
  /\ up[p] /\ faults < MaxFaults
  /\ up' = [up EXCEPT ![p] = FALSE] /\ faults' = faults + 1
  /\ locked' = Freed(p)
  /\ source' \in {source, [j \in Jobs |-> IF thread[p][j].pc = "fresh" THEN NoSource ELSE source[j]]}
  /\ fruitless' = [j \in Jobs |-> Counted(p, j)]
  /\ thread' = [thread EXCEPT ![p] = [j \in Jobs |-> Idle]]
  /\ UNCHANGED <<row, known, part, dest, limit, moves>>

\* mark_inflight_jobs_interrupted looks at every downloading job, whoever downloads it.
Start(p) ==
  /\ ~up[p] /\ up' = [up EXCEPT ![p] = TRUE]
  /\ status' = [j \in Jobs |-> IF status[j] = "downloading" THEN "remote_completed" ELSE status[j]]
  /\ UNCHANGED <<attempts, known, disk, locked, thread, limit, fruitless, bounds>>

\* The upstream gives another address for the video, or signs it anew.
AddressMoves(j) ==
  /\ moves < MaxMoves /\ moves' = moves + 1
  /\ \E u \in Urls \ {known[j]} : known' = [known EXCEPT ![j] = u]
  /\ UNCHANGED <<row, disk, locked, thread, limit, up, fruitless, faults>>

Init ==
  /\ status = [j \in Jobs |-> "remote_completed"] /\ attempts = [j \in Jobs |-> 0]
  /\ known = [j \in Jobs |-> CHOOSE u \in Urls : TRUE]
  /\ part = [j \in Jobs |-> <<>>] /\ source = [j \in Jobs |-> NoSource]
  /\ dest = [j \in Jobs |-> IF j \in Kept THEN [n \in 1..Size |-> known[j]] ELSE <<>>]
  /\ locked = [j \in Jobs |-> Free] /\ thread = [p \in Procs |-> [j \in Jobs |-> Idle]]
  /\ limit \in [Procs -> 1..MaxLimit] /\ up = [p \in Procs |-> TRUE]
  /\ fruitless = [j \in Jobs |-> 0] /\ faults = 0 /\ moves = 0

TransferNext(p, j) ==
  \/ Lock(p, j) \/ CheckSource(p, j) \/ NoteSource(p, j)
  \/ Receive(p, j) \/ Publish(p, j) \/ Interrupted(p, j) \/ Refused(p, j)
  \/ UnlinkPart(p, j) \/ UnlinkSource(p, j) \/ Book(p, j)

Next ==
  \/ \E p \in Procs : RefreshLimit(p) \/ Crash(p) \/ Start(p)
  \/ \E p \in Procs, j \in Jobs : \/ Schedule(p, j) \/ Claim(p, j) \/ ClaimWaits(p, j)
                               \/ TransferNext(p, j) \/ BookingLost(p, j)
  \/ \E j \in Jobs : CompleteExisting(j) \/ RecoverStale(j) \/ AddressMoves(j)

Spec == Init /\ [][Next]_vars

\* A process that runs takes its steps. The oldest row is scheduled first, so that every job
\* that may be claimed gets a place in the pool again and again, and delays pass.
FairSpec ==
  /\ Spec
  /\ WF_vars(\E p \in Procs : Start(p))
  /\ \A j \in Jobs : /\ SF_vars(\E p \in Procs : Schedule(p, j)) /\ SF_vars(\E p \in Procs : Claim(p, j))
                     /\ WF_vars(\E p \in Procs : TransferNext(p, j))
                     /\ WF_vars(CompleteExisting(j)) /\ WF_vars(Claims(j) = {} /\ RecoverStale(j))

--------------------------------------------------------------------------------
Thread ==
  {Idle, [pc |-> "pending"]} \cup
  [pc : {"claimed", "locked", "fresh", "running", "unlink", "unlinked", "result"},
   url : Urls, initial : 0..Size, result : {"none", "ok", "progress", "error"}]

\* The state has its types; the pool of a process never holds more than the largest limit.
TransferTypeOK ==
  /\ status \in [Jobs -> Open \cup {"completed", "download_failed"}]
  /\ attempts \in [Jobs -> 0..MaxAttempts] /\ known \in [Jobs -> Urls]
  /\ part \in [Jobs -> Seq(Urls)] /\ dest \in [Jobs -> Seq(Urls)]
  /\ source \in [Jobs -> Urls \cup {NoSource}] /\ locked \in [Jobs -> Procs \cup {Free}]
  /\ thread \in [Procs -> [Jobs -> Thread]] /\ limit \in [Procs -> 1..MaxLimit]
  /\ \A p \in Procs : Cardinality(Busy(p)) <= MaxLimit
  /\ up \in [Procs -> BOOLEAN] /\ fruitless \in [Jobs -> Nat]
  /\ faults \in 0..MaxFaults /\ moves \in 0..MaxMoves

\* docs/operations/nas-downloads.md: only a complete transfer is published, and what two
\* processes, crashes and changes of the address leave on disk is never mixed into it.
PublishedWhole == \A j \in Jobs : dest[j] # <<>> => Whole(dest[j])

\* What makes resuming sound: the bytes saved are of the address noted beside them,
\* wherever a crash falls between the writes of the two files.
PartHasOneSource ==
  \A j \in Jobs : \A n \in 1..Len(part[j]) : part[j][n] = source[j]

\* A download is given up only after as many transfers as the setting lists have ended
\* without a new byte, were cut off by a crash or lost their booking, those another process
\* has claimed and not booked yet included: transfers that save a few bytes at a time and
\* stale recoveries spend nothing.
FailureEarned ==
  [][\A j \in Jobs : status[j] # "download_failed" /\ status'[j] = "download_failed"
       => fruitless[j] + Cardinality(Holders(j)) >= MaxAttempts]_vars

\* Every download ends, through restarts, locks, lost bookings, full pools and transfers
\* that save a few bytes at a time.
DownloadEnds == \A j \in Jobs : (status[j] \in Open) ~> (status[j] \notin Open)
================================================================================
