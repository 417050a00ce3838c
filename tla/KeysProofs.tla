------------------------------- MODULE KeysProofs -------------------------------
(*
No deletion takes a key that is still needed, for any number of keys and jobs and whatever
is under way when the form is sent.
*)
EXTENDS ProviderKeys, TLAPS

KeyRow == [status : {"active", "disabled", "deleted"}, token : Nat, failures : Nat,
           recent : BOOLEAN, gone : BOOLEAN]
JobRow == [status : {"queued", "submitting", "submitted", "ended"}, key : Keys, token : Nat]
CostRow == [state : {"pending", "final"}, key : Keys, token : Nat]
ThreadState == {Idle} \cup [pc : {"create"}, key : Keys] \cup [pc : {"post"}, loaded : Nat]
               \cup [pc : {"query"}, loaded : Nat, own : BOOLEAN]
Form == {Idle} \cup [pc : {"toggle"}, key : Keys, was : {"active", "disabled", "deleted"}]
        \cup [pc : {"update"}, key : Keys, replace : BOOLEAN]
        \cup [pc : {"delete"}, key : Keys, mark : BOOLEAN]

KeyTypes ==
  /\ key \in [Keys -> {Absent} \cup KeyRow]
  /\ job \in [Jobs -> {NoJob} \cup JobRow]
  /\ cost \in [Jobs -> {NoCost} \cup CostRow]
  /\ thread \in [Jobs -> ThreadState]
  /\ form \in Form

\* A thread works on a job that is there, or is about to insert it.
ThreadsWork ==
  \A j \in Jobs : /\ thread[j].pc = "create" => job[j] = NoJob
                  /\ thread[j].pc \in {"post", "query"} => job[j] # NoJob

\* A form that is going to delete a row: the costs that came to pend since it counted have
\* their job, which the database counts once more.
DeletionSafe ==
  form.pc = "delete" /\ ~form.mark =>
    \A j \in Jobs : cost[j].state = "pending" /\ cost[j].key = form.key
                      => job[j] # NoJob /\ job[j].key = form.key

KeysInv == KeyTypes /\ ThreadsWork /\ DeletionSafe /\ UsedKeyStays

\* What a step leaves: every key's row; every job and its key; each job there is with a key
\* that was there; and pending costs with the key they had or with their job's.
KeyRowsStay == \A k \in Keys : key[k] # Absent => key'[k] # Absent
JobsStay == \A j \in Jobs : \/ job[j] = NoJob /\ job'[j] = NoJob
                            \/ job[j] # NoJob /\ job'[j] # NoJob /\ job'[j].key = job[j].key
JobsFollow == \A j \in Jobs : \/ job'[j] = NoJob
                              \/ job[j] # NoJob /\ job'[j].key = job[j].key
                              \/ key[job'[j].key] # Absent /\ job'[j].key \in Keys
CostsFollow == \A j \in Jobs : cost'[j].state = "pending" =>
                 \/ cost[j].state = "pending" /\ cost'[j].key = cost[j].key
                 \/ job[j] # NoJob /\ cost'[j].key = job[j].key

--------------------------------------------------------------------------------
\* The rows and states that are no rows; which fields the others have.
LEMMA Distinct ==
  /\ Absent \notin KeyRow /\ NoJob \notin JobRow
  /\ \A c \in {NoCost} \cup CostRow : c.state = "pending" => c.key \in Keys
  /\ \A t \in ThreadState : /\ t.pc = "create" => t.key \in Keys
                            /\ t.pc \in {"post", "query"} => t.loaded \in Nat
  <1>1. Absent \notin KeyRow
    BY DEF Absent, KeyRow
  <1>2. NoJob \notin JobRow
    BY DEF NoJob, JobRow
  <1>3. \A c \in {NoCost} \cup CostRow : c.state = "pending" => c.key \in Keys
    BY DEF NoCost, CostRow
  <1>4. \A t \in ThreadState : /\ t.pc = "create" => t.key \in Keys
                               /\ t.pc \in {"post", "query"} => t.loaded \in Nat
    BY DEF ThreadState, Idle
  <1> QED BY <1>1, <1>2, <1>3, <1>4

\* What the worker writes into a row keeps its type, and a job's key.
LEMMA RowsWritten ==
  /\ \A row \in KeyRow, n \in Nat :
       FailureWritten(row, n) \in KeyRow /\ SuccessWritten(row, n) \in KeyRow
  /\ \A row \in JobRow, s \in {"queued", "submitting", "submitted", "ended"} :
       [row EXCEPT !.status = s] \in JobRow /\ [row EXCEPT !.status = s].key = row.key
  /\ \A row \in JobRow, n \in Nat :
       /\ [row EXCEPT !.status = "submitting", !.token = n] \in JobRow
       /\ [row EXCEPT !.status = "submitting", !.token = n].key = row.key
  <1>1. \A row \in KeyRow, n \in Nat :
          FailureWritten(row, n) \in KeyRow /\ SuccessWritten(row, n) \in KeyRow
    <2>1. \A row \in KeyRow, m \in Nat, b \in BOOLEAN :
            [row EXCEPT !.failures = m, !.recent = b] \in KeyRow
      BY DEF KeyRow
    <2>2. \A n \in Nat : n + 1 \in Nat /\ 0 \in Nat
      OBVIOUS
    <2> HIDE DEF KeyRow
    <2> QED BY <2>1, <2>2, Zenon DEF FailureWritten, SuccessWritten
  <1>2. \A row \in JobRow, s \in {"queued", "submitting", "submitted", "ended"} :
          [row EXCEPT !.status = s] \in JobRow /\ [row EXCEPT !.status = s].key = row.key
    BY DEF JobRow
  <1>3. \A row \in JobRow, n \in Nat :
          /\ [row EXCEPT !.status = "submitting", !.token = n] \in JobRow
          /\ [row EXCEPT !.status = "submitting", !.token = n].key = row.key
    BY DEF JobRow
  <1> QED BY <1>1, <1>2, <1>3

\* A step that keeps every key row there is, and every job with its key.
LEMMA NothingGoes ==
  ASSUME KeysInv, KeyTypes', ThreadsWork',
         KeyRowsStay,
         JobsFollow,
         CostsFollow,
         DeletionSafe'
  PROVE  KeysInv'
  <1>1. JobHasKey'
    <2> SUFFICES ASSUME NEW j \in Jobs, job'[j] # NoJob PROVE job'[j].key \in Live'
      BY DEF JobHasKey
    <2>1. job'[j].key \in Keys /\ key[job'[j].key] # Absent
      BY DEF KeysInv, UsedKeyStays, JobHasKey, Live, JobsFollow
    <2> QED BY <2>1 DEF Live, KeyRowsStay
  <1>2. PendingHasKey'
    <2> SUFFICES ASSUME NEW j \in Jobs, cost'[j].state = "pending" PROVE cost'[j].key \in Live'
      BY DEF PendingHasKey
    <2>1. cost'[j].key \in Keys /\ key[cost'[j].key] # Absent
      BY DEF KeysInv, UsedKeyStays, JobHasKey, PendingHasKey, Live, CostsFollow
    <2> QED BY <2>1 DEF Live, KeyRowsStay
  <1> QED BY <1>1, <1>2 DEF KeysInv, UsedKeyStays

\* DeletionSafe where the form stays, no job goes or changes its key, and a new pending cost
\* is of its job's key.
LEMMA DeletionStays ==
  ASSUME KeysInv, UNCHANGED form,
         JobsStay,
         CostsFollow
  PROVE  DeletionSafe'
  BY DEF KeysInv, DeletionSafe, JobsStay, CostsFollow

\* Both at once, for what the worker does.
LEMMA WorkerSafe ==
  ASSUME KeysInv, KeyTypes', ThreadsWork', UNCHANGED form,
         KeyRowsStay,
         JobsStay,
         CostsFollow
  PROVE  KeysInv'
  <1>1. DeletionSafe'
    BY DeletionStays
  <1>2. JobsFollow
    BY DEF JobsStay, JobsFollow
  <1> QED BY <1>1, <1>2, NothingGoes

--------------------------------------------------------------------------------
\* No key, no job, nothing under way.
LEMMA KeysInit == Init => KeysInv
  BY DEF Init, KeysInv, KeyTypes, ThreadsWork, DeletionSafe, UsedKeyStays, JobHasKey,
         PendingHasKey, ThreadState, Form, Idle, NoJob, NoCost, Absent

\* The steps of creation: a job is inserted only with a key that is there.
LEMMA CreationKeeps ==
  ASSUME KeysInv, NEW j \in Jobs, (\E k \in Keys : Chooses(j, k)) \/ CreatesJob(j)
  PROVE  KeysInv'
  <1> USE DEF KeysInv, KeyTypes
  <1>1. CASE \E k \in Keys : Chooses(j, k)
    <2>1. PICK k \in Keys : Chooses(j, k)
      BY <1>1
    <2>2. [pc |-> "create", key |-> k] \in ThreadState
      BY DEF ThreadState
    <2>3. KeyTypes' /\ ThreadsWork'
      BY <2>1, <2>2 DEF Chooses, ThreadsWork
    <2>4. DeletionSafe'
      BY <2>1 DEF Chooses, DeletionSafe
    <2>5. UNCHANGED <<key, job, cost>>
      BY <2>1 DEF Chooses
    <2>6. KeyRowsStay /\ JobsFollow /\ CostsFollow
      BY <2>5 DEF KeyRowsStay, JobsFollow, CostsFollow
    <2> QED BY <2>3, <2>4, <2>5, <2>6, NothingGoes
  <1>2. CASE CreatesJob(j)
    <2> DEFINE k == thread[j].key
               row == [status |-> "queued", key |-> k, token |-> 0]
    <2>1. k \in Keys /\ thread[j].pc = "create" /\ job[j] = NoJob
      BY <1>2, Distinct DEF CreatesJob, ThreadsWork
    <2>2. row \in JobRow /\ row.key = k /\ Idle \in ThreadState /\ row # NoJob
      BY <2>1 DEF JobRow, ThreadState, NoJob
    <2>3. /\ job' = [job EXCEPT ![j] = IF k \in Live THEN row ELSE NoJob]
          /\ thread' = [thread EXCEPT ![j] = Idle]
          /\ UNCHANGED <<key, cost, form>>
      BY <1>2 DEF CreatesJob
    <2> HIDE DEF row
    <2>4. KeyTypes'
      BY <2>2, <2>3
    <2>5. ThreadsWork'
      BY <2>3 DEF ThreadsWork, Idle
    <2>6. DeletionSafe'
      BY <2>1, <2>3 DEF DeletionSafe
    <2>7. JobsFollow
      <3> SUFFICES ASSUME NEW i \in Jobs
                   PROVE  \/ job'[i] = NoJob
                          \/ job[i] # NoJob /\ job'[i].key = job[i].key
                          \/ key[job'[i].key] # Absent /\ job'[i].key \in Keys
        BY DEF JobsFollow
      <3>1. CASE i = j
        BY <3>1, <2>1, <2>2, <2>3 DEF Live
      <3>2. CASE i # j
        BY <3>2, <2>3
      <3> QED BY <3>1, <3>2
    <2>8. KeyRowsStay /\ CostsFollow
      BY <2>3 DEF KeyRowsStay, CostsFollow
    <2> QED BY <2>3, <2>4, <2>5, <2>6, <2>7, <2>8, NothingGoes
  <1> QED BY <1>1, <1>2

\* Where the worker writes a job's row, its key's counters, its cost and its own state.
LEMMA WritesSafely ==
  ASSUME KeysInv, NEW j \in Jobs, job[j] # NoJob,
         NEW row \in JobRow, row.key = job[j].key,
         NEW t \in ThreadState, t.pc # "create",
         NEW krow \in KeyRow,
         NEW c \in {NoCost} \cup CostRow,
         c.state = "pending" => c.key = job[j].key \/ c = cost[j],
         job' = [job EXCEPT ![j] = row], thread' = [thread EXCEPT ![j] = t],
         key' = [key EXCEPT ![job[j].key] = krow], cost' = [cost EXCEPT ![j] = c],
         UNCHANGED form
  PROVE  KeysInv'
  <1>1. KeyTypes
    BY DEF KeysInv
  <1>2. KeyTypes'
    BY <1>1 DEF KeyTypes
  <1>3. row # NoJob /\ krow # Absent
    BY Distinct
  <1>4. ThreadsWork'
    <2> SUFFICES ASSUME NEW i \in Jobs
                 PROVE  /\ thread'[i].pc = "create" => job'[i] = NoJob
                        /\ thread'[i].pc \in {"post", "query"} => job'[i] # NoJob
      BY DEF ThreadsWork
    <2>1. CASE i = j
      BY <2>1, <1>1, <1>3 DEF KeyTypes
    <2>2. CASE i # j
      BY <2>2, <1>1 DEF KeyTypes, KeysInv, ThreadsWork
    <2> QED BY <2>1, <2>2
  <1>5. KeyRowsStay
    BY <1>1, <1>3 DEF KeyTypes, KeyRowsStay
  <1>6. JobsStay
    BY <1>1, <1>3 DEF KeyTypes, JobsStay
  <1>7. CostsFollow
    BY <1>1 DEF KeyTypes, CostsFollow
  <1> QED BY <1>2, <1>4, <1>5, <1>6, <1>7, WorkerSafe

\* What the worker writes about a submission or a query.
LEMMA WorkerKeeps ==
  ASSUME KeysInv, NEW j \in Jobs, NEW b \in BOOLEAN,
         \/ SubmitStarts(j) \/ SubmitSucceeds(j) \/ SubmitFails(j, b)
         \/ QueryStarts(j) \/ QueryEnds(j, b) \/ QueryFails(j, b) \/ CostEnds(j)
  PROVE  KeysInv'
  <1> DEFINE k == job[j].key
             old == key[k]
  <1>0. KeyTypes /\ ThreadsWork
    BY DEF KeysInv
  <1>1. job[j] # NoJob => job[j] \in JobRow /\ k \in Keys /\ old \in KeyRow
    BY <1>0 DEF KeyTypes, JobRow, KeysInv, UsedKeyStays, JobHasKey, Live
  <1>2. /\ thread[j] \in ThreadState /\ cost[j] \in {NoCost} \cup CostRow
        /\ Idle \in ThreadState /\ Idle.pc = "idle"
    BY <1>0 DEF KeyTypes, ThreadState, Idle
  <1>3. /\ \A row \in KeyRow : row.failures \in Nat /\ row.token \in Nat
        /\ \A n \in Nat : [pc |-> "post", loaded |-> n] \in ThreadState
        /\ \A n \in Nat, o \in BOOLEAN : [pc |-> "query", loaded |-> n, own |-> o] \in ThreadState
    BY DEF KeyRow, ThreadState
  <1>4. thread[j].pc \in {"post", "query"} => job[j] # NoJob /\ thread[j].loaded \in Nat
    BY <1>0, <1>2, Distinct DEF ThreadsWork
  <1>5. \A row \in JobRow : row.token \in Nat /\ [row EXCEPT !.status = @] = row
    BY DEF JobRow
  <1>6. /\ thread = [thread EXCEPT ![j] = thread[j]] /\ cost = [cost EXCEPT ![j] = cost[j]]
        /\ job = [job EXCEPT ![j] = job[j]] /\ key = [key EXCEPT ![k] = old]
    BY <1>0 DEF KeyTypes
  <1>7. CASE SubmitStarts(j)
    <2>1. job[j].status = "queued" /\ job[j] # NoJob /\ thread[j] = Idle
      BY <1>7 DEF SubmitStarts, NoJob
    <2>2. CASE old.status # "active"
      <3> DEFINE row == [job[j] EXCEPT !.status = "ended"]
      <3>1. row \in JobRow /\ row.key = k
        BY <1>1, <2>1, RowsWritten
      <3>2. job' = [job EXCEPT ![j] = row] /\ UNCHANGED <<key, cost, thread, form>>
        BY <1>7, <2>2 DEF SubmitStarts
      <3>3. /\ thread' = [thread EXCEPT ![j] = Idle] /\ cost' = [cost EXCEPT ![j] = cost[j]]
            /\ key' = [key EXCEPT ![k] = old] /\ job' = [job EXCEPT ![j] = row] /\ UNCHANGED form
        BY <1>6, <2>1, <3>2
      <3>4. Idle \in ThreadState /\ Idle.pc # "create" /\ old \in KeyRow
        BY <1>1, <1>2, <2>1
      <3> HIDE DEF row
      <3> QED BY <1>2, <2>1, <3>1, <3>3, <3>4, WritesSafely
    <2>3. CASE old.status = "active"
      <3> DEFINE row == [job[j] EXCEPT !.status = "submitting", !.token = old.token]
                 t == [pc |-> "post", loaded |-> old.failures]
      <3>1. row \in JobRow /\ row.key = k
        BY <1>1, <1>3, <2>1, RowsWritten
      <3>2. t \in ThreadState /\ t.pc # "create"
        BY <1>1, <1>3, <2>1
      <3>3. /\ job' = [job EXCEPT ![j] = row] /\ thread' = [thread EXCEPT ![j] = t]
            /\ UNCHANGED <<key, cost, form>>
        BY <1>7, <2>3 DEF SubmitStarts
      <3>4. cost' = [cost EXCEPT ![j] = cost[j]] /\ key' = [key EXCEPT ![k] = old]
        BY <1>6, <3>3
      <3> HIDE DEF row, t
      <3> QED BY <1>1, <1>2, <2>1, <3>1, <3>2, <3>3, <3>4, WritesSafely
    <2> QED BY <2>2, <2>3
  <1>8. CASE SubmitSucceeds(j)
    <2> DEFINE row == [job[j] EXCEPT !.status = "submitted"]
               c == [state |-> "pending", key |-> k, token |-> job[j].token]
               krow == SuccessWritten(old, thread[j].loaded)
    <2>1. job[j] # NoJob /\ thread[j].loaded \in Nat
      BY <1>4, <1>8 DEF SubmitSucceeds
    <2>2. row \in JobRow /\ row.key = k /\ krow \in KeyRow
      BY <1>1, <2>1, RowsWritten
    <2>3. c \in CostRow /\ c.key = k
      BY <1>1, <1>5, <2>1 DEF CostRow
    <2>4. /\ job' = [job EXCEPT ![j] = row] /\ thread' = [thread EXCEPT ![j] = Idle]
          /\ key' = [key EXCEPT ![k] = krow] /\ cost' = [cost EXCEPT ![j] = c] /\ UNCHANGED form
      BY <1>8 DEF SubmitSucceeds
    <2> HIDE DEF row, c, krow
    <2> QED BY <1>2, <2>1, <2>2, <2>3, <2>4, WritesSafely
  <1>9. ASSUME NEW s \in {"queued", "submitting", "submitted", "ended"},
               NEW krow \in KeyRow, thread[j].pc \in {"post", "query"},
               job' = [job EXCEPT ![j].status = s], key' = [key EXCEPT ![k] = krow],
               thread' = [thread EXCEPT ![j] = Idle], UNCHANGED <<cost, form>>
        PROVE  KeysInv'
    <2> DEFINE row == [job[j] EXCEPT !.status = s]
    <2>1. job[j] # NoJob
      BY <1>4, <1>9
    <2>2. row \in JobRow /\ row.key = k
      BY <1>1, <2>1, RowsWritten
    <2>3. job' = [job EXCEPT ![j] = row]
      BY <1>9
    <2>4. cost' = [cost EXCEPT ![j] = cost[j]]
      BY <1>6, <1>9
    <2> HIDE DEF row
    <2> QED BY <1>2, <1>9, <2>1, <2>2, <2>3, <2>4, WritesSafely
  <1>10. thread[j].pc \in {"post", "query"} =>
           /\ FailureWritten(old, thread[j].loaded) \in KeyRow
           /\ SuccessWritten(old, thread[j].loaded) \in KeyRow
           /\ job[j].status \in {"queued", "submitting", "submitted", "ended"}
    BY <1>1, <1>4, RowsWritten DEF JobRow
  <1>11. CASE SubmitFails(j, b)
    <2> DEFINE s == IF b THEN "queued" ELSE "ended"
               krow == FailureWritten(old, thread[j].loaded)
    <2>1. /\ thread[j].pc \in {"post", "query"} /\ job' = [job EXCEPT ![j].status = s]
          /\ key' = [key EXCEPT ![k] = krow] /\ thread' = [thread EXCEPT ![j] = Idle]
          /\ UNCHANGED <<cost, form>>
      BY <1>11 DEF SubmitFails
    <2>2. s \in {"queued", "submitting", "submitted", "ended"} /\ krow \in KeyRow
      BY <1>10, <2>1
    <2> HIDE DEF s, krow
    <2> QED BY <1>9, <2>1, <2>2
  <1>12. CASE QueryStarts(j)
    <2> DEFINE t == [pc |-> "query", loaded |-> old.failures, own |-> old.token = job[j].token]
    <2>1. job[j] # NoJob
      BY <1>12 DEF QueryStarts, NoJob
    <2>2. t \in ThreadState /\ t.pc # "create"
      BY <1>1, <1>3, <2>1
    <2>3. thread' = [thread EXCEPT ![j] = t] /\ UNCHANGED <<key, job, cost, form>>
      BY <1>12 DEF QueryStarts
    <2>4. /\ job' = [job EXCEPT ![j] = job[j]] /\ cost' = [cost EXCEPT ![j] = cost[j]]
          /\ key' = [key EXCEPT ![k] = old] /\ UNCHANGED form
      BY <1>6, <2>3
    <2> HIDE DEF t
    <2> QED BY <1>1, <1>2, <2>1, <2>2, <2>3, <2>4, WritesSafely
  <1>13. CASE QueryEnds(j, b)
    <2> DEFINE s == IF b THEN "ended" ELSE job[j].status
               krow == SuccessWritten(old, thread[j].loaded)
    <2>1. /\ thread[j].pc \in {"post", "query"} /\ job' = [job EXCEPT ![j].status = s]
          /\ key' = [key EXCEPT ![k] = krow] /\ thread' = [thread EXCEPT ![j] = Idle]
          /\ UNCHANGED <<cost, form>>
      BY <1>13 DEF QueryEnds
    <2>2. s \in {"queued", "submitting", "submitted", "ended"} /\ krow \in KeyRow
      BY <1>10, <2>1
    <2> HIDE DEF s, krow
    <2> QED BY <1>9, <2>1, <2>2
  <1>14. CASE QueryFails(j, b)
    <2> DEFINE s == IF b THEN "ended" ELSE job[j].status
               krow == FailureWritten(old, thread[j].loaded)
    <2>1. /\ thread[j].pc \in {"post", "query"} /\ job' = [job EXCEPT ![j].status = s]
          /\ key' = [key EXCEPT ![k] = krow] /\ thread' = [thread EXCEPT ![j] = Idle]
          /\ UNCHANGED <<cost, form>>
      BY <1>14 DEF QueryFails
    <2>2. s \in {"queued", "submitting", "submitted", "ended"} /\ krow \in KeyRow
      BY <1>10, <2>1
    <2> HIDE DEF s, krow
    <2> QED BY <1>9, <2>1, <2>2
  <1>15. CASE CostEnds(j)
    <2> DEFINE c == [cost[j] EXCEPT !.state = "final"]
    <2>1. cost[j] \in CostRow /\ cost' = [cost EXCEPT ![j] = c] /\ UNCHANGED <<key, job, thread, form>>
      BY <1>2, <1>15 DEF CostEnds, NoCost
    <2>2. c \in CostRow /\ c.state # "pending"
      BY <2>1 DEF CostRow
    <2> HIDE DEF c
    <2>3. KeyTypes' /\ ThreadsWork'
      BY <1>0, <2>1, <2>2 DEF KeyTypes, ThreadsWork
    <2>4. KeyRowsStay /\ JobsStay
      BY <2>1 DEF KeyRowsStay, JobsStay
    <2>5. CostsFollow
      BY <1>0, <2>1, <2>2 DEF CostsFollow, KeyTypes
    <2> QED BY <2>1, <2>3, <2>4, <2>5, WorkerSafe
  <1> QED BY <1>7, <1>8, <1>11, <1>12, <1>13, <1>14, <1>15

\* The record of a job goes when no thread works on it and no form is open.
LEMMA DeletionKeeps == ASSUME KeysInv, NEW j \in Jobs, DeleteJob(j) PROVE KeysInv'
  <1>1. KeyTypes /\ ThreadsWork
    BY DEF KeysInv
  <1>2. /\ job' = [job EXCEPT ![j] = NoJob] /\ thread[j] = Idle /\ form = Idle
        /\ UNCHANGED <<key, cost, thread, form>>
    BY DEF DeleteJob
  <1>3. KeyTypes'
    BY <1>1, <1>2 DEF KeyTypes
  <1>4. ThreadsWork' /\ DeletionSafe'
    BY <1>1, <1>2 DEF KeyTypes, ThreadsWork, DeletionSafe, Idle
  <1>5. KeyRowsStay /\ JobsFollow /\ CostsFollow
    BY <1>1, <1>2 DEF KeyTypes, KeyRowsStay, JobsFollow, CostsFollow
  <1> QED BY <1>3, <1>4, <1>5, NothingGoes

\* What administrators do to keys: only FormWrites takes a key's row.
LEMMA FormsKeep ==
  ASSUME KeysInv, NEW k \in Keys, NEW r \in BOOLEAN,
         \/ CooldownEnds(k) \/ CreateKey(k) \/ Toggles(k) \/ Updates(k, r) \/ Deletes(k)
  PROVE  KeysInv'
  <1>0. KeyTypes /\ ThreadsWork
    BY DEF KeysInv
  <1>3. ASSUME NEW row \in KeyRow, key' = [key EXCEPT ![k] = row],
               UNCHANGED <<job, cost, thread, form>>
        PROVE  KeysInv'
    <2>1. KeyTypes' /\ ThreadsWork'
      BY <1>0, <1>3 DEF KeyTypes, ThreadsWork
    <2>2. KeyRowsStay /\ JobsStay /\ CostsFollow
      BY <1>0, <1>3, Distinct DEF KeyTypes, KeyRowsStay, JobsStay, CostsFollow
    <2> QED BY <1>3, <2>1, <2>2, WorkerSafe
  <1>4. CASE CooldownEnds(k)
    <2> DEFINE row == [key[k] EXCEPT !.recent = FALSE]
    <2>1. key[k] \in KeyRow
      BY <1>0, <1>4 DEF CooldownEnds, Live, KeyTypes
    <2>2. row \in KeyRow
      BY <2>1 DEF KeyRow
    <2>3. key' = [key EXCEPT ![k] = row] /\ UNCHANGED <<job, cost, thread, form>>
      BY <1>4 DEF CooldownEnds
    <2> HIDE DEF row
    <2> QED BY <1>3, <2>2, <2>3
  <1>5. CASE CreateKey(k)
    <2> DEFINE row == [status |-> "active", token |-> 1, failures |-> 0, recent |-> FALSE, gone |-> FALSE]
    <2>1. row \in KeyRow
      BY DEF KeyRow
    <2>2. key' = [key EXCEPT ![k] = row] /\ UNCHANGED <<job, cost, thread, form>>
      BY <1>5 DEF CreateKey, Written
    <2> HIDE DEF row
    <2> QED BY <1>3, <2>1, <2>2
  <1>6. ASSUME NEW f \in Form, FormOpens(f), f.pc = "delete" /\ ~f.mark => PendingOf(f.key) = {}
        PROVE  KeysInv'
    <2>1. form' = f /\ UNCHANGED <<key, job, cost, thread>>
      BY <1>6 DEF FormOpens
    <2>2. KeyTypes' /\ ThreadsWork'
      BY <1>0, <1>6, <2>1 DEF KeyTypes, ThreadsWork
    <2>3. DeletionSafe'
      BY <1>6, <2>1 DEF DeletionSafe, PendingOf
    <2>4. KeyRowsStay /\ JobsFollow /\ CostsFollow
      BY <2>1 DEF KeyRowsStay, JobsFollow, CostsFollow
    <2> QED BY <2>2, <2>3, <2>4, NothingGoes
  <1>7. CASE Toggles(k)
    <2> DEFINE f == [pc |-> "toggle", key |-> k, was |-> key[k].status]
    <2>1. key[k] \in KeyRow /\ FormOpens(f)
      BY <1>0, <1>7 DEF Toggles, Live, KeyTypes
    <2>2. f \in Form /\ f.pc # "delete"
      BY <2>1 DEF Form, KeyRow
    <2> HIDE DEF f
    <2> QED BY <1>6, <2>1, <2>2
  <1>8. CASE Updates(k, r)
    <2> DEFINE f == [pc |-> "update", key |-> k, replace |-> r]
    <2>1. f \in Form /\ f.pc # "delete" /\ FormOpens(f)
      BY <1>8 DEF Updates, Form
    <2> HIDE DEF f
    <2> QED BY <1>6, <2>1
  <1>9. CASE Deletes(k)
    <2> DEFINE f == [pc |-> "delete", key |-> k, mark |-> KeepsRow(k)]
    <2>1. KeepsRow(k) \in BOOLEAN /\ (~KeepsRow(k) => PendingOf(k) = {})
      BY DEF KeepsRow
    <2>2. f \in Form /\ f.key = k /\ (~f.mark => PendingOf(k) = {}) /\ FormOpens(f)
      BY <1>9, <2>1 DEF Deletes, Form
    <2> HIDE DEF f
    <2> QED BY <1>6, <2>2
  <1> QED BY <1>4, <1>5, <1>7, <1>8, <1>9

\* The write of a form: a row goes only if no job has it, and then no pending cost has it.
LEMMA FormWritesKeeps == ASSUME KeysInv, FormWrites PROVE KeysInv'
  <1> DEFINE k == form.key
             old == key[k]
  <1>0. KeyTypes /\ ThreadsWork /\ form' = Idle /\ form \in Form /\ form # Idle
        /\ UNCHANGED <<job, cost, thread>> /\ k \in Keys
    BY DEF KeysInv, KeyTypes, FormWrites, Form
  <1>1. ThreadsWork' /\ DeletionSafe'
    BY <1>0 DEF ThreadsWork, DeletionSafe, Idle
  <1>2. ASSUME NEW row \in KeyRow, key' = [key EXCEPT ![k] = row] PROVE KeysInv'
    <2>1. KeyTypes'
      BY <1>0, <1>2 DEF KeyTypes, Form
    <2>2. KeyRowsStay /\ JobsFollow /\ CostsFollow
      BY <1>0, <1>2, Distinct DEF KeyTypes, KeyRowsStay, JobsFollow, CostsFollow
    <2> QED BY <1>1, <2>1, <2>2, NothingGoes
  <1>3. k \in Live => old \in KeyRow
    BY <1>0 DEF Live, KeyTypes
  <1>4. \A row \in KeyRow, s \in {"active", "disabled"}, n \in Nat :
          /\ [row EXCEPT !.status = s] \in KeyRow
          /\ [row EXCEPT !.status = s, !.failures = 0, !.recent = FALSE] \in KeyRow
          /\ [row EXCEPT !.failures = 0, !.recent = FALSE, !.token = n] \in KeyRow
          /\ [row EXCEPT !.status = "deleted", !.gone = TRUE] \in KeyRow
          /\ row.token \in Nat
    BY DEF KeyRow
  <1>5. CASE form.pc = "toggle"
    <2>1. k \in Live /\ \E row \in {[old EXCEPT !.status = "disabled"],
             [old EXCEPT !.status = "active", !.failures = 0, !.recent = FALSE]} :
               key' = [key EXCEPT ![k] = row]
      BY <1>5 DEF FormWrites, Written
    <2> QED BY <1>2, <1>3, <1>4, <2>1
  <1>6. CASE form.pc = "update"
    <2> DEFINE n == IF form.replace THEN old.token + 1 ELSE old.token
               row == [old EXCEPT !.failures = 0, !.recent = FALSE, !.token = n]
    <2>1. k \in Live /\ key' = [key EXCEPT ![k] = row]
      BY <1>6 DEF FormWrites, Written
    <2>2. n \in Nat
      <3>1. old \in KeyRow
        BY <1>3, <2>1
      <3>2. old.token \in Nat
        BY <3>1 DEF KeyRow
      <3> QED BY <3>2
    <2> HIDE DEF n
    <2>3. row \in KeyRow
      BY <1>3, <1>4, <2>1, <2>2
    <2> HIDE DEF row
    <2> QED BY <1>2, <2>1, <2>3
  <1>7. CASE form.pc = "delete" /\ form.mark
    <2>1. k \in Live /\ key' = [key EXCEPT ![k] = [old EXCEPT !.status = "deleted", !.gone = TRUE]]
      BY <1>7 DEF FormWrites, Written
    <2> QED BY <1>2, <1>3, <1>4, <2>1
  <1>8. CASE form.pc = "delete" /\ ~form.mark
    <2>1. key' = [key EXCEPT ![k] = IF JobsKeep(k) THEN old ELSE Absent]
      BY <1>8 DEF FormWrites, Written
    <2>2. KeyTypes'
      BY <1>0, <2>1 DEF KeyTypes, Form
    <2>3. CASE JobsKeep(k)
      <3>1. key' = key
        BY <1>0, <2>1, <2>3 DEF KeyTypes
      <3>2. KeyRowsStay /\ JobsFollow /\ CostsFollow
        BY <1>0, <3>1 DEF KeyRowsStay, JobsFollow, CostsFollow
      <3> QED BY <1>1, <2>2, <3>2, NothingGoes
    <2>4. CASE ~JobsKeep(k)
      <3>1. \A i \in Jobs : job[i].key # k
        BY <2>4 DEF JobsKeep, UsedBy
      <3>2. \A i \in Jobs : cost[i].state = "pending" => cost[i].key # k
        BY <1>8, <3>1 DEF KeysInv, DeletionSafe
      <3>3. \A c \in Keys : c # k => key'[c] = key[c]
        BY <1>0, <2>1 DEF KeyTypes
      <3>4. JobHasKey'
        BY <1>0, <3>1, <3>3 DEF KeysInv, UsedKeyStays, JobHasKey, Live
      <3>5. PendingHasKey'
        BY <1>0, <3>2, <3>3 DEF KeysInv, UsedKeyStays, PendingHasKey, Live
      <3> QED BY <1>1, <2>2, <3>4, <3>5 DEF KeysInv, UsedKeyStays
    <2> QED BY <2>3, <2>4
  <1> QED BY <1>5, <1>6, <1>7, <1>8 DEF FormWrites

\* One step per action, each by its lemma.
LEMMA KeysStep == KeysInv /\ [Next]_vars => KeysInv'
  <1> SUFFICES ASSUME KeysInv, [Next]_vars PROVE KeysInv'
    OBVIOUS
  <1>1. CASE \E j \in Jobs : WorkerNext(j)
    <2>1. PICK j \in Jobs : WorkerNext(j)
      BY <1>1
    <2>2. CASE CreatesJob(j)
      BY <2>2, CreationKeeps
    <2>3. CASE \E b \in BOOLEAN : \/ SubmitStarts(j) \/ SubmitSucceeds(j) \/ SubmitFails(j, b)
                 \/ QueryStarts(j) \/ QueryEnds(j, b) \/ QueryFails(j, b) \/ CostEnds(j)
      BY <2>3, WorkerKeeps
    <2> QED BY <2>1, <2>2, <2>3 DEF WorkerNext
  <1>2. CASE \E j \in Jobs, k \in Keys : Chooses(j, k)
    BY <1>2, CreationKeeps
  <1>3. CASE \E j \in Jobs : DeleteJob(j)
    BY <1>3, DeletionKeeps
  <1>4. ASSUME NEW k \in Keys,
               \/ CreateKey(k) \/ Toggles(k) \/ Deletes(k) \/ CooldownEnds(k)
               \/ \E r \in BOOLEAN : Updates(k, r)
        PROVE  KeysInv'
    BY <1>4, FormsKeep
  <1>5. CASE FormWrites
    BY <1>5, FormWritesKeeps
  <1>6. CASE UNCHANGED vars
    BY <1>6 DEF vars, KeysInv, KeyTypes, ThreadsWork, DeletionSafe, UsedKeyStays, JobHasKey,
                PendingHasKey, Live
  <1> QED BY <1>1, <1>2, <1>3, <1>4, <1>5, <1>6 DEF Next

\* No job and no pending cost is ever left without the row of its key, whatever choices,
\* insertions, submissions, deletions of jobs and deletion forms fall between one another:
\* select_provider_key, submit_queued_job and delete_provider_key_form.
THEOREM UsedKeysStay == Spec => []UsedKeyStays
  <1>1. KeysInv => UsedKeyStays
    BY DEF KeysInv
  <1> QED BY KeysInit, KeysStep, <1>1, PTL DEF Spec
================================================================================
