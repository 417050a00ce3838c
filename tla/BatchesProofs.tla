-------------------------------- MODULE BatchesProofs --------------------------------
(*
Proofs about Batches: the inductive invariant BatchesInv, one lemma per kind of step, and
the theorems that follow from it. The lemmas show of each step that it keeps BatchesInv
and that it leaves a replaced job, about which nothing is outstanding, as it is.
*)
EXTENDS Batches, FiniteSetTheorems, TLAPS

\* The types of rows and of what the requests remember.
JobRow == [batch : Batches \cup {NoBatch}, index : Indexes, request : Entries \cup {NoEntry},
           source : 0..MaxJobs, status : Statuses,
           unit : {"none", "reserved", "charged", "released", "refunded"}, remote : BOOLEAN]

Creation == [pc : {"batch", "jobs", "limits", "insert"}, batch : Batches, wanted : SUBSET Indexes,
             risky : SUBSET Indexes, missing : SUBSET Indexes, moved : SUBSET Ids,
             new : BOOLEAN, touch : BOOLEAN]
Regeneration == [pc : {"regen_user"}, batch : Batches, ids : SUBSET Ids]
  \cup [pc : {"regen", "regen_checked"}, batch : Batches, ids : SUBSET Ids, pending : SUBSET Ids]

\* The columns of the tables and of the requests have their types.
Types ==
  /\ batches \subseteq Batches /\ made \in 0..MaxJobs /\ clicks \in 0..MaxClicks
  /\ late \subseteq Ids
  /\ job \in [Ids -> {Absent} \cup JobRow]
  /\ req \in [Reqs -> {Idle} \cup Creation \cup Regeneration]

\* Ids are given out in order, a job replaces an older one, and a queued job holds its unit.
RowsFit ==
  \A i \in Rows : /\ i <= made /\ job[i].source < i
                  /\ job[i].status = "queued" => job[i].unit = "reserved"

\* The units that are free, reserved or spent for a job that is still there are units the
\* user was given.
Holding == {i \in Rows : job[i].unit \in {"reserved", "charged"}}
UnitsCovered == free \in Nat /\ free + Cardinality(Holding) <= Units

\* No two jobs of one entry.
OneEach == \A i, k \in Rows : job[i].request = job[k].request => i = k \/ job[i].request = NoEntry

\* The lock of the user's row lets one regeneration at a time past it, and a regeneration
\* replaces only jobs it has locked.
OneAtATime == \A q, r \in Reqs : req[q] \in Regeneration /\ req[r] \in Regeneration => q = r
PendingLocked ==
  \A r \in Reqs : req[r].pc \in {"regen", "regen_checked"} => req[r].pending \subseteq req[r].ids

\* What a regeneration has read is still so.
RegenTrue(r) ==
  /\ req[r].pc \in {"regen", "regen_checked"} =>
       \A i \in req[r].pending : i \in Rows /\ job[i].status = "failed" /\ ChildOf(i) = {}
  /\ req[r].pc = "regen_checked" /\ req[r].pending # {} =>
       WithinDaily(Cardinality(req[r].pending))

BatchesInv ==
  /\ Types /\ RowsFit /\ UnitsCovered /\ OneEach /\ OneAtATime /\ PendingLocked
  /\ \A r \in Reqs : RegenTrue(r)

--------------------------------------------------------------------------------
\* Ids and sets of rows.

LEMMA FiniteRows ==
  /\ IsFiniteSet(Ids) /\ IsFiniteSet(Rows) /\ Cardinality(Rows) \in Nat
  /\ IsFiniteSet(Holding) /\ Cardinality(Holding) \in Nat
  /\ \A S \in SUBSET Ids : IsFiniteSet(S) /\ Cardinality(S) \in Nat
  /\ \A S \in SUBSET Indexes : IsFiniteSet(S) /\ Cardinality(S) \in Nat
  <1>1. IsFiniteSet(Ids) /\ IsFiniteSet(Indexes)
    BY FS_Interval, BatchesAssumption DEF Ids, Indexes
  <1>2. Rows \subseteq Ids /\ Holding \subseteq Ids
    BY DEF Rows, Holding
  <1>3. ASSUME NEW T, IsFiniteSet(T), NEW S \in SUBSET T
        PROVE  IsFiniteSet(S) /\ Cardinality(S) \in Nat
    BY <1>3, FS_Subset, FS_CardinalityType
  <1> QED BY <1>1, <1>2, <1>3

\* The ids of new rows are new, in range, and different.
LEMMA IdsNew ==
  ASSUME NEW S \in SUBSET Nat, IsFiniteSet(S), made \in Nat
  PROVE  /\ \A k \in S : IdFor(S, k) \in made + 1 .. made + Cardinality(S)
         /\ \A k, l \in S : IdFor(S, k) = IdFor(S, l) => k = l
  <1> DEFINE Upto(k) == {i \in S : i <= k}
  <1>1. ASSUME NEW k \in S
        PROVE  /\ IsFiniteSet(Upto(k)) /\ Cardinality(Upto(k)) \in Nat
               /\ Cardinality(Upto(k)) <= Cardinality(S) /\ Cardinality(Upto(k)) # 0
               /\ IdFor(S, k) = made + Cardinality(Upto(k)) /\ Cardinality(S) \in Nat
    <2>1. Upto(k) \in SUBSET S /\ k \in Upto(k)
      OBVIOUS
    <2>2. IsFiniteSet(Upto(k)) /\ Cardinality(Upto(k)) <= Cardinality(S)
      BY <2>1, FS_Subset
    <2>3. Cardinality(Upto(k)) # 0
      BY <2>1, <2>2, FS_EmptySet
    <2>4. IdFor(S, k) = made + Cardinality(Upto(k))
      BY DEF IdFor
    <2> QED BY <2>2, <2>3, <2>4, FS_CardinalityType
  <1>2. ASSUME NEW k \in S, NEW l \in S, k < l
        PROVE  Cardinality(Upto(k)) # Cardinality(Upto(l))
    <2>0. S \subseteq Nat /\ l <= l /\ ~(l <= k) /\ \A i \in Nat : i <= k => i <= l
      BY <1>2
    <2>1. Upto(k) \in SUBSET Upto(l) /\ l \in Upto(l) /\ l \notin Upto(k)
      BY <2>0, Zenon
    <2> QED BY <1>1, <2>1, FS_Subset
  <1> HIDE DEF Upto
  <1>3. ASSUME NEW k \in S PROVE IdFor(S, k) \in made + 1 .. made + Cardinality(S)
    BY <1>1
  <1>4. ASSUME NEW k \in S, NEW l \in S, IdFor(S, k) = IdFor(S, l) PROVE k = l
    <2>1. Cardinality(Upto(k)) = Cardinality(Upto(l))
      BY <1>1, <1>4
    <2>2. k \in Nat /\ l \in Nat
      OBVIOUS
    <2> QED BY <1>2, <2>1, <2>2
  <1> QED BY <1>3, <1>4

\* What the types say of one row and one request.
LEMMA RowTyped ==
  ASSUME Types, NEW i \in Rows
  PROVE  /\ i \in Ids /\ job[i] \in JobRow
         /\ job[i].source \in 0..MaxJobs
         /\ job[i].batch \in Batches \cup {NoBatch} /\ job[i].index \in Indexes
         /\ job[i].request \in Entries \cup {NoEntry} /\ job[i].remote \in BOOLEAN
  BY DEF Types, Rows, JobRow

LEMMA RequestTyped ==
  ASSUME Types, NEW r \in Reqs
  PROVE  /\ req[r].pc \in {"idle", "batch", "jobs", "limits", "insert", "regen_user", "regen",
                          "regen_checked"}
         /\ req[r].pc \in {"batch", "jobs", "limits", "insert"} <=> req[r] \in Creation
         /\ req[r].pc \in {"regen_user", "regen", "regen_checked"} <=> req[r] \in Regeneration
         /\ req[r].pc \in {"regen", "regen_checked"}
              => req[r].pending \in SUBSET Ids /\ req[r].ids \in SUBSET Ids
  BY DEF Types, Creation, Regeneration, Idle

\* Who holds the lock of the user's row.
LEMMA WhoLocks ==
  ASSUME Types, NEW Q \in SUBSET Reqs
  PROVE  /\ UserLocked(Q) <=> \E q \in Q : req[q] \in Regeneration
         /\ \A i : JobLocked(i) <=> \E q \in Reqs : /\ req[q].pc \in {"regen", "regen_checked"}
                                                  /\ i \in req[q].ids
  <1>1. \A q \in Q : req[q] \in Regeneration
                      <=> req[q].pc \in {"regen_user", "regen", "regen_checked"}
    BY RequestTyped
  <1> QED BY <1>1 DEF UserLocked, Regenerating, JobLocked

--------------------------------------------------------------------------------
\* Steps that make no job.

\* Row i is gone, or is still the row it was, and no child but the one it was.
Quiet(i) ==
  \/ job'[i] = Absent
  \/ /\ i \in Rows /\ job'[i] \in JobRow
     /\ job'[i].request = job[i].request /\ job'[i].source \in {job[i].source, 0}
     /\ job'[i].status = "queued" => job[i].status = "queued" /\ job'[i].unit = job[i].unit

\* It is replaced a second time or without having failed, or is no longer final.
Breaks(i) ==
  \/ ~(ChildOf(i)' \subseteq ChildOf(i)) /\ ~(ChildOf(i) = {} /\ job[i].status = "failed")
  \/ Final(i) /\ ChildOf(i)' # {} /\ ~Final(i)'

Keeps == BatchesInv' /\ \A i \in Ids : Breaks(i) => AdminResumeRead(i)

LEMMA QuietRows ==
  ASSUME BatchesInv, job' \in [Ids -> {Absent} \cup JobRow], made' = made,
         \A i \in Ids : Quiet(i)
  PROVE  /\ RowsFit' /\ OneEach' /\ Rows' \subseteq Rows
         /\ \A i \in Ids : ChildOf(i)' \subseteq ChildOf(i)
  <1>0. Types /\ RowsFit /\ OneEach /\ Rows' \subseteq Ids
    BY DEF BatchesInv, Rows
  <1>1. ASSUME NEW i \in Rows'
        PROVE  /\ i \in Rows /\ i \in Ids /\ job'[i].request = job[i].request
               /\ job'[i].source \in {job[i].source, 0}
               /\ job'[i].status = "queued" => job[i].status = "queued" /\ job'[i].unit = job[i].unit
    <2>1. i \in Ids /\ job'[i] # Absent
      BY <1>1 DEF Rows
    <2> QED BY <2>1 DEF Quiet
  <1>2. Rows' \subseteq Rows
    BY <1>1
  <1>3. RowsFit'
    <2> SUFFICES ASSUME NEW i \in Rows'
                 PROVE  /\ i <= made /\ job'[i].source < i
                        /\ job'[i].status = "queued" => job'[i].unit = "reserved"
      BY DEF RowsFit
    <2>1. i \in Nat /\ 0 < i
      BY <1>1, BatchesAssumption DEF Ids
    <2> QED BY <1>0, <1>1, <2>1 DEF RowsFit
  <1>4. OneEach'
    BY <1>0, <1>1 DEF OneEach
  <1>5. ASSUME NEW i \in Ids PROVE ChildOf(i)' \subseteq ChildOf(i)
    <2> SUFFICES ASSUME NEW c \in Rows', job'[c].source = i PROVE c \in ChildOf(i)
      BY DEF ChildOf
    <2>1. i # 0
      BY BatchesAssumption DEF Ids
    <2> QED BY <1>1, <2>1 DEF ChildOf
  <1> QED BY <1>2, <1>3, <1>4, <1>5

\* What a request has read stays true while its rows are locked and none is added.
LEMMA TruthStays ==
  ASSUME BatchesInv, NEW r \in Reqs, req'[r] = req[r],
         Rows' \subseteq Rows, \A i \in Ids : ChildOf(i)' \subseteq ChildOf(i),
         \A i \in Rows : JobLocked(i) /\ job[i].status = "failed"
                           => i \in Rows' /\ job'[i].status = "failed"
  PROVE  RegenTrue(r)'
  <1>0. Types /\ RegenTrue(r) /\ PendingLocked
    BY DEF BatchesInv
  <1>1. ASSUME req[r].pc \in {"regen", "regen_checked"}, NEW i \in req[r].pending
        PROVE  i \in Rows' /\ job'[i].status = "failed" /\ ChildOf(i)' = {}
    <2>1. i \in Rows /\ job[i].status = "failed" /\ ChildOf(i) = {}
      BY <1>0, <1>1 DEF RegenTrue
    <2>2. JobLocked(i)
      BY <1>0, <1>1 DEF PendingLocked, JobLocked, Regenerating
    <2> QED BY <2>1, <2>2 DEF Rows
  <1>2. ASSUME NEW n, WithinDaily(n), n \in Nat PROVE WithinDaily(n)'
    <2>1. Cardinality(Rows') <= Cardinality(Rows) /\ Cardinality(Rows') \in Nat
      BY FiniteRows, FS_Subset, FS_CardinalityType
    <2> QED BY <1>2, <2>1, FiniteRows, BatchesAssumption DEF WithinDaily
  <1>3. ASSUME req[r].pc = "regen_checked", req[r].pending # {}
        PROVE  WithinDaily(Cardinality(req[r].pending))'
    <2>1. WithinDaily(Cardinality(req[r].pending))
      BY <1>0, <1>3 DEF RegenTrue
    <2>2. Cardinality(req[r].pending) \in Nat
      BY <1>0, <1>3, RequestTyped, FiniteRows
    <2>3. Cardinality(req'[r].pending) = Cardinality(req[r].pending)
      OBVIOUS
    <2> QED BY <1>2, <2>1, <2>2, <2>3 DEF WithinDaily
  <1> QED BY <1>1, <1>3 DEF RegenTrue

\* A step of the worker or a click.
LEMMA RowsStep ==
  ASSUME BatchesInv, job' \in [Ids -> {Absent} \cup JobRow], UNCHANGED <<made, req>>,
         batches' \subseteq Batches, clicks' \in 0..MaxClicks, late' \subseteq Ids, UnitsCovered',
         \A i \in Ids : Quiet(i),
         \A i \in Rows : JobLocked(i) /\ job[i].status = "failed"
                           => i \in Rows' /\ job'[i].status = "failed",
         \A i \in Ids : Final(i) /\ ChildOf(i)' # {} => Final(i)'
  PROVE  BatchesInv' /\ \A i \in Ids : ~Breaks(i)
  <1>1. /\ RowsFit' /\ OneEach' /\ Rows' \subseteq Rows
        /\ \A i \in Ids : ChildOf(i)' \subseteq ChildOf(i)
    BY QuietRows
  <1>2. \A r \in Reqs : RegenTrue(r)'
    BY <1>1, TruthStays
  <1>3. Types' /\ OneAtATime' /\ PendingLocked'
    BY DEF BatchesInv, Types, OneAtATime, PendingLocked
  <1>4. \A i \in Ids : ~Breaks(i)
    BY <1>1 DEF Breaks
  <1> QED BY <1>1, <1>2, <1>3, <1>4 DEF BatchesInv

\* Only what request r remembers changes.
LEMMA RequestStep ==
  ASSUME BatchesInv, NEW r \in Reqs, NEW new \in {Idle} \cup Creation \cup Regeneration,
         req' = [req EXCEPT ![r] = new],
         UNCHANGED <<batches, job, free, made, op, late, clicks>>,
         new \in Regeneration => req[r] \in Regeneration \/ ~UserLocked(Others(r)),
         new.pc \in {"regen", "regen_checked"} => new.pending \subseteq new.ids,
         RegenTrue(r)'
  PROVE  BatchesInv' /\ \A i \in Ids : ~Breaks(i)
  <1>0. /\ Types /\ RowsFit /\ UnitsCovered /\ OneEach /\ OneAtATime /\ PendingLocked
        /\ \A q \in Reqs : RegenTrue(q)
    BY DEF BatchesInv
  <1>1. req'[r] = new /\ \A q \in Reqs \ {r} : req'[q] = req[q]
    BY <1>0 DEF Types
  <1>2. Types'
    BY <1>0 DEF Types
  <1>3. RowsFit' /\ UnitsCovered' /\ OneEach'
    BY <1>0 DEF RowsFit, Rows, UnitsCovered, Holding, OneEach
  <1>4. PendingLocked'
    BY <1>0, <1>1 DEF PendingLocked
  <1>5. OneAtATime'
    <2>1. CASE req[r] \in Regeneration
      BY <1>0, <1>1, <2>1 DEF OneAtATime
    <2>2. CASE new \in Regeneration /\ ~UserLocked(Others(r))
      <3>1. \A q \in Reqs \ {r} : req[q] \notin Regeneration
        BY <1>0, <2>2, WhoLocks DEF Others
      <3> QED BY <1>1, <3>1 DEF OneAtATime
    <2>3. CASE new \notin Regeneration
      BY <1>0, <1>1, <2>3 DEF OneAtATime
    <2> QED BY <2>1, <2>2, <2>3
  <1>6. \A q \in Reqs : RegenTrue(q)'
    <2> SUFFICES ASSUME NEW q \in Reqs \ {r} PROVE RegenTrue(q)'
      OBVIOUS
    <2>1. req'[q] = req[q] /\ Rows' = Rows /\ \A i \in Ids : ChildOf(i)' = ChildOf(i)
      BY <1>1 DEF Rows, ChildOf
    <2> QED BY <2>1, TruthStays
  <1>7. \A i \in Ids : ~Breaks(i)
    BY DEF Breaks, Final, ChildOf, Rows
  <1> QED BY <1>2, <1>3, <1>4, <1>5, <1>6, <1>7 DEF BatchesInv

--------------------------------------------------------------------------------
\* One lemma per kind of step.

LEMMA CreationReads ==
  ASSUME BatchesInv, NEW r \in Reqs,
         SubmitOne(r) \/ SubmitBatch(r) \/ CreateFlushes(r) \/ CreateReadsJobs(r)
           \/ CreateChecksLimits(r) \/ RequestFails(r)
  PROVE  Keeps
  <1>0. Types /\ req[r] \in {Idle} \cup Creation \cup Regeneration
    BY DEF BatchesInv, Types
  <1>1. ASSUME NEW new \in {Idle} \cup Creation, req' = [req EXCEPT ![r] = new],
               UNCHANGED <<batches, job, free, made, op, late, clicks>>
        PROVE  Keeps
    <2>1. new \notin Regeneration /\ new.pc \notin {"regen", "regen_checked"}
      BY DEF Idle, Creation, Regeneration
    <2>2. req'[r] = new
      BY <1>0, <1>1 DEF Types
    <2>3. RegenTrue(r)'
      BY <2>1, <2>2 DEF RegenTrue
    <2> QED BY <1>1, <2>1, <2>3, RequestStep DEF Keeps
  <1>2. ASSUME NEW b \in Batches, NEW n \in Indexes \cup {1}, NEW risky \in SUBSET (1..n),
               NEW touch \in BOOLEAN, CreateReads(r, b, n, risky, touch)
        PROVE  Keeps
    <2> DEFINE new == [pc |-> "batch", batch |-> b, wanted |-> 1..n, risky |-> risky,
                       missing |-> {}, moved |-> {}, new |-> b \notin batches,
                       touch |-> touch /\ b \in batches]
    <2>1. 1..n \subseteq Indexes
      BY BatchesAssumption DEF Indexes
    <2>2. new \in Creation
      BY <2>1, Zenon DEF Creation
    <2>3. req' = [req EXCEPT ![r] = new] /\ UNCHANGED <<batches, job, free, made, op, late, clicks>>
      BY <1>2 DEF CreateReads
    <2> HIDE DEF new
    <2> QED BY <1>1, <2>2, <2>3
  <1>3. CASE SubmitOne(r) \/ SubmitBatch(r)
    <2>1. SubmitOne(r) => Keeps
      BY <1>2 DEF SubmitOne
    <2>2. SubmitBatch(r) => Keeps
      BY <1>2 DEF SubmitBatch
    <2> QED BY <1>3, <2>1, <2>2
  <1>4. CASE CreateFlushes(r)
    <2>1. req[r] \in Creation
      BY <1>0, <1>4, RequestTyped DEF CreateFlushes
    <2>2. [req[r] EXCEPT !.pc = "jobs"] \in Creation
      BY <2>1 DEF Creation
    <2>3. PICK new \in {Idle, [req[r] EXCEPT !.pc = "jobs"]} :
            /\ req' = [req EXCEPT ![r] = new]
            /\ UNCHANGED <<batches, job, free, made, op, late, clicks>>
      BY <1>0, <1>4 DEF CreateFlushes, Types
    <2> QED BY <1>1, <2>2, <2>3
  <1>5. CASE CreateReadsJobs(r)
    <2> DEFINE missing == {i \in req[r].wanted : RowsOf(<<req[r].batch, i>>) = {}}
               moved == {i \in Rows :
                           /\ job[i].request \in {<<req[r].batch, k>> : k \in req[r].wanted}
                           /\ job[i].batch # req[r].batch}
               pc == IF missing \ req[r].risky = {} THEN "insert" ELSE "limits"
               new == [req[r] EXCEPT !.pc = pc, !.wanted = {}, !.risky = req[r].risky \cap missing,
                                     !.missing = missing, !.moved = moved]
    <2>1. req[r] \in Creation
      BY <1>0, <1>5, RequestTyped DEF CreateReadsJobs
    <2>2. missing \subseteq Indexes /\ moved \subseteq Ids /\ pc \in {"insert", "limits"}
      <3>1. req[r].wanted \subseteq Indexes
        BY <2>1 DEF Creation
      <3> QED BY <3>1 DEF Rows
    <2>3. req' = [req EXCEPT ![r] = new] /\ UNCHANGED <<batches, job, free, made, op, late, clicks>>
      BY <1>5, Zenon DEF CreateReadsJobs
    <2> HIDE DEF missing, moved, pc
    <2>4. new \in Creation
      BY <2>1, <2>2 DEF Creation
    <2> QED BY <1>1, <2>3, <2>4
  <1>6. CASE CreateChecksLimits(r)
    <2>1. req[r] \in Creation
      BY <1>0, <1>6, RequestTyped DEF CreateChecksLimits
    <2>2. [req[r] EXCEPT !.pc = "insert"] \in Creation
      BY <2>1 DEF Creation
    <2>3. PICK new \in {Idle, [req[r] EXCEPT !.pc = "insert"]} :
            /\ req' = [req EXCEPT ![r] = new]
            /\ UNCHANGED <<batches, job, free, made, op, late, clicks>>
      BY <1>0, <1>6 DEF CreateChecksLimits, Types
    <2> QED BY <1>1, <2>2, <2>3
  <1>7. CASE RequestFails(r)
    BY <1>1, <1>7 DEF RequestFails
  <1> QED BY <1>3, <1>4, <1>5, <1>6, <1>7

LEMMA RegenerationReads ==
  ASSUME BatchesInv, NEW r \in Reqs,
         \/ \E b \in Batches, ids \in SUBSET Rows : RegenLocksUser(r, b, ids)
         \/ RegenLocksJobs(r) \/ RegenChecksLimits(r)
  PROVE  Keeps
  <1>0. Types /\ RegenTrue(r) /\ PendingLocked
    BY DEF BatchesInv
  <1>1. ASSUME NEW b \in Batches, NEW ids \in SUBSET Rows, RegenLocksUser(r, b, ids)
        PROVE  Keeps
    <2> DEFINE new == [pc |-> "regen_user", batch |-> b, ids |-> ids]
    <2>1. ids \subseteq Ids
      BY DEF Rows
    <2>2. new \in Regeneration /\ new.pc = "regen_user"
      BY <2>1 DEF Regeneration
    <2>3. /\ req' = [req EXCEPT ![r] = new] /\ UNCHANGED <<batches, job, free, made, op, late, clicks>>
          /\ ~UserLocked(Others(r))
      BY <1>1 DEF RegenLocksUser
    <2> HIDE DEF new
    <2>4. RegenTrue(r)'
      BY <1>0, <2>2, <2>3 DEF RegenTrue, Types
    <2> QED BY <2>2, <2>3, <2>4, RequestStep DEF Keeps
  <1>2. ASSUME req' = [req EXCEPT ![r] = Idle], UNCHANGED <<batches, job, free, made, op, late, clicks>>
        PROVE  Keeps
    <2>1. Idle \notin Regeneration /\ Idle.pc = "idle"
      BY DEF Idle, Regeneration
    <2>2. RegenTrue(r)'
      BY <1>0, <1>2, <2>1 DEF RegenTrue, Types
    <2> QED BY <1>2, <2>1, <2>2, RequestStep DEF Keeps
  <1>3. CASE RegenLocksJobs(r)
    <2> DEFINE b == req[r].batch
               ids == req[r].ids
               pending == {i \in ids : ChildOf(i) = {}}
               new == [pc |-> "regen", batch |-> b, ids |-> ids, pending |-> pending]
    <2>1. /\ UNCHANGED <<batches, job, free, made, op, late, clicks>> /\ req[r].pc = "regen_user"
          /\ \/ req' = [req EXCEPT ![r] = Idle]
             \/ /\ req' = [req EXCEPT ![r] = new] /\ ids \subseteq Rows
                /\ \A i \in pending : job[i].status = "failed"
      BY <1>3 DEF RegenLocksJobs
    <2>2. req[r] \in Regeneration /\ b \in Batches /\ ids \in SUBSET Ids
      BY <1>0, <2>1, RequestTyped DEF Regeneration
    <2>3. new \in Regeneration /\ new.pc = "regen" /\ new.pending = pending /\ new.ids = ids
      BY <2>2 DEF Regeneration
    <2>4. CASE req' = [req EXCEPT ![r] = Idle]
      BY <1>2, <2>1, <2>4
    <2>5. CASE req' # [req EXCEPT ![r] = Idle]
      <3>1. pending \subseteq ids /\ \A i \in pending : ChildOf(i) = {}
        OBVIOUS
      <3> HIDE DEF pending, new
      <3>2. req'[r] = new
        BY <1>0, <2>1, <2>5 DEF Types
      <3>3. RegenTrue(r)'
        BY <2>1, <2>3, <2>5, <3>1, <3>2 DEF RegenTrue, Rows, ChildOf
      <3> QED BY <2>1, <2>2, <2>3, <2>5, <3>1, <3>3, RequestStep DEF Keeps
    <2> QED BY <2>4, <2>5
  <1>4. CASE RegenChecksLimits(r)
    <2> DEFINE new == [req[r] EXCEPT !.pc = "regen_checked"]
    <2>1. /\ UNCHANGED <<batches, job, free, made, op, late, clicks>> /\ req[r].pc = "regen"
          /\ \/ req' = [req EXCEPT ![r] = Idle]
             \/ /\ req' = [req EXCEPT ![r] = new]
                /\ req[r].pending = {} \/ WithinDaily(Cardinality(req[r].pending))
      BY <1>4 DEF RegenChecksLimits
    <2>2. req[r] \in Regeneration
      BY <1>0, <2>1, RequestTyped
    <2>3. /\ new \in Regeneration /\ new.pc = "regen_checked" /\ new.pending = req[r].pending
          /\ new.ids = req[r].ids
      BY <2>1, <2>2 DEF Regeneration
    <2>4. CASE req' = [req EXCEPT ![r] = Idle]
      BY <1>2, <2>1, <2>4
    <2>5. CASE req' # [req EXCEPT ![r] = Idle]
      <3> HIDE DEF new
      <3>1. req'[r] = new
        BY <1>0, <2>1, <2>5 DEF Types
      <3>2. RegenTrue(r)'
        BY <1>0, <2>1, <2>3, <2>5, <3>1 DEF RegenTrue, Rows, ChildOf, WithinDaily
      <3> QED BY <1>0, <2>1, <2>2, <2>3, <2>5, <3>2, RequestStep DEF Keeps, PendingLocked
    <2> QED BY <2>4, <2>5
  <1> QED BY <1>1, <1>3, <1>4

\* One row gets another status, and its unit may be spent or given back.
LEMMA OneRowStep ==
  ASSUME BatchesInv, NEW i \in Rows, NEW row \in JobRow, job' = [job EXCEPT ![i] = row],
         row.request = job[i].request, row.source = job[i].source, row.status # "queued",
         ~JobLocked(i), Final(i) => row.status = "interrupted",
         UNCHANGED <<batches, made, req>>, clicks' \in 0..MaxClicks, UnitsCovered',
         late' \subseteq late, op' \in {op, Idle}
  PROVE  Keeps
  <1>0. Types /\ i \in Ids
    BY DEF BatchesInv, Rows
  <1>1. /\ job' \in [Ids -> {Absent} \cup JobRow] /\ job'[i] = row
        /\ \A k \in Ids \ {i} : job'[k] = job[k]
    BY <1>0 DEF Types
  <1>2. ASSUME NEW k \in Ids PROVE Quiet(k)
    <2>1. CASE k = i
      BY <1>1, <2>1 DEF Quiet
    <2>2. CASE k # i
      BY <1>0, <1>1, <2>2 DEF Quiet, Rows, Types
    <2> QED BY <2>1, <2>2
  <1>3. row # Absent
    BY DEF JobRow, Absent
  <1>4. \A k \in Rows : JobLocked(k) /\ job[k].status = "failed"
                          => k \in Rows' /\ job'[k].status = "failed"
    BY <1>1 DEF Rows
  <1>5. ASSUME NEW k \in Ids, Final(k), ChildOf(k)' # {} PROVE Final(k)'
    <2>1. k \notin late' /\ ~(op'.pc = "resume" /\ op'.ids = {k})
      BY <1>5 DEF Final, Idle
    <2>2. k \in Rows' /\ job'[k].status \in {"failed", "interrupted"}
      BY <1>1, <1>3, <1>5 DEF Final, Rows
    <2> QED BY <1>5, <2>1, <2>2 DEF Final
  <1>6. late' \subseteq Ids /\ batches' \subseteq Batches
    BY <1>0 DEF Types
  <1>7. BatchesInv' /\ \A k \in Ids : ~Breaks(k)
    BY <1>1, <1>2, <1>4, <1>5, <1>6, RowsStep
  <1> QED BY <1>7 DEF Keeps

\* Units that are no longer held, or are given back.
LEMMA UnitsStep ==
  ASSUME BatchesInv, Holding' \subseteq Holding,
         \/ free' = free
         \/ \E i \in Holding : i \notin Holding' /\ free' = free + 1
  PROVE  UnitsCovered'
  <1>0. /\ free \in Nat /\ free + Cardinality(Holding) <= Units
        /\ IsFiniteSet(Holding) /\ Cardinality(Holding) \in Nat
    BY FiniteRows DEF BatchesInv, UnitsCovered
  <1>1. ASSUME NEW S, Holding' \subseteq S, S \subseteq Holding
        PROVE  /\ IsFiniteSet(S) /\ Cardinality(S) \in Nat /\ IsFiniteSet(Holding')
               /\ Cardinality(Holding') \in Nat /\ Cardinality(Holding') <= Cardinality(S)
    BY <1>0, <1>1, FS_Subset, FS_CardinalityType
  <1>2. CASE free' = free
    <2>1. /\ Cardinality(Holding') \in Nat /\ Cardinality(Holding') <= Cardinality(Holding)
      BY <1>1
    <2> QED BY <1>0, <1>2, <2>1, BatchesAssumption DEF UnitsCovered
  <1>3. CASE \E i \in Holding : i \notin Holding' /\ free' = free + 1
    <2>1. PICK i \in Holding : i \notin Holding' /\ free' = free + 1
      BY <1>3
    <2>2. Cardinality(Holding \ {i}) = Cardinality(Holding) - 1
      BY <1>0, FS_RemoveElement
    <2>3. /\ Cardinality(Holding') \in Nat
          /\ Cardinality(Holding') <= Cardinality(Holding \ {i})
      BY <1>1, <2>1
    <2> QED BY <1>0, <2>1, <2>2, <2>3, BatchesAssumption DEF UnitsCovered
  <1> QED BY <1>2, <1>3

\* The units held after a row has changed.
LEMMA HoldingNow ==
  ASSUME Types, NEW i \in Rows, NEW row \in JobRow, job' = [job EXCEPT ![i] = row]
  PROVE  /\ Holding' = IF row.unit \in {"reserved", "charged"} THEN Holding \cup {i}
                                                               ELSE Holding \ {i}
         /\ i \in Holding <=> job[i].unit \in {"reserved", "charged"}
  <1>1. row # Absent
    BY DEF JobRow, Absent
  <1>2. job'[i] = row /\ \A k \in Ids \ {i} : job'[k] = job[k]
    BY DEF Types, Rows
  <1>3. \A k \in Ids \ {i} : k \in Holding' <=> k \in Holding
    BY <1>2 DEF Holding, Rows
  <1>4. i \in Holding' <=> row.unit \in {"reserved", "charged"}
    BY <1>1, <1>2 DEF Holding, Rows
  <1> QED BY <1>3, <1>4 DEF Holding, Rows

\* A row fails.
LEMMA FailStep ==
  ASSUME BatchesInv, NEW i \in Ids, Fail(i), ~JobLocked(i), ~Final(i),
         UNCHANGED <<batches, made, req, op, clicks>>, late' \subseteq late
  PROVE  Keeps
  <1> DEFINE unit == IF job[i].unit = "charged" THEN "refunded"
                     ELSE IF job[i].unit = "reserved" THEN "released" ELSE job[i].unit
             row == [job[i] EXCEPT !.status = "failed", !.unit = unit]
  <1>0. Types /\ i \in Rows /\ job[i] \in JobRow
    BY RowTyped DEF BatchesInv, Fail
  <1>1. unit \in {"none", "released", "refunded"}
    BY <1>0 DEF JobRow
  <1>2. /\ row \in JobRow /\ row.request = job[i].request /\ row.source = job[i].source
        /\ row.status = "failed" /\ row.unit = unit
    BY <1>0, <1>1 DEF JobRow, Statuses
  <1>3. /\ job' = [job EXCEPT ![i] = row]
        /\ free' = IF job[i].unit \in {"charged", "reserved"} THEN free + 1 ELSE free
    BY DEF Fail
  <1> HIDE DEF row, unit
  <1>4. Holding' = Holding \ {i} /\ (i \in Holding <=> job[i].unit \in {"reserved", "charged"})
    BY <1>0, <1>1, <1>2, <1>3, HoldingNow
  <1>5. UnitsCovered'
    BY <1>3, <1>4, UnitsStep
  <1>6. clicks' \in 0..MaxClicks
    BY <1>0 DEF Types
  <1> QED BY <1>0, <1>2, <1>3, <1>5, <1>6, OneRowStep

\* Only the status of a row changes.
LEMMA StatusStep ==
  ASSUME BatchesInv, NEW i \in Rows, ~JobLocked(i), NEW s \in Statuses \ {"queued"},
         job' = [job EXCEPT ![i].status = s], Final(i) => s = "interrupted",
         UNCHANGED <<batches, free, made, req>>, clicks' \in 0..MaxClicks,
         late' \subseteq late, op' \in {op, Idle}
  PROVE  Keeps
  <1> DEFINE row == [job[i] EXCEPT !.status = s]
  <1>0. Types /\ i \in Ids /\ job[i] \in JobRow
    BY RowTyped DEF BatchesInv
  <1>1. /\ row \in JobRow /\ row.request = job[i].request /\ row.source = job[i].source
        /\ row.status = s /\ row.unit = job[i].unit
    BY <1>0 DEF JobRow
  <1>2. job' = [job EXCEPT ![i] = row]
    OBVIOUS
  <1> HIDE DEF row
  <1>3. Holding' \subseteq Holding
    <2>1. i \in Holding <=> row.unit \in {"reserved", "charged"}
      BY <1>1 DEF Holding
    <2>2. Holding' = IF row.unit \in {"reserved", "charged"} THEN Holding \cup {i}
                                                            ELSE Holding \ {i}
      BY <1>0, <1>1, <1>2, HoldingNow
    <2> QED BY <2>1, <2>2
  <1>4. UnitsCovered'
    BY <1>3, UnitsStep
  <1> QED BY <1>1, <1>2, <1>4, OneRowStep

\* Nobody's row changes and no request goes on.
LEMMA SameRowsStep ==
  ASSUME BatchesInv, UNCHANGED <<batches, job, free, made, req>>, clicks' \in 0..MaxClicks,
         late' \subseteq Ids,
         \A i \in Ids : Final(i) /\ ChildOf(i)' # {} /\ ~Final(i)' => AdminResumeRead(i)
  PROVE  Keeps
  <1>1. Rows' = Rows /\ \A i \in Ids : ChildOf(i)' = ChildOf(i)
    BY DEF Rows, ChildOf
  <1>2. \A r \in Reqs : RegenTrue(r)'
    BY <1>1, TruthStays DEF Rows
  <1>3. Types' /\ RowsFit' /\ UnitsCovered' /\ OneEach' /\ OneAtATime' /\ PendingLocked'
    BY <1>1 DEF BatchesInv, Types, RowsFit, UnitsCovered, Holding, OneEach, OneAtATime,
                PendingLocked
  <1>4. \A i \in Ids : Breaks(i) => AdminResumeRead(i)
    BY <1>1 DEF Breaks
  <1> QED BY <1>2, <1>3, <1>4 DEF Keeps, BatchesInv

LEMMA WorkerStep ==
  ASSUME BatchesInv, NEW i \in Ids,
         \/ WorkerSubmits(i) \/ WorkerFails(i) \/ WorkerEnds(i)
         \/ LateReads(i) \/ LateWrites(i)
  PROVE  Keeps
  <1>0. Types /\ RowsFit /\ clicks \in 0..MaxClicks
    BY DEF BatchesInv, Types
  <1>1. CASE WorkerSubmits(i)
    <2> DEFINE row == [job[i] EXCEPT !.status = "generating", !.remote = TRUE, !.unit = "charged"]
    <2>0. i \in Rows /\ job[i] \in JobRow
      BY <1>0, <1>1, RowTyped DEF WorkerSubmits
    <2>1. /\ row \in JobRow /\ row.request = job[i].request /\ row.source = job[i].source
          /\ row.status = "generating" /\ row.unit = "charged"
      BY <2>0 DEF JobRow, Statuses
    <2>2. /\ job[i].status = "queued" /\ job' = [job EXCEPT ![i] = row] /\ ~JobLocked(i)
          /\ UNCHANGED <<batches, free, made, req, op, late, clicks>>
      BY <1>1 DEF WorkerSubmits
    <2> HIDE DEF row
    <2>3. job[i].unit = "reserved"
      BY <1>0, <2>0, <2>2 DEF RowsFit
    <2>4. UnitsCovered'
      BY <1>0, <2>0, <2>1, <2>2, <2>3, HoldingNow, UnitsStep
    <2>5. ~Final(i)
      BY <2>2 DEF Final
    <2> QED BY <1>0, <2>0, <2>1, <2>2, <2>4, <2>5, OneRowStep
  <1>2. CASE WorkerFails(i)
    <2>1. ~Final(i)
      BY <1>2 DEF WorkerFails, Final
    <2> QED BY <1>2, <2>1, FailStep DEF WorkerFails
  <1>3. CASE WorkerEnds(i)
    <2>1. ~Final(i) /\ "ended" \in Statuses \ {"queued"}
      BY <1>3 DEF WorkerEnds, Final, Statuses
    <2> QED BY <1>0, <1>3, <2>1, StatusStep DEF WorkerEnds
  <1>4. CASE LateReads(i)
    <2>1. UNCHANGED <<batches, job, free, made, req, op, clicks>> /\ late' = late \cup {i}
      BY <1>4 DEF LateReads
    <2>2. ~Final(i)
      BY <1>4 DEF LateReads, Final
    <2>3. ASSUME NEW k \in Ids, Final(k) PROVE Final(k)'
      BY <2>1, <2>2, <2>3 DEF Final, Rows, ChildOf
    <2>4. late' \subseteq Ids
      BY <1>0, <2>1 DEF Types
    <2> QED BY <1>0, <2>1, <2>3, <2>4, SameRowsStep
  <1>5. CASE LateWrites(i)
    <2>1. /\ i \in late /\ ~JobLocked(i) /\ late' = late \ {i} /\ ~Final(i)
          /\ UNCHANGED <<batches, made, req, op, clicks>>
      BY <1>5 DEF LateWrites, Final
    <2>2. ASSUME i \in Rows, UNCHANGED free, NEW s \in {"generating", "ended"},
                 job' = [job EXCEPT ![i].status = s]
          PROVE  Keeps
      <3>1. s \in Statuses \ {"queued"}
        BY <2>2 DEF Statuses
      <3> QED BY <1>0, <2>1, <2>2, <3>1, StatusStep
    <2>3. CASE Fail(i)
      BY <2>1, <2>3, FailStep
    <2>4. CASE UNCHANGED <<job, free>>
      <3>1. ASSUME NEW k \in Ids, Final(k) PROVE Final(k)'
        BY <2>1, <2>4, <3>1 DEF Final, Rows, ChildOf
      <3>2. late' \subseteq Ids
        BY <1>0, <2>1 DEF Types
      <3> QED BY <1>0, <2>1, <2>4, <3>1, <3>2, SameRowsStep
    <2> QED BY <1>5, <2>2, <2>3, <2>4 DEF LateWrites
  <1> QED BY <1>1, <1>2, <1>3, <1>4, <1>5

\* Jobs are deleted, and the units they still reserve are free again.
LEMMA DeletionStep ==
  ASSUME BatchesInv, NEW S \in SUBSET Rows, DeleteRows(S), UNCHANGED <<made, req, op, late>>,
         batches' \subseteq Batches, clicks' \in 0..MaxClicks
  PROVE  Keeps
  <1>0. Types /\ UnitsCovered /\ S \subseteq Ids
    BY DEF BatchesInv, Rows
  <1>1. ASSUME NEW i \in Ids
        PROVE  IF i \in S \/ job[i] = Absent THEN job'[i] = Absent
               ELSE /\ job'[i] \in JobRow /\ i \in Rows /\ job'[i] # Absent
                    /\ job'[i].request = job[i].request /\ job'[i].source \in {job[i].source, 0}
                    /\ job'[i].status = job[i].status /\ job'[i].unit = job[i].unit
    <2>1. CASE i \in S \/ job[i] = Absent
      BY <2>1 DEF DeleteRows
    <2>2. CASE ~(i \in S \/ job[i] = Absent)
      <3> DEFINE n == IF job[i].source \in S THEN 0 ELSE job[i].source
                 row == [job[i] EXCEPT !.source = n]
      <3>1. job'[i] = row
        BY <2>2 DEF DeleteRows
      <3>2. i \in Rows /\ job[i] \in JobRow /\ n \in {job[i].source, 0} /\ n \in 0..MaxJobs
        BY <1>0, <2>2, RowTyped, BatchesAssumption DEF Rows
      <3> HIDE DEF n
      <3>3. /\ row \in JobRow /\ row.request = job[i].request /\ row.source = n
            /\ row.status = job[i].status /\ row.unit = job[i].unit
        BY <3>2 DEF JobRow
      <3>4. row # Absent
        BY <3>3 DEF JobRow, Absent
      <3> QED BY <2>2, <3>1, <3>2, <3>3, <3>4
    <2> QED BY <2>1, <2>2
  <1>2. job' \in [Ids -> {Absent} \cup JobRow]
    <2>1. job' = [i \in Ids |-> job'[i]]
      BY DEF DeleteRows
    <2>2. \A i \in Ids : job'[i] \in {Absent} \cup JobRow
      BY <1>1
    <2> QED BY <2>1, <2>2
  <1>3. \A i \in Ids : Quiet(i)
    BY <1>1 DEF Quiet
  <1>4. Rows' = Rows \ S
    BY <1>1 DEF Rows
  <1>5. ASSUME NEW i \in Rows, JobLocked(i) PROVE i \in Rows' /\ job'[i].status = job[i].status
    <2>1. i \notin S
      BY <1>5 DEF DeleteRows
    <2> QED BY <1>1, <1>4, <2>1 DEF Rows
  <1>6. UnitsCovered'
    <2> DEFINE kept == Holding \ S
               gone == Holding \cap S
               given == {i \in S : Holds(i)}
    <2>1. Holding' = kept
      BY <1>1, <1>4 DEF Holding, Rows
    <2>2. given \subseteq gone /\ kept \cup gone = Holding /\ kept \cap gone = {}
      BY DEF Holding, Holds
    <2>3. /\ IsFiniteSet(kept) /\ IsFiniteSet(gone) /\ Cardinality(kept) \in Nat
          /\ Cardinality(gone) \in Nat /\ Cardinality(given) \in Nat
          /\ Cardinality(given) <= Cardinality(gone)
      <3>1. kept \in SUBSET Ids /\ gone \in SUBSET Ids /\ given \in SUBSET Ids
        BY <1>0 DEF Holding, Rows
      <3> HIDE DEF kept, gone, given
      <3> QED BY <2>2, <3>1, FiniteRows, FS_Subset
    <2>4. free' = free + Cardinality(given)
      BY DEF DeleteRows
    <2> HIDE DEF kept, gone, given
    <2>5. Cardinality(kept) + Cardinality(gone) = Cardinality(Holding)
      <3>1. Cardinality(kept \cap gone) = 0
        BY <2>2, FS_EmptySet
      <3>2. Cardinality(kept \cup gone)
              = Cardinality(kept) + Cardinality(gone) - Cardinality(kept \cap gone)
        BY <2>3, FS_Union, Zenon
      <3>3. Cardinality(kept \cup gone) = Cardinality(Holding)
        BY <2>2, Zenon
      <3> QED BY <2>3, <3>1, <3>2, <3>3, FiniteRows
    <2> QED BY <1>0, <2>1, <2>3, <2>4, <2>5, FiniteRows, BatchesAssumption DEF UnitsCovered
  <1>7. ASSUME NEW i \in Ids, Final(i), ChildOf(i)' # {} PROVE Final(i)'
    <2>1. PICK c \in Rows' : job'[c].source = i
      BY <1>7 DEF ChildOf
    <2>2. c \in Ids /\ c \notin S /\ job[c] # Absent /\ i # 0
      BY <1>4, <2>1, BatchesAssumption DEF Rows, Ids
    <2>3. job[c].source = i /\ i \notin S
      BY <2>1, <2>2 DEF DeleteRows
    <2>4. i \in Rows' /\ job'[i].status = job[i].status
      BY <1>1, <1>4, <1>7, <2>3 DEF Final, Rows
    <2> QED BY <1>7, <2>4 DEF Final
  <1>8. late' \subseteq Ids
    BY <1>0 DEF Types
  <1>9. BatchesInv' /\ \A i \in Ids : ~Breaks(i)
    BY <1>2, <1>3, <1>5, <1>6, <1>7, <1>8, RowsStep
  <1> QED BY <1>9 DEF Keeps

\* Batches without jobs are deleted; a job one of them got meanwhile is left without.
LEMMA CleanupStep ==
  ASSUME BatchesInv, CleanupDeletes
  PROVE  Keeps
  <1> DEFINE empty == batches \ op.used
  <1>0. Types /\ UnitsCovered
    BY DEF BatchesInv
  <1>1. /\ batches' = batches \ empty /\ UNCHANGED <<free, made, req, late, clicks>> /\ op' = Idle
        /\ job' = [i \in Ids |-> IF i \in Rows /\ job[i].batch \in empty
                                 THEN [job[i] EXCEPT !.batch = NoBatch] ELSE job[i]]
    BY DEF CleanupDeletes
  <1> HIDE DEF empty
  <1>2. ASSUME NEW i \in Ids
        PROVE  IF i \in Rows
               THEN /\ job'[i] \in JobRow /\ job'[i] # Absent
                    /\ job'[i].request = job[i].request /\ job'[i].source = job[i].source
                    /\ job'[i].status = job[i].status /\ job'[i].unit = job[i].unit
               ELSE job'[i] = Absent
    <2>1. CASE i \notin Rows
      BY <1>1, <2>1 DEF Rows
    <2>2. CASE i \in Rows
      <3>1. job[i] \in JobRow
        BY <1>0, <2>2, RowTyped
      <3>2. \A row \in JobRow : /\ [row EXCEPT !.batch = NoBatch] \in JobRow
                                /\ [row EXCEPT !.batch = NoBatch].request = row.request
                                /\ [row EXCEPT !.batch = NoBatch].source = row.source
                                /\ [row EXCEPT !.batch = NoBatch].status = row.status
                                /\ [row EXCEPT !.batch = NoBatch].unit = row.unit
        BY DEF JobRow
      <3>3. job'[i] = [job[i] EXCEPT !.batch = NoBatch] \/ job'[i] = job[i]
        BY <1>1
      <3>4. \A row \in JobRow : row # Absent
        BY DEF JobRow, Absent
      <3>5. job'[i] \in JobRow
        BY <3>1, <3>2, <3>3
      <3> QED BY <2>2, <3>1, <3>2, <3>3, <3>4, <3>5
    <2> QED BY <2>1, <2>2
  <1>3. job' \in [Ids -> {Absent} \cup JobRow]
    <2>1. job' = [i \in Ids |-> job'[i]]
      BY <1>1
    <2>2. \A i \in Ids : job'[i] \in {Absent} \cup JobRow
      BY <1>2
    <2> QED BY <2>1, <2>2
  <1>4. \A i \in Ids : Quiet(i)
    BY <1>2 DEF Quiet
  <1>5. Rows' = Rows
    BY <1>2 DEF Rows
  <1>6. \A i \in Rows : i \in Rows' /\ job'[i].status = job[i].status
    BY <1>2, <1>5 DEF Rows
  <1>7. UnitsCovered'
    <2>1. Holding' \subseteq Holding
      BY <1>2, <1>5 DEF Holding, Rows
    <2> QED BY <1>1, <2>1, UnitsStep
  <1>8. batches' \subseteq Batches /\ clicks' \in 0..MaxClicks /\ late' \subseteq Ids
    BY <1>0, <1>1 DEF Types
  <1>9. ASSUME NEW i \in Ids, Final(i), ChildOf(i)' # {} PROVE Final(i)'
    <2>1. i \in Rows' /\ job'[i].status = job[i].status
      BY <1>6, <1>9 DEF Final
    <2>2. i \notin late' /\ op'.pc # "resume"
      BY <1>1, <1>9 DEF Final, Idle
    <2> QED BY <1>9, <2>1, <2>2 DEF Final
  <1>10. BatchesInv' /\ \A i \in Ids : ~Breaks(i)
    BY <1>1, <1>3, <1>4, <1>6, <1>7, <1>8, <1>9, RowsStep
  <1> QED BY <1>10 DEF Keeps

LEMMA ClickStep ==
  ASSUME BatchesInv, ClickNext
  PROVE  Keeps
  <1>0. Types
    BY DEF BatchesInv
  <1>1. Click => clicks' \in 0..MaxClicks
    BY <1>0, BatchesAssumption DEF Click, Types
  <1>2. UNCHANGED batches => batches' \subseteq Batches
    BY <1>0 DEF Types
  <1>3. UNCHANGED clicks => clicks' \in 0..MaxClicks
    BY <1>0 DEF Types
  <1>4. ASSUME NEW i \in Rows, ~JobLocked(i), ~Final(i), job' = Resumed(i),
               UNCHANGED <<batches, free, made, req, late>>, clicks' \in 0..MaxClicks,
               op' \in {op, Idle}
        PROVE  Keeps
    <2>1. job' = [job EXCEPT ![i].status = "generating"]
      BY <1>4 DEF Resumed
    <2>2. "generating" \in Statuses \ {"queued"}
      BY DEF Statuses
    <2> QED BY <1>4, <2>1, <2>2, StatusStep
  <1>5. ASSUME NEW i \in Ids, UserResume(i) PROVE Keeps
    <2>1. /\ i \in Rows /\ ~JobLocked(i) /\ ChildOf(i) = {} /\ job' = Resumed(i)
          /\ UNCHANGED <<batches, free, made, req, op, late>> /\ clicks' \in 0..MaxClicks
      BY <1>1, <1>5 DEF UserResume, CanResume
    <2>2. ~Final(i)
      BY <2>1 DEF Final
    <2> QED BY <1>4, <2>1, <2>2
  <1>6. ASSUME NEW i \in Ids, AdminResumeRead(i) PROVE Keeps
    <2>1. /\ UNCHANGED <<batches, job, free, made, req, late>> /\ clicks' \in 0..MaxClicks
          /\ op' = [pc |-> "resume", ids |-> {i}]
      BY <1>1, <1>6 DEF AdminResumeRead
    <2>2. ASSUME NEW k \in Ids, k # i, Final(k) PROVE Final(k)'
      <3>1. Rows' = Rows /\ ChildOf(k)' = ChildOf(k) /\ op'.ids # {k}
        BY <2>1, <2>2 DEF Rows, ChildOf
      <3> QED BY <2>1, <2>2, <3>1 DEF Final
    <2>3. late' \subseteq Ids
      BY <1>0, <2>1 DEF Types
    <2> QED BY <1>6, <2>1, <2>2, <2>3, SameRowsStep
  <1>7. CASE CleanupReads
    <2>1. /\ UNCHANGED <<batches, job, free, made, req, late>> /\ clicks' \in 0..MaxClicks
          /\ op'.pc = "cleanup"
      BY <1>1, <1>7 DEF CleanupReads
    <2>2. ASSUME NEW k \in Ids, Final(k) PROVE Final(k)'
      <3>1. Rows' = Rows /\ ChildOf(k)' = ChildOf(k)
        BY <2>1 DEF Rows, ChildOf
      <3> QED BY <2>1, <2>2, <3>1 DEF Final
    <2>3. late' \subseteq Ids
      BY <1>0, <2>1 DEF Types
    <2> QED BY <2>1, <2>2, <2>3, SameRowsStep
  <1>8. ASSUME NEW i \in Ids, AdminResumeWrite(i) PROVE Keeps
    <2>1. /\ op.pc = "resume" /\ op.ids = {i} /\ ~JobLocked(i) /\ op' = Idle
          /\ job' = IF i \in Rows THEN Resumed(i) ELSE job
          /\ UNCHANGED <<batches, free, made, req, late, clicks>>
      BY <1>8 DEF AdminResumeWrite
    <2>2. CASE i \notin Rows
      <3>1. ASSUME NEW k \in Ids, Final(k) PROVE Final(k)'
        <4>1. Rows' = Rows /\ ChildOf(k)' = ChildOf(k) /\ op'.pc # "resume" /\ job' = job
          BY <2>1, <2>2 DEF Rows, ChildOf, Idle
        <4> QED BY <2>1, <3>1, <4>1 DEF Final
      <3>2. late' \subseteq Ids /\ job' = job
        BY <1>0, <2>1, <2>2 DEF Types
      <3> QED BY <1>3, <2>1, <3>1, <3>2, SameRowsStep
    <2>3. CASE i \in Rows
      <3>1. ~Final(i)
        BY <2>1 DEF Final
      <3> QED BY <1>3, <1>4, <2>1, <2>3, <3>1
    <2> QED BY <2>2, <2>3
  <1>12. ASSUME NEW i \in Ids, Pause(i) PROVE Keeps
    <2>1. "interrupted" \in Statuses \ {"queued"}
      BY DEF Statuses
    <2> QED BY <1>1, <1>12, <2>1, StatusStep DEF Pause
  <1>9. ASSUME NEW i \in Ids, DeleteJob(i) PROVE Keeps
    <2>1. /\ i \in Rows /\ DeleteRows({i}) /\ clicks' \in 0..MaxClicks
          /\ UNCHANGED <<batches, made, req, op, late>>
      BY <1>1, <1>9 DEF DeleteJob
    <2> QED BY <1>2, <2>1, DeletionStep
  <1>10. CASE DeleteFailed
    <2> DEFINE S == {i \in Rows : job[i].status = "failed"}
    <2>1. /\ DeleteRows(S) /\ clicks' \in 0..MaxClicks 
          /\ UNCHANGED <<batches, made, req, op, late>>
      BY <1>1, <1>10 DEF DeleteFailed
    <2>2. S \in SUBSET Rows
      OBVIOUS
    <2> HIDE DEF S
    <2> QED BY <1>2, <2>1, <2>2, DeletionStep
  <1>11. ASSUME NEW b \in Batches, DeleteBatch(b) PROVE Keeps
    <2> DEFINE S == {i \in Rows : job[i].batch = b}
    <2>1. /\ DeleteRows(S) /\ clicks' \in 0..MaxClicks /\ batches' = batches \ {b}
          /\ UNCHANGED <<made, req, op, late>>
      BY <1>1, <1>11 DEF DeleteBatch
    <2>2. S \in SUBSET Rows /\ batches' \subseteq Batches
      BY <1>0, <2>1 DEF Types
    <2> HIDE DEF S
    <2> QED BY <2>1, <2>2, DeletionStep
  <1> QED BY <1>5, <1>6, <1>7, <1>8, <1>9, <1>10, <1>11, <1>12, CleanupStep DEF ClickNext

--------------------------------------------------------------------------------
\* Steps that make jobs.

\* The guard on missing quota leaves a unit for every job that is made.
LEMMA UnitsForNew ==
  ASSUME BatchesInv, NEW S, IsFiniteSet(S), NEW f \in [S -> Ids],
         Holding' \subseteq Holding \cup {f[s] : s \in S},
         Enough(Cardinality(S)), free' = free - Cardinality(S)
  PROVE  UnitsCovered'
  <1> DEFINE new == {f[s] : s \in S}
  <1>0. /\ free \in Nat /\ free + Cardinality(Holding) <= Units
        /\ IsFiniteSet(Holding) /\ Cardinality(Holding) \in Nat
    BY FiniteRows DEF BatchesInv, UnitsCovered
  <1>1. /\ IsFiniteSet(new) /\ Cardinality(new) <= Cardinality(S)
    <2>1. f \in Surjection(S, new)
      <3>1. f \in [S -> new] /\ \A n \in new : \E s \in S : f[s] = n
        OBVIOUS
      <3> HIDE DEF new
      <3> QED BY <3>1 DEF Surjection
    <2> HIDE DEF new
    <2> QED BY <2>1, FS_Surjection
  <1> HIDE DEF new
  <1>2. Cardinality(S) \in Nat /\ Cardinality(new) \in Nat
    BY <1>1, FS_CardinalityType
  <1>3. /\ IsFiniteSet(Holding \cup new) /\ IsFiniteSet(Holding \cap new)
        /\ Cardinality(Holding \cup new)
             = Cardinality(Holding) + Cardinality(new) - Cardinality(Holding \cap new)
    BY <1>0, <1>1, FS_Union, FS_Intersection, Zenon
  <1>4. Cardinality(Holding \cap new) \in Nat /\ Cardinality(Holding \cup new) \in Nat
    BY <1>3, FS_CardinalityType
  <1>5. Holding' \subseteq Holding \cup new
    BY DEF new
  <1>6. Cardinality(Holding') \in Nat /\ Cardinality(Holding') <= Cardinality(Holding \cup new)
    BY <1>3, <1>5, FS_Subset, FS_CardinalityType
  <1>7. free >= Cardinality(S)
    BY DEF Enough
  <1> QED BY <1>0, <1>1, <1>2, <1>3, <1>4, <1>6, <1>7, BatchesAssumption DEF UnitsCovered

\* What a step that makes jobs gives row i: N is the set of ids made.
Grows(N, i) ==
  IF i \in N
  THEN /\ job'[i] \in JobRow /\ job'[i].source <= made
       /\ job'[i].status = "queued" => job'[i].unit = "reserved"
  ELSE \/ job'[i] = job[i]
       \/ /\ i \in Rows /\ job'[i] \in JobRow
          /\ job'[i].request = job[i].request /\ job'[i].source = job[i].source
          /\ job'[i].status = job[i].status /\ job'[i].unit = job[i].unit

LEMMA GrowingRows ==
  ASSUME BatchesInv, NEW N \in SUBSET (made + 1 .. made'), N \subseteq Ids, made' \in made..MaxJobs,
         job' = [i \in Ids |-> job'[i]], \A i \in Ids : Grows(N, i)
  PROVE  /\ job' \in [Ids -> {Absent} \cup JobRow] /\ RowsFit' /\ Rows' = Rows \cup N
         /\ N \cap Rows = {}
         /\ \A i \in Rows : /\ job'[i].request = job[i].request /\ job'[i].source = job[i].source
                            /\ job'[i].status = job[i].status /\ job'[i].unit = job[i].unit
         /\ \A i \in Ids : ChildOf(i)' = ChildOf(i) \cup {c \in N : job'[c].source = i}
         /\ \A i \in N : ChildOf(i)' = {}
  <1>0. Types /\ RowsFit /\ made \in Nat /\ made' \in Nat /\ N \subseteq Nat
    BY BatchesAssumption DEF BatchesInv, Types
  <1>1. \A row \in JobRow : row # Absent
    BY DEF JobRow, Absent
  <1>2. N \cap Rows = {}
    <2>1. \A i \in Rows : i \in Nat /\ i <= made
      BY <1>0 DEF RowsFit, Rows, Ids
    <2>2. \A i \in N : i \in Nat /\ i > made
      BY <1>0
    <2> QED BY <1>0, <2>1, <2>2
  <1>3. ASSUME NEW i \in Ids
        PROVE  /\ job'[i] \in {Absent} \cup JobRow
               /\ i \in N => /\ job'[i] \in JobRow /\ job'[i].source <= made
                             /\ job'[i].status = "queued" => job'[i].unit = "reserved"
               /\ i \in Rows => /\ job'[i] \in JobRow
                                /\ job'[i].request = job[i].request /\ job'[i].source = job[i].source
                                /\ job'[i].status = job[i].status /\ job'[i].unit = job[i].unit
               /\ i \notin N \cup Rows => job'[i] = Absent
    <2>1. job[i] \in {Absent} \cup JobRow /\ (i \in Rows <=> job[i] # Absent)
      BY <1>0 DEF Types, Rows
    <2>2. Grows(N, i)
      OBVIOUS
    <2> QED BY <1>2, <2>1, <2>2 DEF Grows
  <1>4. job' \in [Ids -> {Absent} \cup JobRow]
    <2>1. \A i \in Ids : job'[i] \in {Absent} \cup JobRow
      BY <1>3
    <2> QED BY <2>1
  <1>5. Rows' = Rows \cup N
    <2>1. Rows \subseteq Ids /\ Rows' = {i \in Ids : job'[i] # Absent}
      BY DEF Rows
    <2> QED BY <1>1, <1>3, <2>1
  <1>6. RowsFit'
    <2> SUFFICES ASSUME NEW i \in Rows \cup N
                 PROVE  /\ i <= made' /\ job'[i].source < i
                        /\ job'[i].status = "queued" => job'[i].unit = "reserved"
      BY <1>5 DEF RowsFit
    <2>0. i \in Ids
      BY DEF Rows
    <2>1. CASE i \in Rows
      <3>1. /\ i <= made /\ job[i].source < i
            /\ job[i].status = "queued" => job[i].unit = "reserved"
        BY <1>0, <2>1 DEF RowsFit
      <3>2. /\ job'[i].source = job[i].source
            /\ job'[i].status = job[i].status /\ job'[i].unit = job[i].unit
        BY <1>3, <2>0, <2>1
      <3>3. i <= made'
        BY <1>0, <2>0, <3>1 DEF Ids
      <3> QED BY <3>1, <3>2, <3>3
    <2>2. CASE i \in N
      <3>1. /\ job'[i].source <= made /\ job'[i] \in JobRow
            /\ job'[i].status = "queued" => job'[i].unit = "reserved"
        BY <1>3, <2>0, <2>2
      <3>2. job'[i].source \in 0..MaxJobs
        BY <3>1 DEF JobRow
      <3>3. i \in made + 1 .. made'
        BY <2>2
      <3>4. i <= made' /\ job'[i].source < i
        BY <1>0, <3>1, <3>2, <3>3, BatchesAssumption
      <3> QED BY <3>1, <3>4
    <2> QED BY <2>1, <2>2
  <1>7. \A i \in Rows : /\ job'[i].request = job[i].request /\ job'[i].source = job[i].source
                        /\ job'[i].status = job[i].status /\ job'[i].unit = job[i].unit
    BY <1>3 DEF Rows
  <1>8. ASSUME NEW i \in Ids
        PROVE  ChildOf(i)' = ChildOf(i) \cup {c \in N : job'[c].source = i}
    BY <1>5, <1>7 DEF ChildOf
  <1>9. ASSUME NEW i \in N PROVE ChildOf(i)' = {}
    <2>0. i \in Ids /\ i \in Nat /\ i > made
      BY <1>0
    <2>1. \A c \in N : job'[c].source # i
      <3> SUFFICES ASSUME NEW c \in N, job'[c].source = i PROVE FALSE
        OBVIOUS
      <3>1. job'[c].source <= made
        BY <1>3
      <3> QED BY <1>0, <2>0, <3>1
    <2>2. \A c \in Rows : job[c].source # i
      <3> SUFFICES ASSUME NEW c \in Rows, job[c].source = i PROVE FALSE
        OBVIOUS
      <3>1. c <= made /\ i < c /\ c \in Nat
        BY <1>0 DEF RowsFit, Rows, Ids
      <3> QED BY <1>0, <2>0, <3>1
    <2> QED BY <1>8, <2>0, <2>1, <2>2 DEF ChildOf
  <1> QED BY <1>2, <1>4, <1>5, <1>6, <1>7, <1>8, <1>9

LEMMA NewJobRow ==
  ASSUME NEW b \in Batches, NEW k \in Indexes, NEW request \in Entries \cup {NoEntry},
         NEW source \in 0..MaxJobs, NEW status \in {"queued", "failed"}
  PROVE  /\ NewJob(b, k, request, source, status) \in JobRow
         /\ NewJob(b, k, request, source, status).request = request
         /\ NewJob(b, k, request, source, status).source = source
         /\ NewJob(b, k, request, source, status).status = status
         /\ NewJob(b, k, request, source, status).unit
              = IF status = "queued" THEN "reserved" ELSE "none"
  BY DEF NewJob, JobRow, Statuses

\* The commit of request r, which makes the jobs N: they replace jobs that have failed and
\* were not replaced, and while any is made no other regeneration has the user's lock.
LEMMA CommitStep ==
  ASSUME BatchesInv, NEW r \in Reqs, req' = [req EXCEPT ![r] = Idle], UNCHANGED <<op, late, clicks>>,
         NEW N \in SUBSET (made + 1 .. made'), N \subseteq Ids, made' \in made..MaxJobs,
         job' = [i \in Ids |-> job'[i]], \A i \in Ids : Grows(N, i),
         batches' \subseteq Batches, UnitsCovered', OneEach',
         N = {} \/ \A q \in Reqs \ {r} : req[q] \notin Regeneration,
         \A c \in N, i \in Ids : job'[c].source = i => ChildOf(i) = {} /\ job[i].status = "failed"
  PROVE  Keeps
  <1>0. Types /\ OneAtATime /\ PendingLocked /\ \A q \in Reqs : RegenTrue(q)
    BY DEF BatchesInv
  <1>1. /\ job' \in [Ids -> {Absent} \cup JobRow] /\ RowsFit' /\ Rows' = Rows \cup N
        /\ N \cap Rows = {}
        /\ \A i \in Rows : /\ job'[i].request = job[i].request /\ job'[i].source = job[i].source
                           /\ job'[i].status = job[i].status /\ job'[i].unit = job[i].unit
        /\ \A i \in Ids : ChildOf(i)' = ChildOf(i) \cup {c \in N : job'[c].source = i}
        /\ \A i \in N : ChildOf(i)' = {}
    BY GrowingRows
  <1>2. req'[r] = Idle /\ \A q \in Reqs \ {r} : req'[q] = req[q]
    BY <1>0 DEF Types
  <1>3. /\ Idle \notin Regeneration /\ Idle.pc \notin {"regen", "regen_checked"}
    BY DEF Idle, Regeneration
  <1>4. made' \in 0..MaxJobs
    BY <1>0, BatchesAssumption DEF Types
  <1>5. Types'
    BY <1>0, <1>1, <1>4 DEF Types
  <1>6. OneAtATime'
    BY <1>0, <1>2, <1>3 DEF OneAtATime
  <1>7. PendingLocked'
    BY <1>0, <1>2, <1>3 DEF PendingLocked
  <1>8. ASSUME NEW q \in Reqs PROVE RegenTrue(q)'
    <2>1. CASE q = r
      BY <1>2, <1>3, <2>1 DEF RegenTrue
    <2>2. CASE q # r /\ N = {}
      <3>1. Rows' = Rows /\ \A i \in Ids : ChildOf(i)' \subseteq ChildOf(i)
        BY <1>1, <2>2
      <3>2. \A i \in Rows : i \in Rows' /\ job'[i].status = job[i].status
        BY <1>1, <3>1
      <3>3. req'[q] = req[q]
        BY <1>2, <2>2
      <3> QED BY <3>1, <3>2, <3>3, TruthStays
    <2>3. CASE q # r /\ req[q] \notin Regeneration
      <3>1. req'[q] = req[q] /\ req[q].pc \notin {"regen", "regen_checked"}
        BY <1>0, <1>2, <2>3, RequestTyped
      <3> QED BY <3>1 DEF RegenTrue
    <2> QED BY <2>1, <2>2, <2>3
  <1>9. ASSUME NEW i \in Ids PROVE ~Breaks(i)
    <2>1. ChildOf(i)' \subseteq ChildOf(i) \/ (ChildOf(i) = {} /\ job[i].status = "failed")
      <3>1. ChildOf(i)' = ChildOf(i) \cup {c \in N : job'[c].source = i}
        BY <1>1
      <3>2. CASE \E c \in N : job'[c].source = i
        BY <3>2
      <3> QED BY <3>1, <3>2
    <2>2. Final(i) => Final(i)' \/ ChildOf(i)' = {}
      BY <1>1 DEF Final
    <2> QED BY <2>1, <2>2 DEF Breaks
  <1> QED BY <1>1, <1>5, <1>6, <1>7, <1>8, <1>9 DEF Keeps, BatchesInv

\* The ids a commit gives to the prompts or jobs of S.
Given(S) == {IdFor(S, k) : k \in S}

LEMMA GivenIds ==
  ASSUME Types, NEW S, S \subseteq Indexes \/ S \subseteq Ids, made + Cardinality(S) <= MaxJobs
  PROVE  /\ S \subseteq Nat /\ IsFiniteSet(S) /\ Cardinality(S) \in Nat
         /\ Given(S) \subseteq made + 1 .. made + Cardinality(S) /\ Given(S) \subseteq Ids
         /\ made + Cardinality(S) \in made..MaxJobs /\ made \in Nat
         /\ \A k, l \in S : IdFor(S, k) = IdFor(S, l) => k = l
         /\ \A k \in S : IdFor(S, k) \in Ids
         /\ \A k \in S : (CHOOSE l \in S : IdFor(S, k) = IdFor(S, l)) = k
  <1>1. /\ S \subseteq Nat /\ IsFiniteSet(S) /\ Cardinality(S) \in Nat
        /\ made \in Nat /\ made + Cardinality(S) \in made..MaxJobs
    <2>1. S \subseteq Nat
      BY BatchesAssumption DEF Ids, Indexes
    <2>2. IsFiniteSet(S) /\ Cardinality(S) \in Nat
      BY FiniteRows
    <2> QED BY <2>1, <2>2, BatchesAssumption DEF Types
  <1>2. /\ \A k \in S : IdFor(S, k) \in made + 1 .. made + Cardinality(S)
        /\ \A k, l \in S : IdFor(S, k) = IdFor(S, l) => k = l
    BY <1>1, IdsNew
  <1>3. Given(S) \subseteq made + 1 .. made + Cardinality(S)
    BY <1>2 DEF Given
  <1>4. made + 1 .. made + Cardinality(S) \subseteq Ids
    BY <1>1, BatchesAssumption DEF Ids
  <1>5. \A k \in S : IdFor(S, k) \in Ids
    BY <1>2, <1>4
  <1>6. \A k \in S : (CHOOSE l \in S : IdFor(S, k) = IdFor(S, l)) = k
    BY <1>2
  <1> QED BY <1>1, <1>2, <1>3, <1>4, <1>5, <1>6

LEMMA RegenCommitStep ==
  ASSUME BatchesInv, NEW r \in Reqs, RegenCommits(r)
  PROVE  Keeps
  <1> DEFINE P == req[r].pending
             b == req[r].batch
             N == Given(P)
  <1>0. /\ Types /\ OneAtATime /\ RegenTrue(r) /\ OneEach
        /\ req[r].pc = "regen_checked" /\ req' = [req EXCEPT ![r] = Idle]
        /\ UNCHANGED <<batches, op, late, clicks>>
    BY DEF BatchesInv, RegenCommits
  <1>1. CASE UNCHANGED <<job, free, made>>
    <2>1. /\ Idle \notin Regeneration /\ Idle.pc \notin {"regen", "regen_checked"}
      BY DEF Idle, Regeneration
    <2>2. req'[r] = Idle
      BY <1>0 DEF Types
    <2>3. RegenTrue(r)'
      BY <2>1, <2>2 DEF RegenTrue
    <2> QED BY <1>0, <1>1, <2>1, <2>3, RequestStep DEF Keeps
  <1>2. CASE ~UNCHANGED <<job, free, made>>
    <2>1. /\ Enough(Cardinality(P)) /\ ~(made + Cardinality(P) > MaxJobs)
          /\ made' = made + Cardinality(P) /\ free' = free - Cardinality(P)
          /\ job' = [i \in Ids |->
               IF \E s \in P : i = IdFor(P, s)
               THEN LET s == CHOOSE s \in P : i = IdFor(P, s)
                    IN NewJob(b, job[s].index, NoEntry, s, "queued")
               ELSE job[i]]
      BY <1>2 DEF RegenCommits
    <2>2. req[r] \in Regeneration /\ P \subseteq Ids /\ b \in Batches
      <3>1. req[r] \in Regeneration /\ P \subseteq Ids
        BY <1>0, RequestTyped
      <3> QED BY <3>1 DEF Regeneration
    <2>3. \A i \in P : /\ i \in Rows /\ ChildOf(i) = {} /\ job[i].status = "failed"
                      /\ job[i].index \in Indexes
      BY <1>0, RowTyped DEF RegenTrue
    <2> HIDE DEF P, b
    <2>4. made + Cardinality(P) <= MaxJobs
      <3>1. made \in Nat /\ Cardinality(P) \in Nat
        BY <1>0, <2>2, FiniteRows, BatchesAssumption DEF Types
      <3> QED BY <2>1, <3>1, BatchesAssumption
    <2>5. /\ IsFiniteSet(P) /\ N \subseteq made + 1 .. made' /\ N \subseteq Ids
          /\ made' \in made..MaxJobs /\ made \in Nat
          /\ \A k \in P : IdFor(P, k) \in Ids
          /\ \A k, l \in P : IdFor(P, k) = IdFor(P, l) => k = l
      BY <1>0, <2>1, <2>2, <2>4, GivenIds
    <2>6. ASSUME NEW s \in P
          PROVE  job'[IdFor(P, s)] = NewJob(b, job[s].index, NoEntry, s, "queued")
      <3>1. (CHOOSE l \in P : IdFor(P, s) = IdFor(P, l)) = s
        BY <1>0, <2>2, <2>4, GivenIds
      <3> QED BY <2>1, <2>5, <3>1
    <2>7. ASSUME NEW i \in Ids, i \notin N PROVE job'[i] = job[i]
      BY <2>1, <2>7 DEF Given
    <2>8. ASSUME NEW i \in N
          PROVE  \E s \in P : /\ i = IdFor(P, s) /\ job'[i] \in JobRow /\ job'[i].source = s
                              /\ job'[i].request = NoEntry /\ job'[i].unit = "reserved"
      <3>1. PICK s \in P : i = IdFor(P, s)
        BY DEF Given
      <3>2. s \in 0..MaxJobs /\ job[s].index \in Indexes
        BY <2>2, <2>3, BatchesAssumption DEF Ids
      <3>3. LET row == NewJob(b, job[s].index, NoEntry, s, "queued")
            IN  /\ row \in JobRow /\ row.source = s /\ row.request = NoEntry
                /\ row.unit = "reserved"
        BY <2>2, <3>2, NewJobRow
      <3> QED BY <2>6, <3>1, <3>3
    <2>9. \A i \in Ids : Grows(N, i)
      <3>1. ASSUME NEW i \in N PROVE job'[i].source <= made
        <4>1. PICK s \in P : job'[i].source = s
          BY <2>8
        <4>2. s <= made
          BY <2>3 DEF BatchesInv, RowsFit
        <4> QED BY <4>1, <4>2
      <3> QED BY <2>7, <2>8, <3>1 DEF Grows
    <2>10. \A c \in N, i \in Ids : job'[c].source = i => ChildOf(i) = {} /\ job[i].status = "failed"
      BY <2>3, <2>8
    <2>11. job' = [i \in Ids |-> job'[i]]
      BY <2>1
    <2> HIDE DEF N
    <2>12. /\ Rows' = Rows \cup N
           /\ \A i \in Rows : /\ job'[i].request = job[i].request /\ job'[i].status = job[i].status
                              /\ job'[i].unit = job[i].unit
      BY <2>5, <2>9, <2>11, GrowingRows
    <2>13. OneEach'
      <3>1. \A i \in N : job'[i].request = NoEntry
        BY <2>8
      <3> QED BY <1>0, <2>12, <3>1 DEF OneEach
    <2>14. UnitsCovered'
      <3> DEFINE f == [s \in P |-> IdFor(P, s)]
      <3>1. f \in [P -> Ids] /\ {f[s] : s \in P} = N
        BY <2>5 DEF Given, N
      <3> HIDE DEF f
      <3>2. Holding' \subseteq Holding \cup N
        BY <2>12 DEF Holding
      <3>3. Holding' \subseteq Holding \cup {f[s] : s \in P}
        BY <3>1, <3>2
      <3> QED BY <2>1, <2>5, <3>1, <3>3, UnitsForNew
    <2>15. \A q \in Reqs \ {r} : req[q] \notin Regeneration
      BY <1>0, <2>2 DEF OneAtATime
    <2>16. batches' \subseteq Batches
      BY <1>0 DEF Types
    <2> QED BY <1>0, <2>5, <2>9, <2>10, <2>11, <2>13, <2>14, <2>15, <2>16, CommitStep
  <1> QED BY <1>1, <1>2

LEMMA CreateCommitStep ==
  ASSUME BatchesInv, NEW r \in Reqs, CreateCommits(r)
  PROVE  Keeps
  <1> DEFINE b == req[r].batch
             M == req[r].missing
             normal == M \ req[r].risky
             moved == req[r].moved
             N == Given(M)
             status(k) == IF k \in normal THEN "queued" ELSE "failed"
             new(k) == NewJob(b, k, <<b, k>>, 0, status(k))
             written(i) == CASE \E k \in M : i = IdFor(M, k) -> new(CHOOSE k \in M : i = IdFor(M, k))
                         [] i \in moved -> [job[i] EXCEPT !.batch = b]
                         [] OTHER -> job[i]
  <1>0. /\ Types /\ OneEach /\ req[r].pc = "insert" /\ req' = [req EXCEPT ![r] = Idle]
        /\ UNCHANGED <<op, late, clicks>>
        /\ M \cup moved # {} => ~UserLocked(Others(r))
    BY DEF BatchesInv, CreateCommits
  <1>1. req[r] \in Creation /\ M \subseteq Indexes /\ b \in Batches
    <2>1. req[r] \in Creation
      BY <1>0, RequestTyped
    <2> QED BY <2>1 DEF Creation
  <1>2. \/ UNCHANGED <<batches, job, free, made>>
        \/ /\ ~Duplicate(b, M) /\ moved \subseteq Rows
           /\ Enough(Cardinality(normal)) /\ ~(made + Cardinality(M) > MaxJobs)
           /\ batches' = IF req[r].new THEN batches \cup {b} ELSE batches
           /\ made' = made + Cardinality(M) /\ free' = free - Cardinality(normal)
           /\ job' = [i \in Ids |-> written(i)]
    BY Zenon DEF CreateCommits
  <1>9. ASSUME NEW i PROVE  /\ (\E k \in M : i = IdFor(M, k)) /\ i \notin moved
                                => written(i) = new(CHOOSE k \in M : i = IdFor(M, k))
                            /\ ~(\E k \in M : i = IdFor(M, k)) /\ i \in moved
                                => written(i) = [job[i] EXCEPT !.batch = b]
                            /\ ~(\E k \in M : i = IdFor(M, k)) /\ i \notin moved => written(i) = job[i]
    <2> HIDE DEF new, M, moved, b
    <2> QED BY Zenon
  <1> HIDE DEF M, b, moved, normal, status, new, written
  <1>3. CASE UNCHANGED <<batches, job, free, made>>
    <2>1. /\ Idle \notin Regeneration /\ Idle.pc \notin {"regen", "regen_checked"}
      BY DEF Idle, Regeneration
    <2>2. req'[r] = Idle
      BY <1>0 DEF Types
    <2>3. RegenTrue(r)'
      BY <2>1, <2>2 DEF RegenTrue
    <2> QED BY <1>0, <1>3, <2>1, <2>3, RequestStep DEF Keeps
  <1>4. CASE ~UNCHANGED <<batches, job, free, made>>
    <2>1. /\ ~Duplicate(b, M) /\ moved \subseteq Rows
          /\ Enough(Cardinality(normal)) /\ ~(made + Cardinality(M) > MaxJobs)
          /\ batches' = IF req[r].new THEN batches \cup {b} ELSE batches
          /\ made' = made + Cardinality(M) /\ free' = free - Cardinality(normal)
      BY <1>2, <1>4
    <2>2. job' = [i \in Ids |-> written(i)]
      BY <1>2, <1>4
    <2>3. made + Cardinality(M) <= MaxJobs
      <3>1. made \in Nat /\ Cardinality(M) \in Nat
        BY <1>0, <1>1, FiniteRows, BatchesAssumption DEF Types
      <3> QED BY <2>1, <3>1, BatchesAssumption
    <2>4. /\ IsFiniteSet(M) /\ N \subseteq made + 1 .. made' /\ N \subseteq Ids
          /\ made' \in made..MaxJobs /\ made \in Nat
          /\ \A k \in M : IdFor(M, k) \in Ids
          /\ \A k, l \in M : IdFor(M, k) = IdFor(M, l) => k = l
      BY <1>0, <1>1, <2>1, <2>3, GivenIds
    <2>0. N \cap moved = {}
      <3>1. \A i \in Rows : i \in Nat /\ i <= made
        BY DEF BatchesInv, RowsFit, Rows, Ids
      <3>2. \A i \in N : ~(i <= made)
        BY <2>4
      <3> QED BY <2>1, <3>1, <3>2
    <2>5. ASSUME NEW k \in M PROVE job'[IdFor(M, k)] = new(k)
      <3>1. (CHOOSE l \in M : IdFor(M, k) = IdFor(M, l)) = k
        BY <1>0, <1>1, <2>3, GivenIds
      <3>2. /\ IdFor(M, k) \in Ids /\ \E l \in M : IdFor(M, k) = IdFor(M, l)
            /\ IdFor(M, k) \notin moved
        BY <2>0, <2>4 DEF Given
      <3>3. written(IdFor(M, k)) = new(CHOOSE l \in M : IdFor(M, k) = IdFor(M, l))
        BY <1>9, <3>2, Zenon
      <3>4. written(IdFor(M, k)) = new(k)
        BY <3>1, <3>3, Zenon
      <3>5. job'[IdFor(M, k)] = written(IdFor(M, k))
        BY <2>2, <3>2
      <3> QED BY <3>4, <3>5
    <2>6. ASSUME NEW i \in Ids, i \notin N
          PROVE  job'[i] = job[i] \/ (i \in moved /\ job'[i] = [job[i] EXCEPT !.batch = b])
      <3>1. ~\E k \in M : i = IdFor(M, k)
        BY <2>6 DEF Given
      <3>2. written(i) = job[i] \/ (i \in moved /\ written(i) = [job[i] EXCEPT !.batch = b])
        BY <1>9, <3>1, Zenon
      <3>3. job'[i] = written(i)
        BY <2>2
      <3> QED BY <3>2, <3>3
    <2>7. ASSUME NEW k \in M
          PROVE  LET row == job'[IdFor(M, k)]
                 IN  /\ row \in JobRow /\ row.source = 0 /\ row.request = <<b, k>>
                     /\ row.status = "queued" => row.unit = "reserved"
                     /\ row.unit # "none" => k \in normal
                     /\ row.unit \in {"none", "reserved"}
      <3>1. /\ <<b, k>> \in Entries \cup {NoEntry} /\ 0 \in 0..MaxJobs /\ k \in Indexes
        BY <1>1, BatchesAssumption DEF Entries
      <3>2. status(k) \in {"queued", "failed"} /\ (status(k) = "queued" => k \in normal)
        BY DEF status
      <3>3. /\ new(k) \in JobRow /\ new(k).request = <<b, k>> /\ new(k).source = 0
            /\ new(k).status = status(k)
            /\ new(k).unit = IF status(k) = "queued" THEN "reserved" ELSE "none"
        BY <1>1, <3>1, <3>2, NewJobRow DEF new
      <3> QED BY <2>5, <3>2, <3>3
    <2>8. ASSUME NEW i \in N PROVE \E k \in M : i = IdFor(M, k)
      BY DEF Given
    <2>9. \A i \in Ids : Grows(N, i)
      <3>1. ASSUME NEW i \in N PROVE Grows(N, i)
        BY <2>4, <2>7, <2>8 DEF Grows
      <3>2. ASSUME NEW i \in Ids, i \notin N PROVE Grows(N, i)
        <4>1. CASE i \in moved /\ job'[i] = [job[i] EXCEPT !.batch = b]
          <5>1. i \in Rows /\ job[i] \in JobRow
            BY <1>0, <2>1, <4>1, RowTyped
          <5> DEFINE row == [job[i] EXCEPT !.batch = b]
          <5>2. /\ row \in JobRow /\ row.request = job[i].request /\ row.source = job[i].source
                /\ row.status = job[i].status /\ row.unit = job[i].unit
            BY <1>1, <5>1 DEF JobRow
          <5> QED BY <3>2, <4>1, <5>1, <5>2 DEF Grows
        <4>2. CASE job'[i] = job[i]
          BY <3>2, <4>2 DEF Grows
        <4> QED BY <2>6, <3>2, <4>1, <4>2
      <3> QED BY <3>1, <3>2
    <2>10. \A c \in N, i \in Ids : job'[c].source # i
      <3>1. 0 \notin Ids /\ \A c \in N : job'[c].source = 0
        BY <2>7, <2>8, BatchesAssumption DEF Ids
      <3> QED BY <3>1
    <2>11. job' = [i \in Ids |-> job'[i]]
      BY <2>2
    <2>12. N = {} \/ \A q \in Reqs \ {r} : req[q] \notin Regeneration
      <3>1. CASE M = {}
        BY <3>1 DEF Given
      <3>2. CASE M # {}
        <4>1. ~UserLocked(Others(r)) /\ Others(r) \in SUBSET Reqs
          BY <1>0, <3>2 DEF Others
        <4>2. \A q \in Others(r) : req[q] \notin Regeneration
          BY <1>0, <4>1, WhoLocks
        <4> QED BY <4>2 DEF Others
      <3> QED BY <3>1, <3>2
    <2> HIDE DEF N
    <2>13. /\ Rows' = Rows \cup N
           /\ \A i \in Rows : /\ job'[i].request = job[i].request /\ job'[i].status = job[i].status
                              /\ job'[i].unit = job[i].unit
      BY <2>4, <2>9, <2>11, GrowingRows
    <2>14. OneEach'
      <3>1. ASSUME NEW i \in N, NEW l \in Rows PROVE job'[i].request # job'[l].request
        <4>1. PICK k \in M : i = IdFor(M, k) /\ job'[i].request = <<b, k>>
          BY <2>7, <2>8
        <4>2. job[l].request # <<b, k>>
          BY <2>1 DEF Duplicate, RowsOf
        <4> QED BY <2>13, <4>1, <4>2
      <3>2. ASSUME NEW i \in N, NEW l \in N, job'[i].request = job'[l].request PROVE i = l
        <4>1. PICK k \in M : i = IdFor(M, k) /\ job'[i].request = <<b, k>>
          BY <2>7, <2>8
        <4>2. PICK m \in M : l = IdFor(M, m) /\ job'[l].request = <<b, m>>
          BY <2>7, <2>8
        <4> QED BY <3>2, <4>1, <4>2
      <3> QED BY <1>0, <2>13, <3>1, <3>2 DEF OneEach
    <2>15. UnitsCovered'
      <3> DEFINE f == [k \in normal |-> IdFor(M, k)]
      <3>1. IsFiniteSet(normal)
        BY <1>1, FiniteRows DEF normal
      <3>2. f \in [normal -> Ids]
        BY <2>4 DEF normal
      <3>3. Holding' \subseteq Holding \cup {f[k] : k \in normal}
        <4> SUFFICES ASSUME NEW i \in N, job'[i].unit # "none" PROVE \E k \in normal : i = f[k]
          BY <2>13 DEF Holding
        <4>1. PICK k \in M : i = IdFor(M, k) /\ k \in normal
          BY <2>7, <2>8
        <4> QED BY <4>1
      <3> HIDE DEF f
      <3> QED BY <2>1, <3>1, <3>2, <3>3, UnitsForNew
    <2>16. batches' \subseteq Batches
      BY <1>0, <1>1, <2>1 DEF Types
    <2>17. UNCHANGED <<op, late, clicks>>
      BY <1>0
    <2> QED BY <1>0, <2>4, <2>9, <2>10, <2>11, <2>12, <2>14, <2>15, <2>16, <2>17, CommitStep
  <1> QED BY <1>3, <1>4

--------------------------------------------------------------------------------
\* The inductive invariant.

LEMMA BatchesInit == Init => BatchesInv
  <1> SUFFICES ASSUME Init PROVE BatchesInv
    OBVIOUS
  <1>1. /\ job \in [Ids -> {Absent} \cup JobRow]
        /\ req \in [Reqs -> {Idle} \cup Creation \cup Regeneration]
    BY DEF Init
  <1>2. Types
    BY <1>1, BatchesAssumption DEF Init, Types
  <1>3. Rows = {}
    BY DEF Init, Rows
  <1>4. Holding = {}
    BY <1>3 DEF Holding
  <1>5. UnitsCovered
    <2>1. Cardinality(Holding) = 0
      BY <1>4, FS_EmptySet
    <2> QED BY <2>1, BatchesAssumption DEF UnitsCovered, Init
  <1>6. \A r \in Reqs : /\ req[r] \notin Regeneration
                        /\ req[r].pc \notin {"regen", "regen_checked"}
    BY DEF Init, Idle, Regeneration
  <1>7. RowsFit /\ OneEach
    BY <1>3 DEF RowsFit, OneEach
  <1>8. OneAtATime /\ PendingLocked /\ \A r \in Reqs : RegenTrue(r)
    BY <1>6 DEF OneAtATime, PendingLocked, RegenTrue
  <1> QED BY <1>2, <1>5, <1>7, <1>8 DEF BatchesInv

LEMMA NextKeeps ==
  ASSUME BatchesInv, Next
  PROVE  Keeps
  <1>1. ASSUME NEW r \in Reqs, SubmitOne(r) \/ SubmitBatch(r) \/ RequestFails(r) PROVE Keeps
    BY <1>1, CreationReads
  <1>2. ASSUME NEW r \in Reqs, CreateNext(r) PROVE Keeps
    BY <1>2, CreationReads, CreateCommitStep DEF CreateNext
  <1>3. ASSUME NEW r \in Reqs, NEW b \in Batches, NEW ids \in SUBSET Rows, RegenLocksUser(r, b, ids)
        PROVE  Keeps
    BY <1>3, RegenerationReads
  <1>4. ASSUME NEW r \in Reqs, RegenNext(r) PROVE Keeps
    BY <1>4, RegenerationReads, RegenCommitStep DEF RegenNext
  <1>5. ASSUME NEW i \in Ids,
               \/ WorkerSubmits(i) \/ WorkerFails(i) \/ WorkerEnds(i)
               \/ LateReads(i) \/ LateWrites(i)
        PROVE  Keeps
    BY <1>5, WorkerStep
  <1> QED BY <1>1, <1>2, <1>3, <1>4, <1>5, ClickStep DEF Next

LEMMA BatchesStep == BatchesInv /\ [Next]_vars => BatchesInv'
  <1> SUFFICES ASSUME BatchesInv, [Next]_vars PROVE BatchesInv'
    OBVIOUS
  <1>1. CASE Next
    BY <1>1, NextKeeps DEF Keeps
  <1>2. CASE UNCHANGED vars
    <2>1. /\ UNCHANGED <<batches, job, free, made, req, op, late, clicks>>
          /\ Rows' = Rows /\ \A i \in Ids : ChildOf(i)' = ChildOf(i)
      BY <1>2 DEF vars, Rows, ChildOf
    <2>2. Types' /\ RowsFit' /\ UnitsCovered' /\ OneEach' /\ OneAtATime' /\ PendingLocked'
      BY <2>1 DEF BatchesInv, Types, RowsFit, UnitsCovered, Holding, OneEach, OneAtATime,
                  PendingLocked
    <2>3. \A r \in Reqs : RegenTrue(r)'
      BY <2>1, TruthStays DEF Rows
    <2> QED BY <2>2, <2>3 DEF BatchesInv
  <1> QED BY <1>1, <1>2

LEMMA BatchesAlways == Spec => []BatchesInv
  BY BatchesInit, BatchesStep, PTL DEF Spec

--------------------------------------------------------------------------------
\* Theorems.

\* The columns of jobs, batches and wallets keep their types, and the quota of the user
\* never falls below zero or rises above what was given: every unit a deletion, a failure
\* or a resume gives back had been taken for that job (services/quota.py).
THEOREM BatchesTypeCorrect == Spec => []BatchesTypeOK
  <1>1. BatchesInv => BatchesTypeOK
    <2> SUFFICES ASSUME BatchesInv PROVE BatchesTypeOK
      OBVIOUS
    <2>1. free \in 0..Units
      BY FiniteRows, BatchesAssumption DEF BatchesInv, UnitsCovered
    <2>2. \A i \in Ids : job[i] = Absent \/ job[i] \in JobRow
      BY DEF BatchesInv, Types
    <2> QED BY <2>1, <2>2 DEF BatchesInv, Types, BatchesTypeOK, JobRow
  <1> QED BY <1>1, BatchesAlways, PTL

\* However often a form is sent, whatever is deleted or moved meanwhile, a prompt of a
\* batch has at most one job (create_jobs_batch_and_reserve and its unique request ids).
THEOREM OneJobEach == Spec => []OneJobPerPrompt
  <1>1. BatchesInv => OneJobPerPrompt
    <2> SUFFICES ASSUME BatchesInv, NEW e \in Entries PROVE Cardinality(RowsOf(e)) <= 1
      BY DEF OneJobPerPrompt
    <2>1. e # NoEntry
      BY DEF Entries, NoEntry
    <2>2. \A i, k \in RowsOf(e) : i = k
      BY <2>1 DEF BatchesInv, OneEach, RowsOf
    <2>3. CASE RowsOf(e) = {}
      BY <2>3, FS_EmptySet
    <2>4. ASSUME NEW i \in RowsOf(e) PROVE Cardinality(RowsOf(e)) <= 1
      <3>1. RowsOf(e) = {i}
        BY <2>2
      <3>2. Cardinality({i}) = 1
        BY FS_Singleton
      <3> QED BY <3>1, <3>2
    <2> QED BY <2>3, <2>4
  <1> QED BY <1>1, BatchesAlways, PTL

\* From its reads to its commit a regeneration relies on nothing that another request, the
\* worker or an administrator can change (regenerate_failed_jobs and its locks).
THEOREM RegenerationsSeeTruth == Spec => []RegenSeesTruth
  <1>1. BatchesInv => RegenSeesTruth
    BY DEF BatchesInv, RegenSeesTruth, RegenTrue
  <1> QED BY <1>1, BatchesAlways, PTL

\* A job is replaced once, after it has failed, and remains replaced: a status check, a
\* scan or a redownload that read it earlier may still run it again, as may an
\* administrator; a regeneration, a repeated request, a pause, the user's resume and the
\* rest of the worker never do (regenerate_failed_jobs, api/user, resume_job).
THEOREM ReplacedStays == Spec => ReplacedIsFinal
  <1>1. ASSUME BatchesInv, [Next]_vars
        PROVE  [\A i \in Ids :
                  /\ ChildOf(i)' \subseteq ChildOf(i) \/ (ChildOf(i) = {} /\ job[i].status = "failed")
                  /\ Final(i) => Final(i)' \/ ChildOf(i)' = {} \/ AdminResumeRead(i)]_vars
    <2>1. ASSUME Next, NEW i \in Ids
          PROVE  /\ ChildOf(i)' \subseteq ChildOf(i) \/ (ChildOf(i) = {} /\ job[i].status = "failed")
                 /\ Final(i) => Final(i)' \/ ChildOf(i)' = {} \/ AdminResumeRead(i)
      <3>1. Breaks(i) => AdminResumeRead(i)
        BY <1>1, <2>1, NextKeeps DEF Keeps
      <3>2. AdminResumeRead(i) => ChildOf(i)' = ChildOf(i)
        BY DEF AdminResumeRead, ChildOf, Rows
      <3> QED BY <3>1, <3>2 DEF Breaks
    <2> QED BY <1>1, <2>1
  <1> QED BY <1>1, BatchesAlways, PTL DEF Spec, ReplacedIsFinal
======================================================================================
