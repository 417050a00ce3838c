----------------------------- MODULE SchedulerProofs -----------------------------
(*
The three limits of the scheduler hold for any number of jobs, users and channels,
any limits and any window of candidates. The counts a pass has read may be old when it
starts jobs; they stay upper bounds because only the pass itself hands jobs to threads,
and a job on its way to its submission is in _SUBMIT_FUTURES all the time.
*)
EXTENDS Scheduler, FiniteSetTheorems, WellFoundedInduction, TLAPS

\* What is assumed of the constants, to cite in one word.
LEMMA Assumptions ==
  QueueAssumption /\ OwnersAssumption /\ LimitsAssumption /\ SchedulerBoundsAssumption
BY QueueAssumption, OwnersAssumption, LimitsAssumption, SchedulerBoundsAssumption

--------------------------------------------------------------------------------
\* Sets of jobs are finite, and smaller sets have fewer elements.
LEMMA JobSets ==
  ASSUME NEW S \in SUBSET Jobs
  PROVE  /\ IsFiniteSet(S) /\ Cardinality(S) \in Nat
         /\ \A R \in SUBSET S : /\ IsFiniteSet(R) /\ Cardinality(R) \in Nat
                                /\ Cardinality(R) <= Cardinality(S)
<1>1. IsFiniteSet(Jobs)
  BY FS_Interval, Assumptions DEF Jobs, QueueAssumption
<1>2. IsFiniteSet(S)
  BY <1>1, FS_Subset
<1> QED
  BY <1>2, FS_Subset, FS_CardinalityType

\* A job on its way counts at least once in what Load counts.
LEMMA LoadCovers ==
  ASSUME NEW S \in SUBSET Jobs, pass.scheduled = Scheduled
  PROVE  /\ Load(S) \in Nat
         /\ Cardinality(Started \cap S) <= Load(S)
<1> DEFINE A == Running \cap S
           B == Scheduled \cap S
<1>1. A \in SUBSET Jobs /\ B \in SUBSET Jobs /\ A \cup B \in SUBSET Jobs /\ A \cap B \in SUBSET Jobs
  BY DEF Running, Scheduled
<1>2. Cardinality(A \cup B) = Cardinality(A) + Cardinality(B) - Cardinality(A \cap B)
  BY <1>1, JobSets, FS_Union
<1>3. Started \cap S \in SUBSET (A \cup B)
  BY DEF Started
<1>4. Cardinality(Started \cap S) <= Cardinality(A \cup B)
  BY <1>1, <1>3, JobSets
<1>5. /\ Cardinality(A) \in Nat /\ Cardinality(B) \in Nat /\ Cardinality(A \cap B) \in Nat
      /\ Cardinality(A \cup B) \in Nat /\ Cardinality(Started \cap S) \in Nat
  BY <1>1, <1>3, JobSets
<1>6. Load(S) = Cardinality(A) + Cardinality(B)
  BY DEF Load
<1> QED
  BY <1>2, <1>4, <1>5, <1>6

\* A set of jobs that is not empty has a last one; the others come before it.
LEMMA LastJob ==
  ASSUME NEW C \in SUBSET Jobs, C # {}
  PROVE  \E m \in C : /\ Before(C, m) = C \ {m}
                      /\ Cardinality(C) = Cardinality(Before(C, m)) + 1
<1> DEFINE T == {NumJobs - j : j \in C}
<1>0. NumJobs \in Nat /\ \A j \in C : j \in Nat /\ j <= NumJobs
  BY Assumptions DEF Jobs, QueueAssumption
<1>1. T \subseteq Nat /\ T # {}
  BY <1>0
<1>2. PICK t \in T : \A s \in T : ~(<<s, t>> \in OpToRel(<, Nat))
  BY <1>1, NatLessThanWellFounded, WFMin
<1>3. PICK m \in C : t = NumJobs - m
  OBVIOUS
<1>4. \A i \in C : i <= m
  <2> TAKE i \in C
  <2>1. NumJobs - i \in T /\ NumJobs - i \in Nat /\ t \in Nat
    BY <1>1
  <2>2. ~(NumJobs - i < t)
    BY <1>2, <2>1 DEF OpToRel
  <2> QED
    BY <1>0, <1>3, <2>1, <2>2
<1>5. Before(C, m) = C \ {m}
  <2>1. \A i \in C : i < m <=> i # m
    BY <1>0, <1>4
  <2> QED
    BY <2>1 DEF Before
<1>6. Cardinality(C \ {m}) = Cardinality(C) - 1
  BY JobSets, FS_RemoveElement
<1> QED
  BY <1>5, <1>6, JobSets

\* Whatever leaves Started no larger leaves the limits as they are.
LEMMA ShrinkingKeeps ==
  ASSUME Started' \in SUBSET Started
  PROVE  /\ SiteLimit => SiteLimit'
         /\ UserLimits => UserLimits'
         /\ KeyLimits => KeyLimits'
         /\ Cardinality(Started') <= Cardinality(Started)
         /\ \A S \in SUBSET Jobs : Cardinality(Started' \cap S) <= Cardinality(Started \cap S)
         /\ Cardinality(Started') \in Nat /\ Cardinality(Started) \in Nat
         /\ \A S \in SUBSET Jobs : /\ Cardinality(Started' \cap S) \in Nat
                                   /\ Cardinality(Started \cap S) \in Nat
<1>1. Started \in SUBSET Jobs
  BY DEF Started, Running, Scheduled
<1>2. /\ Cardinality(Started') <= Cardinality(Started)
      /\ Cardinality(Started') \in Nat /\ Cardinality(Started) \in Nat
  BY <1>1, JobSets
<1>3. ASSUME NEW S \in SUBSET Jobs
      PROVE  /\ Cardinality(Started' \cap S) <= Cardinality(Started \cap S)
             /\ Cardinality(Started' \cap S) \in Nat /\ Cardinality(Started \cap S) \in Nat
  <2>1. Started \cap S \in SUBSET Jobs /\ Started' \cap S \in SUBSET (Started \cap S)
    BY <1>1
  <2> QED
    BY <2>1, JobSets
<1>4. SiteLimit => SiteLimit'
  BY <1>2, Assumptions DEF SiteLimit, LimitsAssumption
<1>5. UserLimits => UserLimits'
  <2> SUFFICES ASSUME UserLimits, NEW u \in Users, UserLimit[u] # 0
               PROVE  Cardinality(Started' \cap OfUser(u)) <= UserLimit[u]
    BY DEF UserLimits
  <2>1. OfUser(u) \in SUBSET Jobs /\ UserLimit[u] \in Nat
    BY Assumptions DEF OfUser, LimitsAssumption
  <2>2. Cardinality(Started \cap OfUser(u)) <= UserLimit[u]
    BY DEF UserLimits
  <2>3. /\ Cardinality(Started' \cap OfUser(u)) <= Cardinality(Started \cap OfUser(u))
        /\ Cardinality(Started' \cap OfUser(u)) \in Nat /\ Cardinality(Started \cap OfUser(u)) \in Nat
    BY <1>3, <2>1
  <2> QED
    BY <2>1, <2>2, <2>3
<1>6. KeyLimits => KeyLimits'
  <2> SUFFICES ASSUME KeyLimits, NEW k \in Keys, KeyLimit[k] # 0
               PROVE  Cardinality(Started' \cap OfKey(k)) <= KeyLimit[k]
    BY DEF KeyLimits
  <2>1. OfKey(k) \in SUBSET Jobs /\ KeyLimit[k] \in Nat
    BY Assumptions DEF OfKey, LimitsAssumption
  <2>2. Cardinality(Started \cap OfKey(k)) <= KeyLimit[k]
    BY DEF KeyLimits
  <2>3. /\ Cardinality(Started' \cap OfKey(k)) <= Cardinality(Started \cap OfKey(k))
        /\ Cardinality(Started' \cap OfKey(k)) \in Nat /\ Cardinality(Started \cap OfKey(k)) \in Nat
    BY <1>3, <2>1
  <2> QED
    BY <2>1, <2>2, <2>3
<1> QED
  BY <1>2, <1>3, <1>4, <1>5, <1>6

--------------------------------------------------------------------------------
\* A record of a pass that is not between two passes.
LEMMA PassRecords ==
  ASSUME SchedulerTypeOK
  PROVE  /\ pass = Between <=> pass.pc = "idle"
         /\ pass # Between => pass.scheduled \in SUBSET Jobs
         /\ pass.pc \in {"counted", "users", "keys"} =>
              pass.available \in Nat \ {0} /\ pass # Between
         /\ pass.pc \in {"users", "keys"} => pass.byUser \in [Users -> Nat]
         /\ pass.pc = "keys" => pass.byKey \in [Keys -> Nat]
  BY DEF SchedulerTypeOK, Between

\* The initial state satisfies the invariant: nothing has been started.
LEMMA InvInit == Init => SchedulerInv
<1> SUFFICES ASSUME Init PROVE SchedulerInv
  OBVIOUS
<1>1. SchedulerTypeOK
  BY Assumptions DEF Init, SchedulerTypeOK, Stages, GENERATION_RUNNING, Futures, SchedulerBoundsAssumption
<1>2. Started = {}
  BY DEF Init, Started, Running, Scheduled, GENERATION_RUNNING
<1>3. Cardinality({}) = 0 /\ \A S : {} \cap S = {}
  BY FS_EmptySet
<1>4. SiteLimit /\ UserLimits /\ KeyLimits
  BY <1>2, <1>3, Assumptions DEF SiteLimit, UserLimits, KeyLimits, LimitsAssumption
<1>5. PassCounts
  BY DEF Init, PassCounts, Between
<1> QED
  BY <1>1, <1>4, <1>5 DEF SchedulerInv

\* Steps of the jobs and of their threads, those of other processes included: the
\* variables keep their types, nothing is started and no entry of a thread comes or goes.
LEMMA JobStep ==
  ASSUME SchedulerTypeOK, NEW j \in Jobs,
         Arrive(j) \/ SubmitNext(j) \/ RecoverSubmitting(j) \/ GenerationEnds(j)
           \/ ReturnsToGeneration(j)
  PROVE  /\ SchedulerTypeOK' /\ pass' = pass
         /\ Started' \in SUBSET Started /\ Scheduled' = Scheduled
<1> USE Assumptions DEF SchedulerTypeOK, Started, Running, Scheduled, Stages, Futures,
      GENERATION_RUNNING, SchedulerBoundsAssumption
<1>1. CASE Arrive(j)
  BY <1>1 DEF Arrive
<1>2. CASE SubmitBegins(j)
  BY <1>2 DEF SubmitBegins
<1>3. CASE SubmitRejected(j)
  BY <1>3 DEF SubmitRejected
<1>4. CASE SubmitBreaks(j)
  BY <1>4 DEF SubmitBreaks
<1>5. ASSUME NEW to \in {"generating", "queued", "ended"}, SubmitEnds(j, to)
      PROVE  /\ SchedulerTypeOK' /\ pass' = pass
             /\ Started' \in SUBSET Started /\ Scheduled' = Scheduled
  BY <1>5 DEF SubmitEnds
<1>6. CASE RecoverSubmitting(j)
  BY <1>6 DEF RecoverSubmitting
<1>7. CASE GenerationEnds(j)
  BY <1>7 DEF GenerationEnds
<1>8. CASE ReturnsToGeneration(j)
  BY <1>8 DEF ReturnsToGeneration
<1> QED
  BY <1>1, <1>2, <1>3, <1>4, <1>5, <1>6, <1>7, <1>8 DEF SubmitNext

--------------------------------------------------------------------------------
\* Steps that read the counts, and a crash.

LEMMA PassStartStep == SchedulerInv /\ PassStart => SchedulerInv'
<1> SUFFICES ASSUME SchedulerInv, PassStart PROVE SchedulerInv'
  OBVIOUS
<1>1. SchedulerTypeOK'
  BY DEF SchedulerInv, SchedulerTypeOK, PassStart, Cleaned, Futures
<1>2. Started' \in SUBSET Started
  BY DEF PassStart, Cleaned, Started, Running, Scheduled
<1>3. pass'.scheduled = Scheduled' /\ pass'.pc = "started"
  BY DEF PassStart, Scheduled
<1>4. PassCounts'
  BY <1>3 DEF PassCounts
<1> QED
  BY <1>1, <1>2, <1>4, ShrinkingKeeps DEF SchedulerInv

LEMMA CountStep ==
  SchedulerInv /\ (CountRunning \/ CountByUser \/ CountByKey) => SchedulerInv'
<1> SUFFICES ASSUME SchedulerInv, CountRunning \/ CountByUser \/ CountByKey
             PROVE  SchedulerInv'
  OBVIOUS
<1>1. /\ pass # Between /\ pass.scheduled = Scheduled /\ pass.scheduled \in SUBSET Jobs
      /\ Scheduled' = Scheduled /\ Started' = Started
  <2>1. pass # Between
    BY DEF CountRunning, CountByUser, CountByKey, Between
  <2> QED
    BY <2>1, PassRecords DEF SchedulerInv, PassCounts, CountRunning, CountByUser, CountByKey,
         Scheduled, Started, Running
<1>2. SiteLimit' /\ UserLimits' /\ KeyLimits'
  BY <1>1, ShrinkingKeeps DEF SchedulerInv
<1>3. \A S \in SUBSET Jobs : Load(S) \in Nat /\ Cardinality(Started \cap S) <= Load(S)
  BY <1>1, LoadCovers
<1>4. Started \in SUBSET Jobs /\ Cardinality(Started) \in Nat
  BY JobSets DEF Started, Running, Scheduled
<1>5. CASE CountRunning
  <2> DEFINE available == MaxRunning - Load(Jobs)
  <2>1. Load(Jobs) \in Nat /\ Cardinality(Started) <= Load(Jobs) /\ available \in Int
    <3>1. Started \cap Jobs = Started
      BY <1>4
    <3>2. Load(Jobs) \in Nat /\ Cardinality(Started \cap Jobs) <= Load(Jobs)
      BY <1>3
    <3>3. MaxRunning \in Int
      BY Assumptions DEF LimitsAssumption
    <3>4. Cardinality(Started \cap Jobs) = Cardinality(Started)
      BY <3>1
    <3>5. Load(Jobs) \in Nat /\ Cardinality(Started) <= Load(Jobs)
      BY <3>2, <3>4
    <3> QED
      BY <3>3, <3>5
  <2>2. CASE available <= 0
    <3>1. pass' = Between
      BY <1>5, <2>2 DEF CountRunning
    <3> QED
      BY <1>2, <1>5, <3>1 DEF SchedulerInv, SchedulerTypeOK, PassCounts, Between, CountRunning
  <2>3. CASE available > 0
    <3> HIDE DEF available
    <3>1. pass' = [pc |-> "counted", scheduled |-> pass.scheduled, available |-> available]
      BY <1>5, <2>1, <2>3 DEF CountRunning, available
    <3>2. SchedulerTypeOK'
      BY <1>1, <1>5, <2>1, <2>3, <3>1 DEF SchedulerInv, SchedulerTypeOK, CountRunning
    <3>3. Cardinality(Started) + available <= MaxRunning
      BY <1>4, <2>1, Assumptions DEF LimitsAssumption, available
    <3>4. PassCounts'
      BY <1>1, <3>1, <3>3 DEF PassCounts
    <3> QED
      BY <1>2, <3>2, <3>4 DEF SchedulerInv
  <2> QED
    BY <2>1, <2>2, <2>3
<1>6. CASE CountByUser
  <2>1. pass.pc = "counted" /\ pass.available \in Nat \ {0}
    BY <1>6, PassRecords DEF CountByUser, SchedulerInv
  <2>2. [u \in Users |-> Load(OfUser(u))] \in [Users -> Nat]
    BY <1>3 DEF OfUser
  <2>3. SchedulerTypeOK'
    BY <1>1, <1>6, <2>1, <2>2 DEF SchedulerInv, SchedulerTypeOK, CountByUser
  <2>4. \A u \in Users : Cardinality(Started \cap OfUser(u)) <= Load(OfUser(u))
    BY <1>3 DEF OfUser
  <2>5. PassCounts'
    BY <1>1, <1>6, <2>1, <2>4 DEF SchedulerInv, PassCounts, CountByUser
  <2> QED
    BY <1>2, <2>3, <2>5 DEF SchedulerInv
<1>7. CASE CountByKey
  <2>1. pass.pc = "users" /\ pass.available \in Nat \ {0} /\ pass.byUser \in [Users -> Nat]
    BY <1>7, PassRecords DEF CountByKey, SchedulerInv
  <2>2. [k \in Keys |-> Load(OfKey(k))] \in [Keys -> Nat]
    BY <1>3 DEF OfKey
  <2>3. SchedulerTypeOK'
    BY <1>1, <1>7, <2>1, <2>2 DEF SchedulerInv, SchedulerTypeOK, CountByKey
  <2>4. \A k \in Keys : Cardinality(Started \cap OfKey(k)) <= Load(OfKey(k))
    BY <1>3 DEF OfKey
  <2>5. PassCounts'
    BY <1>1, <1>7, <2>1, <2>4 DEF SchedulerInv, PassCounts, CountByKey
  <2> QED
    BY <1>2, <2>3, <2>5 DEF SchedulerInv
<1> QED
  BY <1>5, <1>6, <1>7

\* Any step that leaves the pass as it is, hands no job to a thread and lets none through.
LEMMA PassKeeps ==
  ASSUME SchedulerInv, SchedulerTypeOK', pass' = pass, Scheduled' = Scheduled,
         Started' \in SUBSET Started
  PROVE  SchedulerInv'
<1>1. SiteLimit' /\ UserLimits' /\ KeyLimits'
  BY ShrinkingKeeps DEF SchedulerInv
<1>2. /\ Cardinality(Started') <= Cardinality(Started)
      /\ Cardinality(Started') \in Nat /\ Cardinality(Started) \in Nat
      /\ \A S \in SUBSET Jobs : /\ Cardinality(Started' \cap S) <= Cardinality(Started \cap S)
                                /\ Cardinality(Started' \cap S) \in Nat
                                /\ Cardinality(Started \cap S) \in Nat
  BY ShrinkingKeeps
<1>3. pass.pc \in {"counted", "users", "keys"} =>
        Cardinality(Started') + pass.available <= MaxRunning
  <2> SUFFICES ASSUME pass.pc \in {"counted", "users", "keys"}
               PROVE  Cardinality(Started') + pass.available <= MaxRunning
    OBVIOUS
  <2>1. pass.available \in Nat /\ MaxRunning \in Nat
    BY PassRecords, Assumptions DEF SchedulerInv, LimitsAssumption
  <2>2. Cardinality(Started) + pass.available <= MaxRunning
    BY DEF SchedulerInv, PassCounts
  <2> QED
    BY <1>2, <2>1, <2>2
<1>4. pass.pc \in {"users", "keys"} =>
        \A u \in Users : Cardinality(Started' \cap OfUser(u)) <= pass.byUser[u]
  <2> SUFFICES ASSUME pass.pc \in {"users", "keys"}, NEW u \in Users
               PROVE  Cardinality(Started' \cap OfUser(u)) <= pass.byUser[u]
    OBVIOUS
  <2>1. pass.byUser[u] \in Nat /\ OfUser(u) \in SUBSET Jobs
    BY PassRecords DEF SchedulerInv, OfUser
  <2>2. Cardinality(Started \cap OfUser(u)) <= pass.byUser[u]
    BY DEF SchedulerInv, PassCounts
  <2>3. /\ Cardinality(Started' \cap OfUser(u)) <= Cardinality(Started \cap OfUser(u))
        /\ Cardinality(Started' \cap OfUser(u)) \in Nat
        /\ Cardinality(Started \cap OfUser(u)) \in Nat
    BY <1>2, <2>1
  <2> QED
    BY <2>1, <2>2, <2>3
<1>5. pass.pc = "keys" =>
        \A k \in Keys : Cardinality(Started' \cap OfKey(k)) <= pass.byKey[k]
  <2> SUFFICES ASSUME pass.pc = "keys", NEW k \in Keys
               PROVE  Cardinality(Started' \cap OfKey(k)) <= pass.byKey[k]
    OBVIOUS
  <2>1. pass.byKey[k] \in Nat /\ OfKey(k) \in SUBSET Jobs
    BY PassRecords DEF SchedulerInv, OfKey
  <2>2. Cardinality(Started \cap OfKey(k)) <= pass.byKey[k]
    BY DEF SchedulerInv, PassCounts
  <2>3. /\ Cardinality(Started' \cap OfKey(k)) <= Cardinality(Started \cap OfKey(k))
        /\ Cardinality(Started' \cap OfKey(k)) \in Nat
        /\ Cardinality(Started \cap OfKey(k)) \in Nat
    BY <1>2, <2>1
  <2> QED
    BY <2>1, <2>2, <2>3
<1>6. PassCounts'
  BY <1>3, <1>4, <1>5 DEF SchedulerInv, PassCounts
<1> QED
  BY <1>1, <1>6 DEF SchedulerInv

LEMMA CrashStep == SchedulerInv /\ (WorkerCrash \/ WorkerStart) => SchedulerInv'
<1> SUFFICES ASSUME SchedulerInv, WorkerCrash \/ WorkerStart PROVE SchedulerInv'
  OBVIOUS
<1>1. Started' \in SUBSET Started
  BY DEF WorkerCrash, WorkerStart, Started, Running, Scheduled, GENERATION_RUNNING
<1>2. CASE WorkerCrash
  <2>1. SchedulerTypeOK'
    <3>1. up' \in BOOLEAN /\ pass' = Between
      BY <1>2, Zenon DEF WorkerCrash
    <3>2. faults' = faults + 1 /\ future' \in [Jobs -> Futures]
          /\ UNCHANGED <<stage, attempts, returned, returns>>
      BY <1>2 DEF WorkerCrash, Futures
    <3> QED
      BY <3>1, <3>2 DEF SchedulerInv, SchedulerTypeOK
  <2>2. SiteLimit' /\ UserLimits' /\ KeyLimits'
    BY <1>1, ShrinkingKeeps DEF SchedulerInv
  <2>3. PassCounts'
    BY <1>2 DEF PassCounts, WorkerCrash, Between
  <2> QED
    BY <2>1, <2>2, <2>3 DEF SchedulerInv
<1>3. CASE WorkerStart
  <2>1. pass' = pass /\ Scheduled' = Scheduled
    BY <1>3 DEF WorkerStart, Scheduled
  <2>2. SchedulerTypeOK'
    BY <1>3 DEF SchedulerInv, SchedulerTypeOK, WorkerStart, Stages, GENERATION_RUNNING
  <2> QED
    BY <1>1, <2>1, <2>2, PassKeeps
<1> QED
  BY <1>2, <1>3

--------------------------------------------------------------------------------
\* The start of the chosen jobs.

\* However many jobs of a scope S a pass takes, n counted before and the chosen ones of
\* S stay within the limit that each of them was checked against.
LEMMA ChosenFit ==
  ASSUME NEW C \in SUBSET Jobs, NEW S \in SUBSET Jobs, NEW n \in Nat, NEW limit \in Nat,
         \A j \in C \cap S : n + Cardinality(Before(C, j) \cap S) < limit,
         Cardinality(Started \cap S) <= n, Cardinality(Started \cap S) <= limit,
         Started' \in SUBSET (Started \cup C)
  PROVE  Cardinality(Started' \cap S) <= limit
<1> DEFINE old == Started \cap S
           new == C \cap S
<1>1. old \in SUBSET Jobs /\ new \in SUBSET Jobs
  BY DEF Started, Running, Scheduled
<1>2. Started' \cap S \in SUBSET (old \cup new)
  OBVIOUS
<1>3. CASE new = {}
  <2>1. Started' \cap S \in SUBSET old
    BY <1>2, <1>3
  <2> QED
    BY <1>1, <2>1, JobSets
<1>4. CASE new # {}
  <2>1. PICK m \in new : Cardinality(new) = Cardinality(Before(new, m)) + 1
    BY <1>1, <1>4, LastJob
  <2>2. Before(new, m) = Before(C, m) \cap S
    BY DEF Before
  <2>3. n + Cardinality(Before(new, m)) < limit
    BY <2>1, <2>2
  <2>4. Before(new, m) \in SUBSET new /\ old \cap new \in SUBSET Jobs /\ old \cup new \in SUBSET Jobs
    BY <1>1 DEF Before
  <2>5. /\ Cardinality(Before(new, m)) \in Nat /\ Cardinality(new) \in Nat
        /\ Cardinality(old) \in Nat /\ Cardinality(old \cap new) \in Nat
        /\ Cardinality(old \cup new) \in Nat /\ Cardinality(Started' \cap S) \in Nat
        /\ Cardinality(Started' \cap S) <= Cardinality(old \cup new)
    BY <1>1, <1>2, <2>4, JobSets
  <2>6. Cardinality(old \cup new) = Cardinality(old) + Cardinality(new) - Cardinality(old \cap new)
    BY <1>1, JobSets, FS_Union
  <2>7. Cardinality(old) <= n
    OBVIOUS
  <2> HIDE DEF old, new
  <2> QED
    BY <2>1, <2>3, <2>5, <2>6, <2>7
<1> QED
  BY <1>3, <1>4

LEMMA StartStep == SchedulerInv /\ StartQueued => SchedulerInv'
<1> SUFFICES ASSUME SchedulerInv, StartQueued PROVE SchedulerInv'
  OBVIOUS
<1>1. PICK C \in SUBSET Candidates :
        /\ \A j \in Candidates : j \in C <=> Picks(j, Before(C, j))
        /\ future' = [j \in Jobs |-> IF j \in C THEN "pending" ELSE future[j]]
  BY DEF StartQueued
<1>2. C \in SUBSET Jobs /\ \A j \in C : Picks(j, Before(C, j))
  BY <1>1 DEF Candidates, Queued
<1>3. Started' \in SUBSET (Started \cup C) /\ Started \in SUBSET Jobs
  BY <1>1 DEF StartQueued, Started, Running, Scheduled
<1>4. /\ pass.pc = "keys" /\ pass.available \in Nat \ {0} /\ pass.byUser \in [Users -> Nat]
      /\ pass.byKey \in [Keys -> Nat]
  BY PassRecords DEF StartQueued, SchedulerInv
<1>5. SchedulerTypeOK'
  BY <1>1 DEF SchedulerInv, SchedulerTypeOK, StartQueued, Futures
<1>6. PassCounts'
  BY DEF StartQueued, PassCounts, Between
<1>7. SiteLimit'
  <2>1. MaxRunning \in Nat /\ Cardinality(Started) \in Nat
    BY <1>3, JobSets, Assumptions DEF LimitsAssumption
  <2>2. Cardinality(Started) + pass.available <= MaxRunning /\ Cardinality(Started) <= MaxRunning
    BY <1>4 DEF SchedulerInv, PassCounts, SiteLimit
  <2> DEFINE n == MaxRunning - pass.available
  <2>3. n \in Nat /\ Cardinality(Started) <= n
    BY <1>4, <2>1, <2>2
  <2>4. \A j \in C : Cardinality(Before(C, j)) < pass.available /\ Cardinality(Before(C, j)) \in Nat
    <3> TAKE j \in C
    <3>1. Before(C, j) \in SUBSET Jobs
      BY <1>2 DEF Before
    <3> QED
      BY <1>2, <3>1, JobSets DEF Picks
  <2>5. \A j \in C \cap Jobs : n + Cardinality(Before(C, j) \cap Jobs) < MaxRunning
    <3> TAKE j \in C \cap Jobs
    <3>1. Before(C, j) \cap Jobs = Before(C, j)
      BY <1>2 DEF Before
    <3> QED
      BY <1>4, <2>1, <2>4, <3>1
  <2>6. Started \cap Jobs = Started /\ Started' \cap Jobs = Started'
    BY <1>2, <1>3
  <2> HIDE DEF n
  <2>7. Cardinality(Started' \cap Jobs) <= MaxRunning
    BY <1>2, <1>3, <2>1, <2>2, <2>3, <2>5, <2>6, ChosenFit
  <2> QED
    BY <2>6, <2>7 DEF SiteLimit
<1>8. UserLimits'
  <2> SUFFICES ASSUME NEW u \in Users, UserLimit[u] # 0
               PROVE  Cardinality(Started' \cap OfUser(u)) <= UserLimit[u]
    BY DEF UserLimits
  <2>1. OfUser(u) \in SUBSET Jobs /\ pass.byUser[u] \in Nat /\ UserLimit[u] \in Nat
    BY <1>4, Assumptions DEF OfUser, LimitsAssumption
  <2>2. \A j \in C \cap OfUser(u) :
          pass.byUser[u] + Cardinality(Before(C, j) \cap OfUser(u)) < UserLimit[u]
    BY <1>2 DEF Picks, Room, OfUser
  <2>3. /\ Cardinality(Started \cap OfUser(u)) <= pass.byUser[u]
        /\ Cardinality(Started \cap OfUser(u)) <= UserLimit[u]
    BY <1>4 DEF SchedulerInv, PassCounts, UserLimits
  <2> QED
    BY <1>2, <1>3, <2>1, <2>2, <2>3, ChosenFit
<1>9. KeyLimits'
  <2> SUFFICES ASSUME NEW k \in Keys, KeyLimit[k] # 0
               PROVE  Cardinality(Started' \cap OfKey(k)) <= KeyLimit[k]
    BY DEF KeyLimits
  <2>1. OfKey(k) \in SUBSET Jobs /\ pass.byKey[k] \in Nat /\ KeyLimit[k] \in Nat
    BY <1>4, Assumptions DEF OfKey, LimitsAssumption
  <2>2. \A j \in C \cap OfKey(k) :
          pass.byKey[k] + Cardinality(Before(C, j) \cap OfKey(k)) < KeyLimit[k]
    BY <1>2 DEF Picks, Room, OfKey
  <2>3. /\ Cardinality(Started \cap OfKey(k)) <= pass.byKey[k]
        /\ Cardinality(Started \cap OfKey(k)) <= KeyLimit[k]
    BY <1>4 DEF SchedulerInv, PassCounts, KeyLimits
  <2> QED
    BY <1>2, <1>3, <2>1, <2>2, <2>3, ChosenFit
<1> QED
  BY <1>5, <1>6, <1>7, <1>8, <1>9 DEF SchedulerInv

--------------------------------------------------------------------------------
\* Every step keeps the invariant.
LEMMA SchedulerStep == SchedulerInv /\ [Next]_vars => SchedulerInv'
<1> SUFFICES ASSUME SchedulerInv, [Next]_vars PROVE SchedulerInv'
  OBVIOUS
<1>1. CASE PassNext
  BY <1>1, PassStartStep, CountStep, StartStep DEF PassNext
<1>2. CASE WorkerCrash \/ WorkerStart
  BY <1>2, CrashStep
<1>3. ASSUME NEW j \in Jobs,
             Arrive(j) \/ SubmitNext(j) \/ RecoverSubmitting(j) \/ GenerationEnds(j)
               \/ ReturnsToGeneration(j)
      PROVE  SchedulerInv'
  <2>1. SchedulerTypeOK
    BY DEF SchedulerInv
  <2> QED
    BY <1>3, <2>1, JobStep, PassKeeps
<1>4. CASE UNCHANGED vars
  <2>1. SchedulerTypeOK' /\ pass' = pass /\ Scheduled' = Scheduled /\ Started' = Started
    BY <1>4 DEF vars, SchedulerInv, SchedulerTypeOK, Scheduled, Started, Running
  <2> QED
    BY <2>1, PassKeeps
<1> QED
  BY <1>1, <1>2, <1>3, <1>4 DEF Next

\* Every pass of _start_queued_jobs over its old counts, every thread, stale recovery and
\* restart keeps the types and what a pass may still start within what its counts left.
THEOREM SchedulerInvariant == Spec => []SchedulerInv
  BY InvInit, SchedulerStep, PTL DEF Spec

\* No pass of the loop lets more jobs generate than max_running_jobs, the limit of their
\* user or the limit of their channel.
THEOREM LimitsHold == Spec => []WithinLimits
<1>1. SchedulerInv => WithinLimits
  BY DEF SchedulerInv, WithinLimits
<1> QED
  BY <1>1, SchedulerInvariant, PTL
================================================================================
