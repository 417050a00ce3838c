------------------------------ MODULE BillingProofs ------------------------------
(*
What holds of the billing of the upstream for any number of jobs, tasks and entries: what a
row, a check or a registration knows of a task was true when it was read and still is, as
long as the row is of that task. The checks and the threads that register tasks work
without a lock between their reads and their writes.
*)
EXTENDS Billing, FiniteSetTheorems, SequenceTheorems, TLAPS

--------------------------------------------------------------------------------
\* The invariant.

Entry == [task : Tasks \cup {Other}, quota : {2, 1, -1}]
Registering == [pc : {"commit"}, task : Attempts, state : {"none", "pending", "excluded"}]

\* Entries, rows and threads have their types; no entry is referred to that is not there yet.
Types ==
  /\ window \in Windows
  /\ upstream \in [Tasks -> {"none", "running", "completed", "failed"}]
  /\ log \in Seq(Entry) /\ Len(log) <= MaxLogs
  /\ posted \in [Jobs -> SUBSET Attempts] /\ remote \in [Jobs -> Attempts \cup {NoTask}]
  /\ reg \in [Jobs -> {Idle} \cup Registering]
  /\ seen \in [Jobs -> BOOLEAN] /\ click \in [Jobs -> BOOLEAN]
  /\ row \in [Jobs -> {Absent} \cup Row] /\ booked \in [Jobs -> Nat]
  /\ check \in [Jobs -> Check]
  /\ cached \in {NoCache} \cup 0..Len(log)
  /\ faults \in 0..MaxFaults /\ clicks \in 0..MaxClicks

\* A job is in one place of the timer.
TimerFits ==
  /\ waiting \subseteq Jobs /\ queue \in Seq(Jobs) /\ IsInjective(queue)
  /\ waiting \cap Range(queue) = {}

\* The executor runs as many checks as it has threads.
ChecksFit == Cardinality(InFlight) <= MaxChecks

\* A task is charged when it is accepted, and not before.
IsFirst(t, p) == p \in LogsOf(t) /\ \A q \in LogsOf(t) : p <= q
LogFits == \A t \in Tasks : IF upstream[t] = "none" THEN LogsOf(t) = {} ELSE \E p \in LogsOf(t) : IsFirst(t, p)

\* The rest is stated of one job j, with its row r, the sum b of its revisions, its
\* registration g, its remote task m, its accepted tasks P and its check c.

\* Tasks that no row, check or stored entry can know of yet.
Unregistered(j, g, P) ==
  {a \in Attempts : \/ upstream[<<j, a>>] = "none" \/ a \in P
                    \/ g.pc = "commit" /\ g.task = a}

\* An accepted task is registered once.
RegistrationFits(j, r, g, P) ==
  /\ \A a \in P : upstream[<<j, a>>] # "none"
  /\ g.pc = "commit" => /\ upstream[<<j, g.task>>] # "none" /\ g.task \notin P
                        /\ g.state # "none" => r # Absent
                        /\ g.state = "excluded" => r.state = "excluded"

\* What is known of tasks is known after their registration.
KnownTasks(j, r, m, U) ==
  /\ m # NoTask => m \notin U
  /\ r # Absent => /\ r.remote \notin U /\ r.logs \subseteq DOMAIN log
                   /\ \A a \in U : r.logs \cap LogsOf(<<j, a>>) = {}

\* A row has an amount exactly when it is settled, the one its revisions add up to; it is
\* the sum of its entries unless the row was reassigned since.
Own(j, r) == r.logs \subseteq LogsOf(<<j, r.remote>>)
Worth(r) == IF r # Absent /\ r.net # NoAmount THEN r.net ELSE 0
RowFits(j, r, b) ==
  /\ r = Absent => b = 0
  /\ r # Absent => (r.state = "settled" <=> r.net # NoAmount) /\ b = Worth(r)
  /\ r.state = "settled" => r.logs # {}
  /\ r.state = "settled" /\ Own(j, r) =>
       /\ r.net = Net(r.logs)
       /\ upstream[<<j, r.remote>>] \in {"completed", "failed"}

\* Entries are kept together with the first, unless it is older than the row.
FirstKept(r, t, positions) ==
  positions # {} => \A p \in LogsOf(t) : IsFirst(t, p) /\ r.created < p => p \in positions
RowHasFirst(j, r) == r # Absent /\ Own(j, r) => FirstKept(r, <<j, r.remote>>, r.logs)

\* A check past its read: what it took from the row is so as long as the row is of the
\* same task.
CheckFits(j, r, c, U) ==
  c.pc \notin {"idle", "start"} =>
    /\ r # Absent /\ r.state # "excluded" /\ c.remote \notin U
    /\ c.pc \in {"status", "logs"} /\ r.remote = c.remote
         => c.created = r.created /\ (c.had => r.logs # {})
    /\ c.pc \in {"logs", "save"} /\ c.status # "running"
         => upstream[<<j, c.remote>>] \in {"completed", "failed"}
    /\ c.pc \in {"logs", "save"} /\ r.remote = c.remote /\ r.state = "settled" /\ Own(j, r)
         => c.status # "running"
    /\ c.pc = "save" =>
         /\ c.matched \subseteq LogsOf(<<j, c.remote>>)
         /\ r.remote = c.remote /\ r.logs = {} => FirstKept(r, <<j, c.remote>>, c.matched)

Fits(j, r, b, g, m, P, c, U) ==
  /\ RegistrationFits(j, r, g, P) /\ KnownTasks(j, r, m, U)
  /\ RowFits(j, r, b) /\ RowHasFirst(j, r) /\ CheckFits(j, r, c, U)

JobFits(j) == Fits(j, row[j], booked[j], reg[j], remote[j], posted[j], check[j],
                   Unregistered(j, reg[j], posted[j]))

\* A pending row is waiting or due.
Watched == \A j \in Jobs : row[j].state = "pending" => Scheduled(j)

BillingInv == Types /\ TimerFits /\ ChecksFit /\ LogFits /\ Watched /\ \A j \in Jobs : JobFits(j)

--------------------------------------------------------------------------------
\* The log, the sums of its entries, and the queue.

\* What Types says of the log.
LEMMA LogTyped ==
  ASSUME Types
  PROVE  /\ Len(log) \in Nat /\ DOMAIN log = 1..Len(log) /\ DOMAIN log \subseteq Positions
         /\ \A p \in DOMAIN log : log[p] \in Entry
         /\ \A t : LogsOf(t) \subseteq DOMAIN log
  BY BillingAssumption DEF Types, Positions, LogsOf

\* Entry e is the next one.
Grows(e) == log' = Append(log, e)

LEMMA LogGrows ==
  ASSUME Types, NEW e \in Entry, Grows(e)
  PROVE  /\ log' \in Seq(Entry) /\ Len(log') = Len(log) + 1
         /\ DOMAIN log' = DOMAIN log \cup {Len(log) + 1} /\ Len(log) + 1 \notin DOMAIN log
         /\ \A p \in DOMAIN log : log'[p] = log[p]
         /\ log'[Len(log) + 1] = e
         /\ \A t : LogsOf(t)' = LogsOf(t) \cup (IF e.task = t THEN {Len(log) + 1} ELSE {})
         /\ \A t : \A p \in LogsOf(t) : p < Len(log) + 1
  <1>1. log \in Seq(Entry) /\ Len(log) \in Nat /\ DOMAIN log = 1..Len(log)
    BY LogTyped DEF Types
  <1>2. /\ log' \in Seq(Entry) /\ Len(log') = Len(log) + 1
        /\ \A p \in 1..Len(log) : log'[p] = log[p]
        /\ log'[Len(log) + 1] = e
    BY <1>1, AppendProperties DEF Grows
  <1>3. DOMAIN log' = DOMAIN log \cup {Len(log) + 1} /\ Len(log) + 1 \notin DOMAIN log
    <2>1. DOMAIN log' = 1..Len(log) + 1
      BY <1>2
    <2> QED BY <1>1, <2>1
  <1>4. ASSUME NEW t PROVE LogsOf(t)' = LogsOf(t) \cup (IF e.task = t THEN {Len(log) + 1} ELSE {})
    BY <1>1, <1>2, <1>3 DEF LogsOf
  <1>5. ASSUME NEW t, NEW p \in LogsOf(t) PROVE p < Len(log) + 1
    BY <1>1 DEF LogsOf
  <1> QED BY <1>1, <1>2, <1>3, <1>4, <1>5

\* The sum of a set of entries does not change while the log grows.
LEMMA NetSame ==
  ASSUME NEW S, S \subseteq DOMAIN log, \A p \in DOMAIN log : log'[p] = log[p]
  PROVE  Net(S)' = Net(S)
  <1>1. ASSUME NEW q PROVE With(q, S)' = With(q, S)
    BY DEF With
  <1>2. With(2, S)' = With(2, S) /\ With(1, S)' = With(1, S) /\ With(-1, S)' = With(-1, S)
    BY <1>1
  <1> QED BY <1>2 DEF Net

LEMMA NetBound ==
  ASSUME Types, NEW S, S \subseteq DOMAIN log
  PROVE  Net(S) \in Int /\ Net(S) <= 2 * MaxLogs
  <1> DEFINE A == With(2, S)
             B == With(1, S)
             C == With(-1, S)
  <1>1. IsFiniteSet(S) /\ Cardinality(S) <= Len(log) /\ Cardinality(S) \in Nat
    <2>1. IsFiniteSet(1..Len(log)) /\ Cardinality(1..Len(log)) = Len(log)
      BY LogTyped, FS_Interval
    <2>2. S \subseteq 1..Len(log)
      BY LogTyped
    <2> QED BY <2>1, <2>2, FS_Subset, FS_CardinalityType
  <1>2. A \subseteq S /\ B \subseteq S /\ C \subseteq S /\ A \cap B = {} /\ A \cup B \subseteq S
    BY DEF With
  <1> HIDE DEF A, B, C
  <1>3. /\ IsFiniteSet(A) /\ IsFiniteSet(B) /\ IsFiniteSet(C)
        /\ IsFiniteSet(A \cup B) /\ Cardinality(A \cup B) <= Cardinality(S)
    BY <1>1, <1>2, FS_Subset
  <1>4. Cardinality(A) \in Nat /\ Cardinality(B) \in Nat /\ Cardinality(C) \in Nat
    BY <1>3, FS_CardinalityType
  <1>5. Cardinality(A \cap B) = 0
    BY <1>2, FS_EmptySet
  <1>6. Cardinality(A \cup B) = Cardinality(A) + Cardinality(B) - Cardinality(A \cap B)
    BY <1>3, FS_Union, Zenon
  <1>7. Net(S) = 2 * Cardinality(A) + Cardinality(B) - Cardinality(C)
    BY DEF Net, A, B, C
  <1>8. Len(log) <= MaxLogs /\ Len(log) \in Nat /\ MaxLogs \in Nat
    BY LogTyped, BillingAssumption DEF Types
  <1> QED BY <1>1, <1>3, <1>4, <1>5, <1>6, <1>7, <1>8

\* Taking a job out of the queue.
LEMMA QueueWithout ==
  ASSUME TimerFits, NEW j \in Jobs
  PROVE  /\ Unscheduled(j) \in Seq(Jobs) /\ IsInjective(Unscheduled(j))
         /\ Range(Unscheduled(j)) = Range(queue) \ {j}
  <1>0. queue \in Seq(Jobs) /\ IsInjective(queue) /\ Len(queue) \in Nat /\ DOMAIN queue = 1..Len(queue)
    BY DEF TimerFits
  <1>1. CASE j \notin Range(queue)
    BY <1>0, <1>1 DEF Unscheduled
  <1>2. CASE j \in Range(queue)
    <2> DEFINE p == CHOOSE p \in DOMAIN queue : queue[p] = j
               rest == RemoveAt(queue, p)
    <2>1. p \in 1..Len(queue) /\ queue[p] = j
      BY <1>0, <1>2 DEF Range
    <2>2. Unscheduled(j) = rest
      BY <1>2 DEF Unscheduled
    <2> HIDE DEF p
    <2>3. \A q \in 1..Len(queue) : queue[q] = j => q = p
      BY <1>0, <2>1 DEF IsInjective
    <2>4. /\ SubSeq(queue, 1, p - 1) \in Seq(Jobs) /\ Len(SubSeq(queue, 1, p - 1)) = p - 1
          /\ \A i \in 1..p - 1 : SubSeq(queue, 1, p - 1)[i] = queue[i]
      BY <1>0, <2>1
    <2>5. /\ SubSeq(queue, p + 1, Len(queue)) \in Seq(Jobs)
          /\ Len(SubSeq(queue, p + 1, Len(queue))) = Len(queue) - p
          /\ \A i \in 1..Len(queue) - p : SubSeq(queue, p + 1, Len(queue))[i] = queue[p + i]
      <3>0. p + 1 \in Int /\ Len(queue) \in Int /\ \A i \in p + 1..Len(queue) : queue[i] \in Jobs
        BY <1>0, <2>1
      <3>1. /\ SubSeq(queue, p + 1, Len(queue)) \in Seq(Jobs)
            /\ Len(SubSeq(queue, p + 1, Len(queue)))
                 = IF p + 1 <= Len(queue) THEN Len(queue) - (p + 1) + 1 ELSE 0
            /\ \A i \in 1..Len(queue) - (p + 1) + 1 :
                 SubSeq(queue, p + 1, Len(queue))[i] = queue[p + 1 + i - 1]
        BY <3>0, SubSeqProperties
      <3>2. \A n \in Nat : \A m \in 1..n :
              /\ n - (m + 1) + 1 = n - m /\ \A i \in 1..n - m : m + 1 + i - 1 = m + i
              /\ (IF m + 1 <= n THEN n - (m + 1) + 1 ELSE 0) = n - m
        OBVIOUS
      <3>3. /\ Len(queue) - (p + 1) + 1 = Len(queue) - p
            /\ \A i \in 1..Len(queue) - p : p + 1 + i - 1 = p + i
            /\ (IF p + 1 <= Len(queue) THEN Len(queue) - (p + 1) + 1 ELSE 0) = Len(queue) - p
        BY <1>0, <2>1, <3>2, Zenon
      <3>4. Len(SubSeq(queue, p + 1, Len(queue))) = Len(queue) - p
        BY <3>1, <3>3, Zenon
      <3>5. \A i \in 1..Len(queue) - p : SubSeq(queue, p + 1, Len(queue))[i] = queue[p + i]
        <4>1. ASSUME NEW i \in 1..Len(queue) - p
              PROVE  SubSeq(queue, p + 1, Len(queue))[i] = queue[p + 1 + i - 1]
          BY <3>1, <3>3, Zenon
        <4>2. ASSUME NEW i \in 1..Len(queue) - p PROVE queue[p + 1 + i - 1] = queue[p + i]
          BY <3>3, Zenon
        <4> QED BY <4>1, <4>2, Zenon
      <3> QED BY <3>1, <3>4, <3>5
    <2>6. /\ rest \in Seq(Jobs) /\ Len(rest) = Len(queue) - 1
          /\ \A i \in 1..Len(queue) - 1 : rest[i] = IF i < p THEN queue[i] ELSE queue[i + 1]
      <3> DEFINE front == SubSeq(queue, 1, p - 1)
                 back == SubSeq(queue, p + 1, Len(queue))
      <3>1. rest = front \o back
        BY DEF RemoveAt
      <3> HIDE DEF front, back, rest
      <3>2. /\ front \in Seq(Jobs) /\ Len(front) = p - 1 /\ \A i \in 1..p - 1 : front[i] = queue[i]
            /\ back \in Seq(Jobs) /\ Len(back) = Len(queue) - p
            /\ \A i \in 1..Len(queue) - p : back[i] = queue[p + i]
        BY <2>4, <2>5 DEF front, back
      <3>3. /\ front \o back \in Seq(Jobs) /\ Len(front \o back) = Len(front) + Len(back)
            /\ \A i \in 1..Len(front) + Len(back) :
                 (front \o back)[i] = IF i <= Len(front) THEN front[i] ELSE back[i - Len(front)]
        BY <3>2, ConcatProperties
      <3>4. ASSUME NEW i \in 1..Len(queue) - 1
            PROVE  rest[i] = IF i < p THEN queue[i] ELSE queue[i + 1]
        <4>1. CASE i < p
          <5>1. i \in 1..p - 1 /\ i <= Len(front) /\ i \in 1..Len(front) + Len(back)
            BY <1>0, <2>1, <3>2, <4>1
          <5> QED BY <3>1, <3>2, <3>3, <4>1, <5>1
        <4>2. CASE ~(i < p)
          <5>1. /\ ~(i <= Len(front)) /\ i \in 1..Len(front) + Len(back)
                /\ i - Len(front) \in 1..Len(queue) - p /\ p + (i - Len(front)) = i + 1
            BY <1>0, <2>1, <3>2, <4>2
          <5> QED BY <3>1, <3>2, <3>3, <4>2, <5>1
        <4> QED BY <4>1, <4>2
      <3>5. Len(rest) = Len(queue) - 1
        BY <1>0, <2>1, <3>1, <3>2, <3>3
      <3> QED BY <3>1, <3>3, <3>4, <3>5
    <2> HIDE DEF rest
    <2>7. DOMAIN rest = 1..Len(queue) - 1
      BY <2>6
    <2>8. Range(rest) = Range(queue) \ {j}
      <3>1. ASSUME NEW i \in 1..Len(queue) - 1 PROVE rest[i] \in Range(queue) \ {j}
        <4>1. /\ i \in 1..Len(queue) /\ i + 1 \in 1..Len(queue)
              /\ i < p => i # p
              /\ ~(i < p) => i + 1 # p
          BY <1>0, <2>1
        <4>2. PICK q \in 1..Len(queue) : q # p /\ rest[i] = queue[q]
          BY <2>6, <4>1
        <4> QED BY <1>0, <2>3, <4>2 DEF Range
      <3>2. ASSUME NEW q \in 1..Len(queue), q # p PROVE \E i \in 1..Len(queue) - 1 : rest[i] = queue[q]
        <4>1. CASE q < p
          <5>1. q \in 1..Len(queue) - 1
            BY <1>0, <2>1, <4>1
          <5> QED BY <2>6, <4>1, <5>1
        <4>2. CASE q > p
          <5>1. q - 1 \in 1..Len(queue) - 1 /\ ~(q - 1 < p) /\ (q - 1) + 1 = q
            BY <1>0, <2>1, <4>2
          <5> QED BY <2>6, <5>1
        <4> QED BY <1>0, <2>1, <3>2, <4>1, <4>2
      <3>3. Range(rest) \subseteq Range(queue) \ {j}
        BY <2>7, <3>1 DEF Range
      <3>4. ASSUME NEW k \in Range(queue) \ {j} PROVE k \in Range(rest)
        <4>1. PICK q \in 1..Len(queue) : queue[q] = k /\ q # p
          BY <1>0, <2>1 DEF Range
        <4> QED BY <2>7, <3>2, <4>1 DEF Range
      <3> QED BY <3>3, <3>4
    <2>9. IsInjective(rest)
      <3> SUFFICES ASSUME NEW i \in 1..Len(queue) - 1, NEW k \in 1..Len(queue) - 1, rest[i] = rest[k]
                   PROVE  i = k
        BY <2>7 DEF IsInjective
      <3>1. \A m \in 1..Len(queue) - 1 : m \in Nat /\ m \in 1..Len(queue) /\ m + 1 \in 1..Len(queue)
        BY <1>0
      <3>2. \A m, n \in 1..Len(queue) : queue[m] = queue[n] => m = n
        BY <1>0 DEF IsInjective
      <3> QED BY <2>1, <2>6, <3>1, <3>2
    <2> QED BY <2>2, <2>6, <2>8, <2>9
  <1> QED BY <1>1, <1>2

\* A job is put where it is waited for, where it is due, or nowhere.
LEMMA TimerMoves ==
  ASSUME TimerFits, NEW j \in Jobs
  PROVE  /\ CheckLater(j) => TimerFits' /\ \A k \in Jobs : Scheduled(k)' <=> Scheduled(k) \/ k = j
         /\ CheckNow(j) => TimerFits' /\ \A k \in Jobs : Scheduled(k)' <=> Scheduled(k) \/ k = j
         /\ CheckNever(j) => TimerFits' /\ \A k \in Jobs : Scheduled(k)' <=> Scheduled(k) /\ k # j
  <1> DEFINE rest == Unscheduled(j)
  <1>0. /\ waiting \subseteq Jobs /\ waiting \cap Range(queue) = {}
        /\ rest \in Seq(Jobs) /\ IsInjective(rest) /\ Range(rest) = Range(queue) \ {j}
    BY QueueWithout DEF TimerFits
  <1>1. CheckLater(j) => queue' = rest /\ waiting' = waiting \cup {j}
    BY DEF CheckLater
  <1>2. CheckNever(j) => queue' = rest /\ waiting' = waiting \ {j}
    BY DEF CheckNever
  <1>3. CheckNow(j) => queue' = Append(rest, j) /\ waiting' = waiting \ {j}
    BY DEF CheckNow
  <1> HIDE DEF rest
  <1>4. /\ Append(rest, j) \in Seq(Jobs) /\ IsInjective(Append(rest, j))
        /\ Range(Append(rest, j)) = Range(rest) \cup {j}
    <2>1. /\ Append(rest, j) \in Seq(Jobs) /\ Len(Append(rest, j)) = Len(rest) + 1
          /\ \A i \in 1..Len(rest) : Append(rest, j)[i] = rest[i]
          /\ Append(rest, j)[Len(rest) + 1] = j
      BY <1>0, AppendProperties
    <2> DEFINE all == Append(rest, j)
    <2> HIDE DEF all
    <2>2. DOMAIN all = 1..Len(rest) + 1 /\ DOMAIN rest = 1..Len(rest) /\ Len(rest) \in Nat
      BY <1>0, <2>1 DEF all
    <2>3. \A i \in DOMAIN all : i \in DOMAIN rest \/ i = Len(rest) + 1
      BY <2>2
    <2>4. /\ \A i \in DOMAIN rest : i \in DOMAIN all /\ all[i] = rest[i] /\ rest[i] # j
          /\ Len(rest) + 1 \in DOMAIN all /\ all[Len(rest) + 1] = j
      BY <1>0, <2>1, <2>2 DEF all, Range
    <2>5. IsInjective(all)
      BY <1>0, <2>3, <2>4 DEF IsInjective
    <2>6. Range(all) = Range(rest) \cup {j}
      BY <2>3, <2>4 DEF Range
    <2> QED BY <2>1, <2>5, <2>6 DEF all
  <1>5. ASSUME CheckLater(j) PROVE TimerFits' /\ \A k \in Jobs : Scheduled(k)' <=> Scheduled(k) \/ k = j
    BY <1>0, <1>1, <1>5 DEF TimerFits, Scheduled
  <1>6. ASSUME CheckNever(j) PROVE TimerFits' /\ \A k \in Jobs : Scheduled(k)' <=> Scheduled(k) /\ k # j
    BY <1>0, <1>2, <1>6 DEF TimerFits, Scheduled
  <1>7. ASSUME CheckNow(j) PROVE TimerFits' /\ \A k \in Jobs : Scheduled(k)' <=> Scheduled(k) \/ k = j
    BY <1>0, <1>3, <1>4, <1>7 DEF TimerFits, Scheduled
  <1> QED BY <1>5, <1>6, <1>7

--------------------------------------------------------------------------------
\* Jobs whose row and threads a step leaves alone.

LEMMA RowTyped ==
  ASSUME Types, NEW j \in Jobs
  PROVE  /\ row[j] = Absent \/ row[j] \in Row
         /\ row[j] # Absent => /\ row[j] \in Row /\ row[j].remote \in Attempts
                               /\ row[j].state \in {"pending", "settled", "excluded"}
                               /\ row[j].net \in {NoAmount} \cup 0..2 * MaxLogs
                               /\ row[j].logs \subseteq Positions /\ row[j].created \in 0..MaxLogs
         /\ row[j] = Absent <=> row[j].state = "none"
  BY DEF Types, Row, Absent

LEMMA CheckTyped ==
  ASSUME Types, NEW j \in Jobs
  PROVE  /\ check[j] \in Check
         /\ check[j].pc \in {"idle", "start", "retry", "status", "logs", "save"}
         /\ check[j].pc \notin {"idle", "start"} => check[j].remote \in Attempts
         /\ check[j].pc \in {"status", "logs"}
              => check[j].had \in BOOLEAN /\ check[j].created \in 0..MaxLogs
         /\ check[j].pc \in {"logs", "save"} => check[j].status \in {"running", "completed", "failed"}
         /\ check[j].pc = "save" => check[j].matched \subseteq Positions
         /\ check[j].pc = "idle" <=> check[j] = Idle
  <1>1. check[j] \in Check
    BY DEF Types
  <1> QED BY <1>1 DEF Check, Idle

LEMMA RegTyped ==
  ASSUME Types, NEW j \in Jobs
  PROVE  /\ reg[j].pc \in {"idle", "commit"} /\ (reg[j].pc = "idle" <=> reg[j] = Idle)
         /\ reg[j].pc = "commit" => /\ reg[j].task \in Attempts
                                    /\ reg[j].state \in {"none", "pending", "excluded"}
  BY DEF Types, Registering, Idle

\* The log only grows, tasks do not come back to where they were before.
WorldGrows ==
  /\ \A p \in DOMAIN log : p \in DOMAIN log' /\ log'[p] = log[p]
  /\ \A p \in DOMAIN log, q \in DOMAIN log' : q <= p => q \in DOMAIN log
  /\ \A t \in Tasks : /\ upstream[t] # "none" => upstream'[t] # "none"
                      /\ upstream[t] \in {"completed", "failed"}
                           => upstream'[t] \in {"completed", "failed"}

LEMMA LogsStay ==
  ASSUME Types, WorldGrows
  PROVE  /\ \A t : LogsOf(t)' \cap DOMAIN log = LogsOf(t) /\ LogsOf(t) \subseteq LogsOf(t)'
         /\ \A S, t : S \subseteq DOMAIN log => (S \subseteq LogsOf(t)' <=> S \subseteq LogsOf(t))
         /\ \A r, t, S : S \subseteq LogsOf(t) /\ FirstKept(r, t, S) => FirstKept(r, t, S)'
  <1>1. ASSUME NEW t PROVE LogsOf(t)' \cap DOMAIN log = LogsOf(t) /\ LogsOf(t) \subseteq LogsOf(t)'
    BY DEF LogsOf, WorldGrows
  <1>2. ASSUME NEW S, NEW t, S \subseteq DOMAIN log
        PROVE  S \subseteq LogsOf(t)' <=> S \subseteq LogsOf(t)
    BY <1>1, <1>2
  <1>3. ASSUME NEW r, NEW t, NEW S, S \subseteq LogsOf(t), FirstKept(r, t, S) PROVE FirstKept(r, t, S)'
    <2> SUFFICES ASSUME S # {}, NEW p \in LogsOf(t)', IsFirst(t, p)', r.created < p PROVE p \in S
      BY DEF FirstKept
    <2>1. PICK q \in S : q \in LogsOf(t) /\ q \in DOMAIN log
      BY <1>3 DEF LogsOf
    <2>2. p \in DOMAIN log' /\ p <= q
      BY <1>1, <2>1 DEF IsFirst, LogsOf
    <2>3. p \in LogsOf(t)
      BY <1>1, <2>1, <2>2 DEF WorldGrows
    <2>4. IsFirst(t, p)
      BY <1>1, <2>3 DEF IsFirst
    <2> QED BY <1>3, <2>3, <2>4 DEF FirstKept
  <1> QED BY <1>1, <1>2, <1>3

\* What fits a job still does when the world moves on, with tasks posted of those that
\* were not accepted.
LEMMA JobStays ==
  ASSUME Types, NEW j \in Jobs, WorldGrows, NEW r \in {Absent} \cup Row, NEW b,
         NEW g \in {Idle} \cup Registering, NEW m, NEW P \in SUBSET Attempts,
         NEW Q \in SUBSET Attempts, NEW c \in Check, NEW U, NEW V, V \subseteq U,
         Fits(j, r, b, g, m, P, c, U),
         \A a \in Q : upstream'[<<j, a>>] # "none" /\ ~(g.pc = "commit" /\ g.task = a)
  PROVE  Fits(j, r, b, g, m, Q, c, V)'
  <1>0. /\ RegistrationFits(j, r, g, P) /\ KnownTasks(j, r, m, U)
        /\ RowFits(j, r, b) /\ RowHasFirst(j, r) /\ CheckFits(j, r, c, U)
        /\ V \subseteq U
    BY DEF Fits
  <1>1. /\ \A t : LogsOf(t)' \cap DOMAIN log = LogsOf(t) /\ LogsOf(t) \subseteq LogsOf(t)'
        /\ \A S, t : S \subseteq DOMAIN log => (S \subseteq LogsOf(t)' <=> S \subseteq LogsOf(t))
        /\ \A S, t : S \subseteq LogsOf(t) /\ FirstKept(r, t, S) => FirstKept(r, t, S)'
    BY LogsStay
  <1>2. \A a \in Attempts : /\ upstream[<<j, a>>] # "none" => upstream'[<<j, a>>] # "none"
                            /\ upstream[<<j, a>>] \in {"completed", "failed"}
                                 => upstream'[<<j, a>>] \in {"completed", "failed"}
    BY DEF Tasks, WorldGrows
  <1>3. /\ r # Absent => r.remote \in Attempts /\ r.logs \subseteq DOMAIN log
        /\ r.state = "settled" => r # Absent
        /\ g.pc = "commit" => g.task \in Attempts
        /\ c.pc \notin {"idle", "start"} => c.remote \in Attempts
    BY <1>0 DEF Row, Absent, Registering, Idle, Check, KnownTasks
  <1>4. RegistrationFits(j, r, g, Q)'
    BY <1>0, <1>2, <1>3 DEF RegistrationFits
  <1>5. KnownTasks(j, r, m, V)'
    <2>1. r # Absent => r.logs \subseteq DOMAIN log'
      BY <1>3 DEF WorldGrows
    <2>2. ASSUME r # Absent, NEW a \in V PROVE r.logs \cap LogsOf(<<j, a>>)' = {}
      <3>1. r.logs \cap LogsOf(<<j, a>>) = {} /\ r.logs \subseteq DOMAIN log
        BY <1>0, <1>3, <2>2 DEF KnownTasks
      <3> QED BY <1>1, <3>1
    <2> QED BY <1>0, <2>1, <2>2 DEF KnownTasks
  <1>6. r # Absent => (Own(j, r)' <=> Own(j, r))
    BY <1>1, <1>3 DEF Own
  <1>7. RowFits(j, r, b)'
    <2>1. r # Absent => Net(r.logs)' = Net(r.logs)
      BY <1>3, NetSame DEF WorldGrows
    <2> QED BY <1>0, <1>2, <1>3, <1>6, <2>1 DEF RowFits, Worth
  <1>8. RowHasFirst(j, r)'
    BY <1>0, <1>1, <1>6 DEF RowHasFirst, Own
  <1>9. CheckFits(j, r, c, V)'
    BY <1>0, <1>1, <1>2, <1>3, <1>6 DEF CheckFits
  <1> QED BY <1>4, <1>5, <1>7, <1>8, <1>9 DEF Fits

\* The same of the next state, where the job's own part is given by its new values.
LEMMA JobThen ==
  ASSUME NEW j \in Jobs, NEW r, NEW b, NEW g, NEW m, NEW P, NEW c, NEW V,
         row'[j] = r, booked'[j] = b, reg'[j] = g, remote'[j] = m, posted'[j] = P, check'[j] = c,
         V = {a \in Attempts : \/ upstream'[<<j, a>>] = "none" \/ a \in P
                               \/ g.pc = "commit" /\ g.task = a}
  PROVE  JobFits(j)' <=> Fits(j, r, b, g, m, P, c, V)'
  <1>1. Unregistered(j, reg[j], posted[j])' = V
    BY DEF Unregistered
  <1> QED BY <1>1 DEF JobFits

\* A job of whose own part only the accepted tasks change.
LEMMA StaysThen ==
  ASSUME Types, NEW j \in Jobs, WorldGrows, NEW r \in {Absent} \cup Row, NEW b,
         NEW g \in {Idle} \cup Registering, NEW m, NEW P \in SUBSET Attempts,
         NEW Q \in SUBSET Attempts, NEW c \in Check,
         Fits(j, r, b, g, m, P, c, Unregistered(j, g, P)),
         \A a \in Q : upstream'[<<j, a>>] # "none" /\ ~(g.pc = "commit" /\ g.task = a),
         \A a \in Attempts : upstream'[<<j, a>>] = "none" \/ a \in Q
                             => upstream[<<j, a>>] = "none" \/ a \in P,
         row'[j] = r, booked'[j] = b, reg'[j] = g, remote'[j] = m, posted'[j] = Q, check'[j] = c
  PROVE  JobFits(j)'
  <1>1. PICK U : U = Unregistered(j, g, P)
    OBVIOUS
  <1>2. PICK V : V = {a \in Attempts : \/ upstream'[<<j, a>>] = "none" \/ a \in Q
                                       \/ g.pc = "commit" /\ g.task = a}
    OBVIOUS
  <1>3. V \subseteq U
    BY <1>1, <1>2 DEF Unregistered
  <1>4. Fits(j, r, b, g, m, P, c, U)
    BY <1>1
  <1>5. Fits(j, r, b, g, m, Q, c, V)'
    BY <1>3, <1>4, JobStays
  <1> QED BY <1>2, <1>5, JobThen

\* When neither the log nor a task changes.
LEMMA StillFits ==
  ASSUME UNCHANGED <<upstream, log>>, NEW j \in Jobs, NEW r, NEW b, NEW g, NEW m, NEW P, NEW c, NEW V,
         row'[j] = r, booked'[j] = b, reg'[j] = g, remote'[j] = m, posted'[j] = P, check'[j] = c,
         V = Unregistered(j, g, P), Fits(j, r, b, g, m, P, c, V)
  PROVE  JobFits(j)'
  <1>1. V = {a \in Attempts : \/ upstream'[<<j, a>>] = "none" \/ a \in P
                              \/ g.pc = "commit" /\ g.task = a}
    BY DEF Unregistered
  <1>2. Fits(j, r, b, g, m, P, c, V)
    OBVIOUS
  <1>3. /\ \A t : LogsOf(t)' = LogsOf(t)
        /\ \A S : Net(S)' = Net(S)
        /\ \A t : upstream'[t] = upstream[t]
        /\ DOMAIN log' = DOMAIN log
    <2>1. ASSUME NEW q, NEW S PROVE With(q, S)' = With(q, S)
      BY DEF With
    <2> QED BY <2>1 DEF LogsOf, Net
  <1>4. \A t, S : FirstKept(r, t, S)' <=> FirstKept(r, t, S)
    BY <1>3 DEF FirstKept, IsFirst
  <1>5. RegistrationFits(j, r, g, P)' <=> RegistrationFits(j, r, g, P)
    BY <1>3 DEF RegistrationFits
  <1>6. KnownTasks(j, r, m, V)' <=> KnownTasks(j, r, m, V)
    BY <1>3 DEF KnownTasks
  <1>7. RowFits(j, r, b)' <=> RowFits(j, r, b)
    BY <1>3 DEF RowFits, Own, Worth
  <1>8. RowHasFirst(j, r)' <=> RowHasFirst(j, r)
    BY <1>3, <1>4 DEF RowHasFirst, Own
  <1>9. CheckFits(j, r, c, V)' <=> CheckFits(j, r, c, V)
    BY <1>3, <1>4 DEF CheckFits, Own
  <1>10. Fits(j, r, b, g, m, P, c, V)'
    BY <1>2, <1>5, <1>6, <1>7, <1>8, <1>9 DEF Fits
  <1> QED BY <1>1, <1>10, JobThen

\* A step of one job that changes nothing of the upstream.
LEMMA OneJob ==
  ASSUME BillingInv, UNCHANGED <<upstream, log>>, Types', TimerFits', ChecksFit', NEW j \in Jobs,
         \A k \in Jobs : Scheduled(k) /\ k # j => Scheduled(k)',
         \A k \in Jobs \ {j} :
            /\ row'[k] = row[k] /\ booked'[k] = booked[k] /\ reg'[k] = reg[k]
            /\ remote'[k] = remote[k] /\ posted'[k] = posted[k] /\ check'[k] = check[k],
         JobFits(j)', row'[j].state = "pending" => Scheduled(j)'
  PROVE  BillingInv'
  <1>1. ASSUME NEW k \in Jobs, k # j PROVE JobFits(k)'
    <2>1. Fits(k, row[k], booked[k], reg[k], remote[k], posted[k], check[k],
               Unregistered(k, reg[k], posted[k]))
      BY DEF BillingInv, JobFits
    <2> DEFINE V == Unregistered(k, reg[k], posted[k])
    <2>2. V = Unregistered(k, reg[k], posted[k])
      OBVIOUS
    <2> HIDE DEF V
    <2> QED BY <1>1, <2>1, <2>2, StillFits
  <1>2. LogFits'
    <2>1. ASSUME NEW t PROVE LogsOf(t)' = LogsOf(t)
      BY DEF LogsOf
    <2> QED BY <2>1 DEF BillingInv, LogFits, IsFirst
  <1>3. Watched'
    BY DEF BillingInv, Watched
  <1> QED BY <1>1, <1>2, <1>3 DEF BillingInv

LEMMA ChecksStay ==
  ASSUME BillingInv, \A k \in Jobs : check'[k] # Idle => check[k] # Idle
  PROVE  ChecksFit'
  <1>1. InFlight' \subseteq InFlight /\ InFlight \subseteq Jobs
    BY DEF InFlight
  <1> DEFINE B == InFlight
             A == InFlight'
  <1>2. A \subseteq B /\ B \subseteq Jobs /\ IsFiniteSet(Jobs)
    BY <1>1, BillingAssumption
  <1>3. Cardinality(B) <= MaxChecks /\ MaxChecks \in Nat
    BY BillingAssumption DEF BillingInv, ChecksFit
  <1> HIDE DEF A, B
  <1>4. IsFiniteSet(B)
    BY <1>2, FS_Subset
  <1>5. IsFiniteSet(A) /\ Cardinality(A) <= Cardinality(B)
    BY <1>2, <1>4, FS_Subset
  <1>6. Cardinality(A) \in Nat /\ Cardinality(B) \in Nat
    BY <1>4, <1>5, FS_CardinalityType
  <1>7. Cardinality(A) <= MaxChecks
    BY <1>3, <1>5, <1>6
  <1> QED BY <1>7 DEF ChecksFit, A

\* The registration moves on: fewer tasks are unregistered, the rest is as it was.
LEMMA FitsMore ==
  ASSUME NEW j, NEW r, NEW b, NEW g, NEW m, NEW P, NEW c, NEW U, NEW h, NEW Q, NEW d, NEW V,
         Fits(j, r, b, g, m, P, c, U), V \subseteq U, RegistrationFits(j, r, h, Q),
         d = c \/ d.pc = "idle"
  PROVE  Fits(j, r, b, h, m, Q, d, V)
  <1>1. KnownTasks(j, r, m, V)
    BY DEF Fits, KnownTasks
  <1>2. CheckFits(j, r, d, V)
    <2>1. CASE d = c
      BY <2>1 DEF Fits, CheckFits
    <2>2. CASE d.pc = "idle"
      BY <2>2 DEF CheckFits
    <2> QED BY <2>1, <2>2
  <1> QED BY <1>1, <1>2 DEF Fits

\* What the invariant says of one job.
LEMMA JobNow ==
  ASSUME BillingInv, NEW j \in Jobs
  PROVE  /\ Types
         /\ Fits(j, row[j], booked[j], reg[j], remote[j], posted[j], check[j],
                 Unregistered(j, reg[j], posted[j]))
         /\ RegistrationFits(j, row[j], reg[j], posted[j])
         /\ KnownTasks(j, row[j], remote[j], Unregistered(j, reg[j], posted[j]))
         /\ RowFits(j, row[j], booked[j]) /\ RowHasFirst(j, row[j])
         /\ CheckFits(j, row[j], check[j], Unregistered(j, reg[j], posted[j]))
         /\ row[j].state = "pending" => Scheduled(j)
  BY DEF BillingInv, JobFits, Fits, Watched

--------------------------------------------------------------------------------
\* Registration.

LEMMA RegisterReadsStep ==
  ASSUME BillingInv, NEW j \in Jobs, NEW a \in Attempts, RegisterReads(j, a)
  PROVE  BillingInv'
  <1> DEFINE g == IF row[j].state = "settled" THEN Idle
                  ELSE [pc |-> "commit", task |-> a, state |-> row[j].state]
             Q == posted[j] \ {a}
             V == Unregistered(j, g, Q)
  <1>0. /\ a \in posted[j] /\ reg[j] = Idle /\ posted' = [posted EXCEPT ![j] = Q]
        /\ reg' = [reg EXCEPT ![j] = g]
        /\ UNCHANGED <<window, upstream, log, remote, seen, rowVars, timer, check, cached, click,
                       faults, clicks>>
    <2>1. reg = [reg EXCEPT ![j] = Idle] \/ reg[j] # Idle
      BY DEF BillingInv, Types
    <2> QED BY <2>1 DEF RegisterReads
  <1>1. Types /\ posted[j] \in SUBSET Attempts
    BY DEF BillingInv, Types
  <1>2. g \in {Idle} \cup Registering
    BY <1>1, RowTyped DEF Registering
  <1>3. RegistrationFits(j, row[j], g, Q)
    BY <1>0, <1>1, JobNow, RowTyped DEF RegistrationFits, Idle
  <1>4. V \subseteq Unregistered(j, reg[j], posted[j])
    BY <1>0, <1>1 DEF Unregistered, Idle
  <1>5. V = Unregistered(j, g, Q)
    OBVIOUS
  <1> HIDE DEF g, V, Q
  <1>6. Fits(j, row[j], booked[j], g, remote[j], Q, check[j], V)
    BY <1>3, <1>4, JobNow, FitsMore
  <1>7. Q \in SUBSET Attempts
    BY <1>1 DEF Q
  <1>8. reg'[j] = g /\ posted'[j] = Q
    BY <1>0, <1>1 DEF Types
  <1>9. JobFits(j)'
    BY <1>0, <1>5, <1>6, <1>8, StillFits DEF rowVars
  <1>10. Types'
    BY <1>0, <1>1, <1>2, <1>7 DEF Types, rowVars
  <1>11. TimerFits' /\ ChecksFit' /\ \A k \in Jobs : Scheduled(k)' <=> Scheduled(k)
    BY <1>0 DEF BillingInv, TimerFits, ChecksFit, InFlight, Scheduled, timer
  <1> QED BY <1>0, <1>9, <1>10, <1>11, JobNow, OneJob DEF rowVars

LEMMA CommitsUnregisteredStep ==
  ASSUME BillingInv, NEW j \in Jobs, NEW a \in Attempts, CommitsUnregistered(j, a)
  PROVE  BillingInv'
  <1> DEFINE Q == posted[j] \ {a}
             V == Unregistered(j, reg[j], Q)
  <1>0. /\ a \in posted[j] /\ reg[j] = Idle /\ row[j] = Absent
        /\ posted' = [posted EXCEPT ![j] = Q] /\ remote' = [remote EXCEPT ![j] = a]
        /\ UNCHANGED <<window, upstream, log, reg, seen, rowVars, timer, check, cached, click,
                       faults, clicks>>
    BY DEF CommitsUnregistered
  <1>1. Types /\ posted[j] \in SUBSET Attempts
    BY DEF BillingInv, Types
  <1>2. V \subseteq Unregistered(j, reg[j], posted[j]) /\ a \notin V
    BY <1>0, <1>1, JobNow DEF Unregistered, Idle, RegistrationFits
  <1>3. RegistrationFits(j, row[j], reg[j], Q)
    BY <1>0, <1>1, JobNow DEF RegistrationFits, Idle
  <1>4. V = Unregistered(j, reg[j], Q)
    OBVIOUS
  <1> HIDE DEF V, Q
  <1>5. Fits(j, row[j], booked[j], reg[j], remote[j], Q, check[j], V)
    BY <1>2, <1>3, JobNow, FitsMore
  <1>6. Fits(j, row[j], booked[j], reg[j], a, Q, check[j], V)
    BY <1>0, <1>2, <1>5 DEF Fits, KnownTasks
  <1>7. Q \in SUBSET Attempts
    BY <1>1 DEF Q
  <1>8. remote'[j] = a /\ posted'[j] = Q
    BY <1>0, <1>1 DEF Types
  <1>9. JobFits(j)'
    BY <1>0, <1>4, <1>6, <1>8, StillFits DEF rowVars
  <1>10. Types'
    BY <1>0, <1>1, <1>7 DEF Types, rowVars
  <1>11. TimerFits' /\ ChecksFit' /\ \A k \in Jobs : Scheduled(k)' <=> Scheduled(k)
    BY <1>0 DEF BillingInv, TimerFits, ChecksFit, InFlight, Scheduled, timer
  <1> QED BY <1>0, <1>9, <1>10, <1>11, JobNow, OneJob DEF rowVars

\* A new row knows no entry yet.
LEMMA NewRowFits ==
  ASSUME Types, NEW j \in Jobs, NEW b, NEW g, NEW h, NEW m, NEW P, NEW c, NEW U, NEW V, V \subseteq U,
         Fits(j, Absent, b, g, m, P, c, U), c.pc \in {"idle", "start", "retry", "status", "logs", "save"},
         NEW a \in Attempts, a \notin V, NEW created \in 0..MaxLogs, RegistrationFits(j, Absent, h, P)
  PROVE  /\ Fits(j, NewRow(a, created), b, h, a, P, c, V) /\ NewRow(a, created) \in Row
         /\ b = 0
  <1> DEFINE r == NewRow(a, created)
  <1>1. /\ r.remote = a /\ r.state = "pending" /\ r.net = NoAmount /\ r.logs = {} /\ r # Absent
        /\ r \in Row
    BY DEF NewRow, Absent, Row
  <1> HIDE DEF r
  <1>2. RegistrationFits(j, r, h, P)
    BY <1>1 DEF RegistrationFits, Absent
  <1>3. KnownTasks(j, r, a, V)
    BY <1>1 DEF KnownTasks
  <1>4. RowFits(j, r, b) /\ b = 0
    BY <1>1 DEF Fits, RowFits, Worth
  <1>5. RowHasFirst(j, r)
    BY <1>1 DEF RowHasFirst, FirstKept
  <1>6. CheckFits(j, r, c, V)
    BY DEF Fits, CheckFits
  <1> QED BY <1>1, <1>2, <1>3, <1>4, <1>5, <1>6 DEF Fits, r

\* A row that a later task takes over: none of its entries is of that task.
LEMMA ReassignedFits ==
  ASSUME Types, NEW j \in Jobs, NEW r \in Row, NEW b, NEW g, NEW h, NEW m, NEW P, NEW c, NEW U, NEW V,
         V \subseteq U, Fits(j, r, b, g, m, P, c, U), c \in Check, NEW a \in Attempts, a \in U, a \notin V,
         NEW state \in {"pending", "excluded"}, state = "excluded" => r.state = "excluded",
         RegistrationFits(j, Absent, h, P), r # Absent
  PROVE  /\ Fits(j, Reassigned(r, a, state), b, h, a, P, c, V)
         /\ Reassigned(r, a, state) \in Row
  <1> DEFINE n == Reassigned(r, a, state)
  <1>1. /\ n.remote = a /\ n.state = (IF state = "pending" THEN r.state ELSE "pending")
        /\ n.net = r.net /\ n.logs = r.logs /\ n.created = r.created /\ n # Absent
        /\ n \in Row
    BY DEF Reassigned, Absent, Row
  <1> HIDE DEF n
  <1>2. /\ RegistrationFits(j, r, g, P) /\ KnownTasks(j, r, m, U) /\ RowFits(j, r, b)
        /\ RowHasFirst(j, r) /\ CheckFits(j, r, c, U)
    BY DEF Fits
  <1>3. RegistrationFits(j, n, h, P)
    BY <1>1 DEF RegistrationFits, Absent
  <1>4. KnownTasks(j, n, a, V)
    BY <1>1, <1>2 DEF KnownTasks
  <1>5. Own(j, n) => n.logs = {}
    <2>1. r.logs \cap LogsOf(<<j, a>>) = {}
      BY <1>2 DEF KnownTasks
    <2> QED BY <1>1, <2>1 DEF Own
  <1>6. RowFits(j, n, b)
    BY <1>1, <1>2, <1>5 DEF RowFits, Worth
  <1>7. RowHasFirst(j, n)
    BY <1>1, <1>5 DEF RowHasFirst, FirstKept
  <1>8. CheckFits(j, n, c, V)
    <2>1. c.pc \notin {"idle", "start"} => c.remote # a
      BY <1>2 DEF CheckFits
    <2> QED BY <1>1, <1>2, <2>1 DEF CheckFits
  <1> QED BY <1>1, <1>3, <1>4, <1>6, <1>7, <1>8 DEF Fits, n

\* A task the upstream accepted has a first charge, and the row starts before it.
LEMMA BeforePostTyped ==
  ASSUME Types, LogFits, NEW t \in Tasks, upstream[t] # "none"
  PROVE  BeforePost(t) \in 0..MaxLogs
  <1>1. PICK p \in LogsOf(t) : IsFirst(t, p)
    BY DEF LogFits
  <1>2. p \in 1..Len(log) /\ Len(log) \in Nat /\ Len(log) <= MaxLogs /\ \A q \in LogsOf(t) : q \in Nat /\ p <= q
    BY <1>1, LogTyped DEF IsFirst, Types
  <1>3. p - 1 \in 0..Len(log) /\ p - 1 + 1 = p /\ \A q \in LogsOf(t) : p - 1 < q
    BY <1>2
  <1>4. BeforePost(t) \in 0..Len(log)
    BY <1>1, <1>3 DEF BeforePost
  <1> QED BY <1>2, <1>4, BillingAssumption

\* What the registration has read may be gone: it conflicts, makes the row or takes it over.
LEMMA RegisterCommitsStep ==
  ASSUME BillingInv, NEW j \in Jobs, RegisterCommits(j)
  PROVE  BillingInv'
  <1> DEFINE a == reg[j].task
             U == Unregistered(j, reg[j], posted[j])
             V == Unregistered(j, Idle, posted[j])
             conflict == reg[j].state = "none" /\ row[j] # Absent
  <1>0. /\ reg[j].pc = "commit" /\ reg' = [reg EXCEPT ![j] = Idle]
        /\ UNCHANGED <<window, upstream, log, posted, seen, booked, check, cached, click, faults, clicks>>
    BY DEF RegisterCommits
  <1>1. /\ Types /\ LogFits /\ TimerFits /\ reg[j] \in Registering /\ a \in Attempts
        /\ reg[j].state \in {"none", "pending", "excluded"} /\ posted[j] \in SUBSET Attempts
        /\ check[j] \in Check
    BY <1>0 DEF BillingInv, Types, Registering, Idle
  <1>2. V \subseteq U /\ a \notin V /\ a \in U /\ upstream[<<j, a>>] # "none"
    BY <1>0, <1>1, JobNow DEF Unregistered, Idle, RegistrationFits
  <1>3. RegistrationFits(j, row[j], Idle, posted[j]) /\ RegistrationFits(j, Absent, Idle, posted[j])
    BY JobNow DEF RegistrationFits, Idle
  <1>4. Fits(j, row[j], booked[j], reg[j], remote[j], posted[j], check[j], U)
    BY JobNow
  <1>5. V = Unregistered(j, Idle, posted[j]) /\ U = Unregistered(j, reg[j], posted[j])
    OBVIOUS
  <1>6. ChecksFit' /\ reg'[j] = Idle
    BY <1>0, <1>1, ChecksStay DEF Types
  <1>7. CASE conflict
    <2>1. UNCHANGED <<remote, row, timer>>
      BY <1>7 DEF RegisterCommits
    <2> HIDE DEF V, U
    <2>2. Fits(j, row[j], booked[j], Idle, remote[j], posted[j], check[j], V)
      BY <1>2, <1>3, <1>4, FitsMore
    <2>3. JobFits(j)'
      BY <1>0, <1>5, <1>6, <2>1, <2>2, StillFits
    <2>4. Types'
      BY <1>0, <1>1, <2>1 DEF Types
    <2>5. TimerFits' /\ \A k \in Jobs : Scheduled(k)' <=> Scheduled(k)
      BY <1>1, <2>1 DEF TimerFits, Scheduled, timer
    <2> QED BY <1>0, <1>6, <2>1, <2>3, <2>4, <2>5, JobNow, OneJob
  <1>8. CASE ~conflict
    <2> DEFINE r == IF row[j] = Absent THEN NewRow(a, BeforePost(<<j, a>>))
                    ELSE Reassigned(row[j], a, reg[j].state)
    <2>1. remote' = [remote EXCEPT ![j] = a] /\ row' = [row EXCEPT ![j] = r] /\ CheckLater(j)
      <3>1. row' = [row EXCEPT ![j] = IF row[j] = Absent THEN NewRow(a, BeforePost(<<j, a>>))
                                      ELSE Reassigned(row[j], a, reg[j].state)]
        BY <1>1, <1>8 DEF RegisterCommits, Types
      <3> QED BY <1>8, <3>1 DEF RegisterCommits
    <2> HIDE DEF V, U
    <2>2. Fits(j, r, booked[j], Idle, a, posted[j], check[j], V) /\ r \in Row
      <3>1. CASE row[j] = Absent
        <4>1. BeforePost(<<j, a>>) \in 0..MaxLogs
          BY <1>1, <1>2, BeforePostTyped DEF Tasks
        <4>2. check[j].pc \in {"idle", "start", "retry", "status", "logs", "save"}
          BY <1>1, CheckTyped
        <4> HIDE DEF a
        <4> QED BY <1>1, <1>2, <1>3, <1>4, <3>1, <4>1, <4>2, NewRowFits
      <3>2. CASE row[j] # Absent
        <4>1. row[j] \in Row
          BY <1>1, <3>2, RowTyped
        <4>2. reg[j].state \in {"pending", "excluded"}
          BY <1>1, <1>8, <3>2
        <4>3. reg[j].state = "excluded" => row[j].state = "excluded"
          BY <1>0, <4>2, JobNow DEF RegistrationFits
        <4> DEFINE st == reg[j].state
        <4> HIDE DEF a, st
        <4>4. st \in {"pending", "excluded"} /\ (st = "excluded" => row[j].state = "excluded")
          BY <4>2, <4>3 DEF st
        <4>5. Fits(j, Reassigned(row[j], a, st), booked[j], Idle, a, posted[j], check[j], V)
              /\ Reassigned(row[j], a, st) \in Row
          BY <1>1, <1>2, <1>3, <1>4, <3>2, <4>1, <4>4, ReassignedFits
        <4> QED BY <3>2, <4>5 DEF st
      <3> QED BY <3>1, <3>2
    <2> HIDE DEF r, a
    <2>3. row'[j] = r /\ remote'[j] = a
      BY <1>1, <2>1 DEF Types
    <2>4. JobFits(j)'
      BY <1>0, <1>5, <1>6, <2>2, <2>3, StillFits
    <2>5. Types'
      BY <1>0, <1>1, <2>1, <2>2 DEF Types
    <2>6. TimerFits' /\ \A k \in Jobs : Scheduled(k)' <=> Scheduled(k) \/ k = j
      BY <1>1, <2>1, TimerMoves
    <2> QED BY <1>0, <1>6, <2>1, <2>4, <2>5, <2>6, OneJob
  <1> QED BY <1>7, <1>8

LEMMA BackfillStep ==
  ASSUME BillingInv, NEW j \in Jobs, Backfill(j)
  PROVE  BillingInv'
  <1> DEFINE a == remote[j]
             n == Len(log)
             r == NewRow(a, n)
             V == Unregistered(j, reg[j], posted[j])
  <1>0. /\ a # NoTask /\ row[j] = Absent /\ row' = [row EXCEPT ![j] = r] /\ CheckLater(j)
        /\ UNCHANGED <<window, upstream, log, jobVars, booked, check, cached, click, faults, clicks>>
    BY DEF Backfill, NeedsRow
  <1>1. /\ Types /\ TimerFits /\ a \in Attempts /\ n \in 0..MaxLogs
        /\ check[j].pc \in {"idle", "start", "retry", "status", "logs", "save"}
    BY <1>0, CheckTyped, LogTyped, BillingAssumption DEF BillingInv, Types
  <1>2. a \notin V
    BY <1>0, JobNow DEF KnownTasks
  <1>3. RegistrationFits(j, Absent, reg[j], posted[j])
    BY <1>0, JobNow
  <1>4. Fits(j, Absent, booked[j], reg[j], remote[j], posted[j], check[j], V)
    BY <1>0, JobNow
  <1>5. V = Unregistered(j, reg[j], posted[j])
    OBVIOUS
  <1> HIDE DEF V, a, n
  <1>6. Fits(j, r, booked[j], reg[j], a, posted[j], check[j], V) /\ r \in Row
    BY <1>1, <1>2, <1>3, <1>4, NewRowFits
  <1> HIDE DEF r
  <1>7. row'[j] = r
    BY <1>0, <1>1 DEF Types
  <1>8. JobFits(j)'
    BY <1>0, <1>5, <1>6, <1>7, StillFits DEF jobVars, a
  <1>9. Types'
    BY <1>0, <1>1, <1>6 DEF Types, jobVars
  <1>10. TimerFits' /\ \A k \in Jobs : Scheduled(k)' <=> Scheduled(k) \/ k = j
    BY <1>0, <1>1, TimerMoves
  <1>11. ChecksFit'
    BY <1>0, ChecksStay
  <1> QED BY <1>0, <1>8, <1>9, <1>10, <1>11, OneJob DEF jobVars

--------------------------------------------------------------------------------
\* Checks.

\* Only the check of a job changes, and perhaps the timer.
LEMMA OneCheck ==
  ASSUME BillingInv, NEW j \in Jobs, NEW d \in Check, check' = [check EXCEPT ![j] = d],
         CheckFits(j, row[j], d, Unregistered(j, reg[j], posted[j])),
         d = Idle \/ check[j] # Idle \/ ChecksFit',
         UNCHANGED <<window, upstream, log, posted, reg, remote, seen, row, booked, click, clicks>>,
         cached' \in {NoCache} \cup 0..Len(log), faults' \in 0..MaxFaults,
         TimerFits', \A k \in Jobs : Scheduled(k) => Scheduled(k)'
  PROVE  BillingInv'
  <1>1. Types /\ check'[j] = d /\ \A k \in Jobs \ {j} : check'[k] = check[k]
    BY DEF BillingInv, Types
  <1>2. ChecksFit'
    <2>1. CASE d = Idle \/ check[j] # Idle
      BY <1>1, <2>1, ChecksStay
    <2> QED BY <2>1
  <1> DEFINE V == Unregistered(j, reg[j], posted[j])
  <1>3. V = Unregistered(j, reg[j], posted[j]) /\ CheckFits(j, row[j], d, V)
    OBVIOUS
  <1> HIDE DEF V
  <1>4. Fits(j, row[j], booked[j], reg[j], remote[j], posted[j], d, V)
    BY <1>3, JobNow DEF Fits
  <1>5. JobFits(j)'
    BY <1>1, <1>3, <1>4, StillFits
  <1>6. Types'
    BY <1>1 DEF Types
  <1> QED BY <1>1, <1>2, <1>5, <1>6, JobNow, OneJob

LEMMA SameTimer ==
  ASSUME BillingInv, UNCHANGED timer
  PROVE  TimerFits' /\ \A k \in Jobs : Scheduled(k)' <=> Scheduled(k)
  BY DEF BillingInv, TimerFits, Scheduled, timer

LEMMA PassPicksStep ==
  ASSUME BillingInv, NEW j \in Jobs, PassPicks(j)
  PROVE  BillingInv'
  <1> DEFINE d == [pc |-> "start"]
  <1>0. /\ Cardinality(InFlight) < MaxChecks /\ check[j] = Idle /\ check' = [check EXCEPT ![j] = d]
        /\ UNCHANGED <<window, upstream, log, jobVars, rowVars, timer, cached, click, faults, clicks>>
    BY DEF PassPicks
  <1>1. Types /\ d \in Check
    BY DEF BillingInv, Check
  <1>2. CheckFits(j, row[j], d, Unregistered(j, reg[j], posted[j]))
    BY DEF CheckFits
  <1>3. ChecksFit'
    <2> DEFINE A == InFlight
    <2>1. InFlight' \subseteq A \cup {j} /\ A \subseteq Jobs /\ IsFiniteSet(Jobs) /\ MaxChecks \in Nat
      BY <1>0, <1>1, BillingAssumption DEF InFlight, Types
    <2> DEFINE B == InFlight'
    <2>2. B \subseteq A \cup {j} /\ Cardinality(A) < MaxChecks
      BY <1>0, <2>1
    <2> HIDE DEF A, B
    <2>3. IsFiniteSet(A) /\ j \notin A
      <3>1. j \notin InFlight
        BY <1>0 DEF InFlight
      <3> QED BY <2>1, <3>1, FS_Subset DEF A
    <2>4. IsFiniteSet(A \cup {j}) /\ Cardinality(A \cup {j}) = Cardinality(A) + 1
      BY <2>3, FS_AddElement
    <2>5. IsFiniteSet(B) /\ Cardinality(B) <= Cardinality(A \cup {j})
      BY <2>2, <2>4, FS_Subset
    <2>6. Cardinality(A) \in Nat /\ Cardinality(B) \in Nat
      BY <2>3, <2>5, FS_CardinalityType
    <2>7. Cardinality(B) <= MaxChecks
      BY <2>1, <2>2, <2>4, <2>5, <2>6
    <2> QED BY <2>7 DEF ChecksFit, B
  <1> HIDE DEF d
  <1>4. TimerFits' /\ \A k \in Jobs : Scheduled(k)' <=> Scheduled(k)
    BY <1>0, SameTimer
  <1>5. cached' \in {NoCache} \cup 0..Len(log) /\ faults' \in 0..MaxFaults
    BY <1>0, <1>1 DEF Types
  <1> QED BY <1>0, <1>1, <1>2, <1>3, <1>4, <1>5, OneCheck DEF jobVars, rowVars

LEMMA ReconcileReadsStep ==
  ASSUME BillingInv, NEW j \in Jobs, ReconcileReads(j)
  PROVE  BillingInv'
  <1> DEFINE r == row[j]
             d == IF r.state \in {"none", "excluded"} \/ ~Scheduled(j) THEN Idle
                  ELSE [pc |-> "status", remote |-> r.remote, had |-> r.logs # {}, created |-> r.created]
  <1>0. /\ check[j].pc = "start" /\ check' = [check EXCEPT ![j] = d]
        /\ UNCHANGED <<window, upstream, log, jobVars, rowVars, timer, cached, click, faults, clicks>>
    BY DEF ReconcileReads
  <1>1. Types /\ check[j] # Idle
    BY <1>0 DEF BillingInv, Idle
  <1>2. d \in Check /\ CheckFits(j, row[j], d, Unregistered(j, reg[j], posted[j]))
    <2>1. CASE r.state \in {"none", "excluded"} \/ ~Scheduled(j)
      BY <2>1 DEF Check, CheckFits, Idle
    <2>2. CASE ~(r.state \in {"none", "excluded"} \/ ~Scheduled(j))
      <3>1. /\ r # Absent /\ r.remote \in Attempts /\ r.created \in 0..MaxLogs
            /\ (r.logs # {}) \in BOOLEAN
        BY <1>1, <2>2, RowTyped
      <3>2. r.remote \notin Unregistered(j, reg[j], posted[j])
        BY <3>1, JobNow DEF KnownTasks
      <3>3. d \in Check
        BY <2>2, <3>1 DEF Check
      <3>4. d.pc = "status" /\ d.remote = r.remote /\ d.created = r.created /\ (d.had => r.logs # {})
        BY <2>2
      <3> HIDE DEF d
      <3> QED BY <2>2, <3>1, <3>2, <3>3, <3>4 DEF CheckFits
    <2> QED BY <2>1, <2>2
  <1> HIDE DEF d
  <1>3. TimerFits' /\ \A k \in Jobs : Scheduled(k)' <=> Scheduled(k)
    BY <1>0, SameTimer
  <1>4. cached' \in {NoCache} \cup 0..Len(log) /\ faults' \in 0..MaxFaults
    BY <1>0, <1>1 DEF Types
  <1> QED BY <1>0, <1>1, <1>2, <1>3, <1>4, OneCheck DEF jobVars, rowVars

LEMMA ReconcileAsksStatusStep ==
  ASSUME BillingInv, NEW j \in Jobs, ReconcileAsksStatus(j)
  PROVE  BillingInv'
  <1> DEFINE c == check[j]
             r == row[j]
             U == Unregistered(j, reg[j], posted[j])
             d == [pc |-> "logs", remote |-> c.remote, had |-> c.had, created |-> c.created,
                   status |-> upstream[<<j, c.remote>>]]
  <1>0. /\ c.pc = "status" /\ check' = [check EXCEPT ![j] = d]
        /\ UNCHANGED <<window, upstream, log, jobVars, rowVars, timer, cached, click, faults, clicks>>
    BY DEF ReconcileAsksStatus
  <1>1. /\ Types /\ check[j] # Idle /\ c.remote \in Attempts /\ c.had \in BOOLEAN
        /\ c.created \in 0..MaxLogs
    BY <1>0, CheckTyped DEF BillingInv, Idle
  <1>2. /\ r # Absent /\ r.state # "excluded" /\ c.remote \notin U
        /\ r.remote = c.remote => c.created = r.created /\ (c.had => r.logs # {})
    BY <1>0, JobNow DEF CheckFits
  <1>3. upstream[<<j, c.remote>>] \in {"running", "completed", "failed"}
    BY <1>1, <1>2 DEF Types, Tasks, Unregistered
  <1>4. r.remote = c.remote /\ r.state = "settled" /\ Own(j, r) => upstream[<<j, c.remote>>] # "running"
    BY JobNow DEF RowFits
  <1>5. d \in Check
    BY <1>1, <1>3 DEF Check
  <1>6. /\ d.pc = "logs" /\ d.remote = c.remote /\ d.had = c.had /\ d.created = c.created
        /\ d.status = upstream[<<j, c.remote>>]
    OBVIOUS
  <1> HIDE DEF d
  <1>7. CheckFits(j, r, d, U)
    BY <1>2, <1>3, <1>4, <1>6 DEF CheckFits
  <1>8. TimerFits' /\ \A k \in Jobs : Scheduled(k)' <=> Scheduled(k)
    BY <1>0, SameTimer
  <1>9. cached' \in {NoCache} \cup 0..Len(log) /\ faults' \in 0..MaxFaults
    BY <1>0, <1>1 DEF Types
  <1> QED BY <1>0, <1>1, <1>5, <1>7, <1>8, <1>9, OneCheck DEF jobVars, rowVars

\* A charge that is neither in the window nor before the row leaves a window that may miss it.
LEMMA FirstIsSeen ==
  ASSUME Types, NEW t \in Tasks, NEW end \in 0..Len(log), NEW r \in Row,
         NEW shown, shown = {p \in 1..end : p > end - window}, ~MayMissFirst(shown, r.created)
  PROVE  FirstKept(r, t, shown \cap LogsOf(t))
  <1> SUFFICES ASSUME NEW q \in shown \cap LogsOf(t), NEW p \in LogsOf(t), IsFirst(t, p), r.created < p
               PROVE  p \in shown
    BY DEF FirstKept
  <1>1. /\ window \in Nat \ {0} /\ end \in Nat /\ p \in Nat \ {0} /\ q \in Nat /\ p <= q /\ q <= end
        /\ r.created \in Nat
    BY BillingAssumption, LogTyped DEF Types, Row, IsFirst
  <1>2. SUFFICES ASSUME p <= end - window PROVE FALSE
    BY <1>1
  <1>3. shown = end - window + 1..end
    BY <1>1, <1>2
  <1>4. end - window + 1 \in Int /\ end \in Int /\ end - window + 1 <= end
    BY <1>1
  <1>5. Cardinality(shown) = window
    <2> DEFINE lo == end - window + 1
    <2>1. shown = lo..end /\ lo \in Int /\ end \in Int /\ lo <= end
      BY <1>3, <1>4
    <2> HIDE DEF lo
    <2>2. Cardinality(shown) = end - lo + 1
      <3>1. Cardinality(lo..end) = IF lo > end THEN 0 ELSE end - lo + 1
        BY <2>1, FS_Interval
      <3>2. ~(lo > end)
        BY <2>1
      <3> QED BY <2>1, <3>1, <3>2, Zenon
    <2> QED BY <1>1, <2>2 DEF lo
  <1>6. \A s \in shown : s > r.created
    BY <1>1, <1>2, <1>3
  <1> QED BY <1>1, <1>5, <1>6 DEF MayMissFirst

LEMMA ReconcileAsksLogsStep ==
  ASSUME BillingInv, NEW j \in Jobs, ReconcileAsksLogs(j)
  PROVE  BillingInv'
  <1> DEFINE c == check[j]
             r == row[j]
             U == Unregistered(j, reg[j], posted[j])
             end == IF cached = NoCache THEN Len(log) ELSE cached
             shown == {p \in 1..end : p > end - window}
             matched == shown \cap LogsOf(<<j, c.remote>>)
             unusable == ~c.had /\ (MayMissFirst(shown, c.created)
                                    \/ (c.status = "completed" /\ matched = {}))
             d == IF unusable THEN [pc |-> "retry", remote |-> c.remote]
                  ELSE [pc |-> "save", remote |-> c.remote, status |-> c.status, matched |-> matched]
  <1>0. /\ c.pc = "logs" /\ cached' = end /\ check' = [check EXCEPT ![j] = d]
        /\ UNCHANGED <<window, upstream, log, jobVars, rowVars, timer, click, faults, clicks>>
    BY DEF ReconcileAsksLogs
  <1>1. /\ Types /\ check[j] # Idle /\ c.remote \in Attempts /\ c.had \in BOOLEAN
        /\ c.created \in 0..MaxLogs /\ c.status \in {"running", "completed", "failed"}
    BY <1>0, CheckTyped DEF BillingInv, Idle
  <1>2. /\ r # Absent /\ r.state # "excluded" /\ c.remote \notin U
        /\ r.remote = c.remote => c.created = r.created /\ (c.had => r.logs # {})
        /\ c.status # "running" => upstream[<<j, c.remote>>] \in {"completed", "failed"}
        /\ r.remote = c.remote /\ r.state = "settled" /\ Own(j, r) => c.status # "running"
    BY <1>0, JobNow DEF CheckFits
  <1>3. end \in 0..Len(log)
    BY <1>1, LogTyped DEF Types, NoCache
  <1>4. matched \subseteq LogsOf(<<j, c.remote>>) /\ matched \subseteq Positions
    BY <1>1, LogTyped
  <1>5. ~unusable /\ r.remote = c.remote /\ r.logs = {} => FirstKept(r, <<j, c.remote>>, matched)
    <2> HAVE ~unusable /\ r.remote = c.remote /\ r.logs = {}
    <2>1. ~MayMissFirst(shown, r.created)
      BY <1>1, <1>2
    <2>2. r \in Row /\ <<j, c.remote>> \in Tasks
      BY <1>1, <1>2, RowTyped DEF Tasks
    <2>3. shown = {p \in 1..end : p > end - window}
      OBVIOUS
    <2> HIDE DEF shown, end
    <2> QED BY <1>1, <1>3, <2>1, <2>2, <2>3, FirstIsSeen
  <1>6. /\ unusable => d = [pc |-> "retry", remote |-> c.remote]
        /\ ~unusable => d = [pc |-> "save", remote |-> c.remote, status |-> c.status, matched |-> matched]
    OBVIOUS
  <1> HIDE DEF unusable, matched, shown, d
  <1>7. d \in Check
    BY <1>1, <1>4, <1>6 DEF Check
  <1>8. CheckFits(j, r, d, U)
    <2>1. CASE unusable
      <3>1. d.pc = "retry" /\ d.remote = c.remote
        BY <1>6, <2>1
      <3> QED BY <1>2, <3>1 DEF CheckFits
    <2>2. CASE ~unusable
      <3>1. d.pc = "save" /\ d.remote = c.remote /\ d.status = c.status /\ d.matched = matched
        BY <1>6, <2>2
      <3> QED BY <1>2, <1>4, <1>5, <2>2, <3>1 DEF CheckFits
    <2> QED BY <2>1, <2>2
  <1>9. TimerFits' /\ \A k \in Jobs : Scheduled(k)' <=> Scheduled(k)
    BY <1>0, SameTimer
  <1>10. cached' \in {NoCache} \cup 0..Len(log) /\ faults' \in 0..MaxFaults
    BY <1>0, <1>1, <1>3 DEF Types
  <1> QED BY <1>0, <1>1, <1>7, <1>8, <1>9, <1>10, OneCheck DEF jobVars, rowVars

LEMMA LookupFailsStep ==
  ASSUME BillingInv, NEW j \in Jobs, LookupFails(j)
  PROVE  BillingInv'
  <1> DEFINE d == [pc |-> "retry", remote |-> check[j].remote]
             U == Unregistered(j, reg[j], posted[j])
  <1>1. /\ Types /\ check[j].pc \in {"status", "logs"} /\ check[j] # Idle
        /\ check[j].remote \in Attempts
    BY CheckTyped DEF BillingInv, LookupFails, Idle
  <1>0. /\ faults < MaxFaults /\ faults' = faults + 1 /\ check' = [check EXCEPT ![j] = d]
        /\ UNCHANGED <<window, upstream, log, jobVars, rowVars, timer, cached, click, clicks>>
    BY <1>1 DEF LookupFails, Types
  <1>2. row[j] # Absent /\ row[j].state # "excluded" /\ check[j].remote \notin U
    BY <1>1, JobNow DEF CheckFits
  <1>3. d \in Check /\ d.pc = "retry" /\ d.remote = check[j].remote
    BY <1>1 DEF Check
  <1> HIDE DEF d
  <1>4. CheckFits(j, row[j], d, U)
    BY <1>2, <1>3 DEF CheckFits
  <1>5. TimerFits' /\ \A k \in Jobs : Scheduled(k)' <=> Scheduled(k)
    BY <1>0, SameTimer
  <1>6. cached' \in {NoCache} \cup 0..Len(log) /\ faults' \in 0..MaxFaults
    BY <1>0, <1>1, BillingAssumption DEF Types
  <1> QED BY <1>0, <1>1, <1>3, <1>4, <1>5, <1>6, OneCheck DEF jobVars, rowVars

LEMMA ReconcileRetriesStep ==
  ASSUME BillingInv, NEW j \in Jobs, ReconcileRetries(j)
  PROVE  BillingInv'
  <1>0. /\ check[j].pc = "retry" /\ check' = [check EXCEPT ![j] = Idle]
        /\ CheckLater(j) \/ UNCHANGED timer
        /\ UNCHANGED <<window, upstream, log, jobVars, rowVars, cached, click, faults, clicks>>
    BY DEF ReconcileRetries
  <1>1. Types /\ TimerFits /\ Idle \in Check
    BY DEF BillingInv, Check
  <1>2. CheckFits(j, row[j], Idle, Unregistered(j, reg[j], posted[j]))
    BY DEF CheckFits, Idle
  <1>3. TimerFits' /\ \A k \in Jobs : Scheduled(k) => Scheduled(k)'
    <2>1. CASE CheckLater(j)
      BY <1>1, <2>1, TimerMoves
    <2>2. CASE UNCHANGED timer
      BY <2>2, SameTimer
    <2> QED BY <1>0, <2>1, <2>2
  <1>4. cached' \in {NoCache} \cup 0..Len(log) /\ faults' \in 0..MaxFaults
    BY <1>0, <1>1 DEF Types
  <1> QED BY <1>0, <1>1, <1>2, <1>3, <1>4, OneCheck DEF jobVars, rowVars

--------------------------------------------------------------------------------
\* What a check saves.

\* Row n is row r with the entries that the check matched, and with another state.
LEMMA MergedFits ==
  ASSUME Types, NEW j \in Jobs, NEW r \in Row, NEW b, NEW g, NEW m, NEW P, NEW c \in Check, NEW U,
         Fits(j, r, b, g, m, P, c, U), c.pc = "save", r.remote = c.remote,
         NEW n \in Row, n.remote = r.remote, n.created = r.created, n.logs = Merged(r.logs, c.matched),
         NEW e, RowFits(j, n, e), r # Absent, n # Absent
  PROVE  Fits(j, n, e, g, m, P, Idle, U)
  <1>1. /\ RegistrationFits(j, r, g, P) /\ KnownTasks(j, r, m, U) /\ RowHasFirst(j, r)
        /\ CheckFits(j, r, c, U)
    BY DEF Fits
  <1>2. /\ r.state # "excluded" /\ c.remote \notin U /\ c.matched \subseteq LogsOf(<<j, c.remote>>)
        /\ r.logs = {} => FirstKept(r, <<j, c.remote>>, c.matched)
    BY <1>1 DEF CheckFits
  <1>3. RegistrationFits(j, n, g, P)
    BY <1>1, <1>2 DEF RegistrationFits
  <1>4. KnownTasks(j, n, m, U)
    <2>1. n.remote \notin U /\ n.logs \subseteq DOMAIN log
      BY <1>1, <1>2, LogTyped DEF KnownTasks, Merged
    <2>2. ASSUME NEW a \in U PROVE n.logs \cap LogsOf(<<j, a>>) = {}
      <3>1. a # c.remote /\ r.logs \cap LogsOf(<<j, a>>) = {}
        BY <1>1, <1>2 DEF KnownTasks
      <3>2. LogsOf(<<j, c.remote>>) \cap LogsOf(<<j, a>>) = {}
        BY <3>1 DEF LogsOf
      <3> QED BY <1>2, <3>1, <3>2 DEF Merged
    <2> QED BY <1>1, <2>1, <2>2 DEF KnownTasks
  <1>5. RowHasFirst(j, n)
    <2> SUFFICES ASSUME Own(j, n), n.logs # {}, NEW p \in LogsOf(<<j, n.remote>>),
                        IsFirst(<<j, n.remote>>, p), n.created < p
                 PROVE  p \in n.logs
      BY DEF RowHasFirst, FirstKept
    <2>1. CASE r.logs = {}
      BY <1>2, <2>1 DEF FirstKept, Merged
    <2>2. CASE r.logs # {}
      <3>1. Own(j, r)
        BY DEF Own, Merged
      <3>2. p \in r.logs
        BY <1>1, <2>2, <3>1 DEF RowHasFirst, FirstKept
      <3> QED BY <3>2 DEF Merged
    <2> QED BY <2>1, <2>2
  <1>6. CheckFits(j, n, Idle, U)
    BY DEF CheckFits, Idle
  <1> QED BY <1>3, <1>4, <1>5, <1>6 DEF Fits

\* The row is written, with the sum of its revisions, and the check is over.
LEMMA OneSave ==
  ASSUME BillingInv, NEW j \in Jobs, NEW n \in Row, NEW e \in Nat,
         check[j].pc = "save", row[j].remote = check[j].remote,
         n.remote = row[j].remote, n.created = row[j].created,
         n.logs = Merged(row[j].logs, check[j].matched), RowFits(j, n, e),
         row' = [row EXCEPT ![j] = n], booked' = [booked EXCEPT ![j] = e],
         check' = [check EXCEPT ![j] = Idle],
         UNCHANGED <<window, upstream, log, posted, reg, remote, seen, cached, click, faults, clicks>>,
         TimerFits', \A k \in Jobs : Scheduled(k) /\ k # j => Scheduled(k)',
         n.state = "pending" => Scheduled(j)'
  PROVE  BillingInv'
  <1>1. /\ Types /\ row'[j] = n /\ booked'[j] = e /\ check'[j] = Idle
        /\ \A k \in Jobs \ {j} : check'[k] = check[k] /\ row'[k] = row[k] /\ booked'[k] = booked[k]
    BY DEF BillingInv, Types
  <1>2. ChecksFit'
    BY <1>1, ChecksStay
  <1> DEFINE V == Unregistered(j, reg[j], posted[j])
  <1>3. V = Unregistered(j, reg[j], posted[j])
        /\ Fits(j, row[j], booked[j], reg[j], remote[j], posted[j], check[j], V)
    BY JobNow
  <1> HIDE DEF V
  <1>4. row[j] \in Row /\ row[j] # Absent /\ n # Absent /\ check[j] \in Check
    <2>1. row[j] # Absent
      BY JobNow DEF CheckFits
    <2> QED BY <1>1, <2>1, RowTyped, CheckTyped DEF Row, Absent
  <1> DEFINE r == row[j]
             c == check[j]
             b == booked[j]
  <1>5. /\ r \in Row /\ r # Absent /\ c \in Check /\ c.pc = "save" /\ r.remote = c.remote
        /\ n.remote = r.remote /\ n.created = r.created /\ n.logs = Merged(r.logs, c.matched)
        /\ Fits(j, r, b, reg[j], remote[j], posted[j], c, V)
    BY <1>3, <1>4
  <1> HIDE DEF r, c, b
  <1>6. Fits(j, n, e, reg[j], remote[j], posted[j], Idle, V)
    BY <1>1, <1>4, <1>5, MergedFits
  <1>7. JobFits(j)'
    BY <1>1, <1>3, <1>6, StillFits
  <1>8. Types'
    BY <1>1 DEF Types, Check
  <1> QED BY <1>1, <1>2, <1>7, <1>8, OneJob

\* Nothing is saved, the row is excluded, keeps its state with more entries, or is settled.
LEMMA ReconcileSavesStep ==
  ASSUME BillingInv, NEW j \in Jobs, ReconcileSaves(j)
  PROVE  BillingInv'
  <1> DEFINE r == row[j]
             c == check[j]
             logs == Merged(r.logs, c.matched)
             merged == [r EXCEPT !.logs = logs]
             net == Net(logs)
  <1>0. /\ c.pc = "save" /\ check' = [check EXCEPT ![j] = Idle]
        /\ UNCHANGED <<window, upstream, log, jobVars, cached, click, faults, clicks>>
    BY DEF ReconcileSaves
  <1>1. /\ Types /\ TimerFits /\ r \in Row /\ r # Absent /\ c \in Check
        /\ c.status \in {"running", "completed", "failed"}
    <2>1. row[j] # Absent
      BY <1>0, JobNow DEF CheckFits
    <2> QED BY <1>0, <2>1, RowTyped, CheckTyped DEF BillingInv
  <1>2. /\ RowFits(j, r, booked[j]) /\ c.matched \subseteq LogsOf(<<j, c.remote>>)
        /\ r.logs \subseteq DOMAIN log
        /\ c.status # "running" => upstream[<<j, c.remote>>] \in {"completed", "failed"}
        /\ r.remote = c.remote /\ r.state = "settled" /\ Own(j, r) => c.status # "running"
    BY <1>0, <1>1, JobNow DEF CheckFits, KnownTasks
  <1>3. logs \subseteq DOMAIN log /\ logs \subseteq Positions /\ net \in Int /\ net <= 2 * MaxLogs
    <2>1. logs \subseteq DOMAIN log /\ logs \subseteq Positions
      BY <1>1, <1>2, LogTyped DEF Merged
    <2> HIDE DEF logs
    <2> QED BY <1>1, <2>1, NetBound
  <1>4. /\ merged \in Row /\ merged.remote = r.remote /\ merged.created = r.created
        /\ merged.logs = logs /\ merged.net = r.net /\ merged.state = r.state
    BY <1>1, <1>3 DEF Row
  <1>5. booked[j] \in Nat /\ booked[j] = Amount(j) /\ Amount(j) = Worth(r)
    BY <1>1, <1>2 DEF RowFits, Amount, Worth, Types
  <1>6. /\ CheckLater(j) => TimerFits' /\ \A k \in Jobs : Scheduled(k)' <=> Scheduled(k) \/ k = j
        /\ CheckNever(j) => TimerFits' /\ \A k \in Jobs : Scheduled(k)' <=> Scheduled(k) /\ k # j
    BY <1>1, TimerMoves
  <1>7. CASE UNCHANGED rowVars /\ (CheckLater(j) \/ UNCHANGED timer)
    <2>1. CheckFits(j, row[j], Idle, Unregistered(j, reg[j], posted[j])) /\ Idle \in Check
      BY DEF CheckFits, Idle, Check
    <2>2. TimerFits' /\ \A k \in Jobs : Scheduled(k) => Scheduled(k)'
      BY <1>6, <1>7, SameTimer
    <2>3. cached' \in {NoCache} \cup 0..Len(log) /\ faults' \in 0..MaxFaults
      BY <1>0, <1>1 DEF Types
    <2> QED BY <1>0, <1>7, <2>1, <2>2, <2>3, OneCheck DEF jobVars, rowVars
  <1>8. CASE /\ r.remote = c.remote /\ row' = [row EXCEPT ![j] = Excluded(merged)]
             /\ booked' = [booked EXCEPT ![j] = Revised(j, 0)] /\ CheckNever(j)
    <2> DEFINE n == Excluded(merged)
    <2>1. /\ n \in Row /\ n.remote = r.remote /\ n.created = r.created /\ n.logs = logs
          /\ n.net = NoAmount /\ n.state = "excluded"
      BY <1>4 DEF Excluded, Row
    <2>2. Revised(j, 0) = 0
      BY <1>5 DEF Revised
    <2> HIDE DEF n
    <2>3. RowFits(j, n, 0)
      BY <2>1 DEF RowFits, Worth, Absent
    <2>4. row' = [row EXCEPT ![j] = n] /\ booked' = [booked EXCEPT ![j] = 0]
      BY <1>8, <2>2 DEF n
    <2> QED BY <1>0, <1>6, <1>8, <2>1, <2>3, <2>4, OneSave DEF jobVars
  <1>9. CASE /\ r.remote = c.remote /\ c.status = "running" /\ row' = [row EXCEPT ![j] = merged]
             /\ CheckLater(j) /\ UNCHANGED booked
    <2>1. ~(r.state = "settled" /\ Own(j, merged))
      BY <1>2, <1>4, <1>9 DEF Own, Merged
    <2>2. RowFits(j, merged, booked[j])
      <3> HIDE DEF merged
      <3>1. r.logs # {} => merged.logs # {}
        BY <1>4 DEF Merged
      <3> QED BY <1>1, <1>2, <1>4, <2>1, <3>1 DEF RowFits, Worth, Absent, Row
    <2>3. booked' = [booked EXCEPT ![j] = booked[j]]
      BY <1>1, <1>9 DEF Types
    <2> HIDE DEF merged
    <2> QED BY <1>0, <1>4, <1>5, <1>6, <1>9, <2>2, <2>3, OneSave DEF jobVars
  <1>10. CASE /\ r.remote = c.remote /\ net >= 0 /\ c.status = "completed" /\ logs # {}
              /\ row' = [row EXCEPT ![j] = Settled(merged, net)]
              /\ booked' = [booked EXCEPT ![j] = Revised(j, net)]
              /\ CheckLater(j) \/ CheckNever(j)
    <2> DEFINE n == Settled(merged, net)
    <2>0. net \in 0..2 * MaxLogs
      BY <1>3, <1>10, BillingAssumption
    <2>1. /\ n \in Row /\ n.remote = r.remote /\ n.created = r.created /\ n.logs = logs
          /\ n.net = net /\ n.state = "settled"
      BY <1>4, <2>0 DEF Settled, Row
    <2>2. Revised(j, net) = net
      BY <1>3, <1>5 DEF Revised
    <2> HIDE DEF n
    <2>3. RowFits(j, n, net)
      <3>1. net # NoAmount /\ n # Absent
        BY <2>0, <2>1 DEF NoAmount, Absent, Row
      <3>2. upstream[<<j, n.remote>>] \in {"completed", "failed"}
        BY <1>2, <1>10, <2>1
      <3>3. n.net = Net(n.logs)
        BY <2>1
      <3> HIDE DEF net, logs
      <3> QED BY <1>10, <2>1, <3>1, <3>2, <3>3 DEF RowFits, Worth
    <2>4. row' = [row EXCEPT ![j] = n] /\ booked' = [booked EXCEPT ![j] = net] /\ net \in Nat
      BY <1>3, <1>10, <2>2 DEF n
    <2>5. TimerFits' /\ \A k \in Jobs : Scheduled(k) /\ k # j => Scheduled(k)'
      BY <1>6, <1>10
    <2> HIDE DEF net
    <2> QED BY <1>0, <1>10, <2>1, <2>3, <2>4, <2>5, OneSave DEF jobVars
  <1> HIDE DEF merged, net, logs
  <1> QED BY <1>7, <1>8, <1>9, <1>10 DEF ReconcileSaves, merged, net, logs

--------------------------------------------------------------------------------
\* Clicks, time, restarts.

\* No job, row or check changes.
LEMMA NoJob ==
  ASSUME BillingInv, UNCHANGED <<upstream, log, posted, reg, remote, row, booked, check>>,
         Types', TimerFits', \A k \in Jobs : Scheduled(k) => Scheduled(k)'
  PROVE  BillingInv'
  <1>1. ASSUME NEW k \in Jobs PROVE JobFits(k)'
    <2> DEFINE V == Unregistered(k, reg[k], posted[k])
    <2>1. Fits(k, row[k], booked[k], reg[k], remote[k], posted[k], check[k], V)
      BY JobNow
    <2>2. V = Unregistered(k, reg[k], posted[k])
      OBVIOUS
    <2> HIDE DEF V
    <2> QED BY <2>1, <2>2, StillFits
  <1>2. LogFits'
    <2>1. ASSUME NEW t PROVE LogsOf(t)' = LogsOf(t)
      BY DEF LogsOf
    <2> QED BY <2>1 DEF BillingInv, LogFits, IsFirst
  <1>3. Watched'
    BY DEF BillingInv, Watched
  <1>4. ChecksFit'
    BY ChecksStay
  <1> QED BY <1>1, <1>2, <1>3, <1>4 DEF BillingInv

LEMMA TimePassesStep ==
  ASSUME BillingInv, NEW j \in Jobs, TimePasses(j)
  PROVE  BillingInv'
  <1>1. TimerFits' /\ \A k \in Jobs : Scheduled(k)' <=> Scheduled(k) \/ k = j
    BY TimerMoves DEF TimePasses, BillingInv
  <1>2. Types' /\ UNCHANGED <<upstream, log, posted, reg, remote, row, booked, check>>
    BY DEF BillingInv, Types, TimePasses, jobVars, rowVars
  <1> QED BY <1>1, <1>2, NoJob

LEMMA RecheckCommitsStep ==
  ASSUME BillingInv, NEW j \in Jobs, RecheckCommits(j)
  PROVE  BillingInv'
  <1>1. TimerFits' /\ \A k \in Jobs : Scheduled(k)' <=> Scheduled(k) \/ k = j
    BY TimerMoves DEF RecheckCommits, BillingInv
  <1>2. Types' /\ UNCHANGED <<upstream, log, posted, reg, remote, row, booked, check>>
    BY DEF BillingInv, Types, RecheckCommits, jobVars, rowVars
  <1> QED BY <1>1, <1>2, NoJob

LEMMA RecheckReadsStep ==
  ASSUME BillingInv, NEW j \in Jobs, RecheckReads(j)
  PROVE  BillingInv'
  <1>1. TimerFits' /\ \A k \in Jobs : Scheduled(k)' <=> Scheduled(k)
    BY SameTimer DEF RecheckReads
  <1>2. Types' /\ UNCHANGED <<upstream, log, posted, reg, remote, row, booked, check>>
    BY BillingAssumption DEF BillingInv, Types, RecheckReads, jobVars, rowVars
  <1> QED BY <1>1, <1>2, NoJob

LEMMA PollerSeesStep ==
  ASSUME BillingInv, NEW j \in Jobs, PollerSees(j)
  PROVE  BillingInv'
  <1>1. TimerFits' /\ \A k \in Jobs : Scheduled(k)' <=> Scheduled(k)
    BY SameTimer DEF PollerSees
  <1>2. Types' /\ UNCHANGED <<upstream, log, posted, reg, remote, row, booked, check>>
    BY DEF BillingInv, Types, PollerSees, rowVars
  <1> QED BY <1>1, <1>2, NoJob

LEMMA CacheExpiresStep ==
  ASSUME BillingInv, CacheExpires
  PROVE  BillingInv'
  <1>1. TimerFits' /\ \A k \in Jobs : Scheduled(k)' <=> Scheduled(k)
    BY SameTimer DEF CacheExpires
  <1>2. Types' /\ UNCHANGED <<upstream, log, posted, reg, remote, row, booked, check>>
    BY DEF BillingInv, Types, CacheExpires, jobVars, rowVars
  <1> QED BY <1>1, <1>2, NoJob

LEMMA WorkerRestartsStep ==
  ASSUME BillingInv, WorkerRestarts
  PROVE  BillingInv'
  <1>0. /\ posted' = [j \in Jobs |-> {}] /\ reg' = [j \in Jobs |-> Idle]
        /\ check' = [j \in Jobs |-> Idle]
        /\ UNCHANGED <<window, upstream, log, remote, seen, row, booked, timer>>
    BY DEF WorkerRestarts, rowVars
  <1>1. Types'
    BY BillingAssumption DEF BillingInv, Types, WorkerRestarts, rowVars, Check
  <1>2. TimerFits' /\ \A k \in Jobs : Scheduled(k)' <=> Scheduled(k)
    BY <1>0, SameTimer
  <1>3. ASSUME NEW k \in Jobs PROVE JobFits(k)'
    <2> DEFINE U == Unregistered(k, reg[k], posted[k])
               V == Unregistered(k, Idle, {})
    <2>1. Fits(k, row[k], booked[k], reg[k], remote[k], posted[k], check[k], U)
      BY JobNow
    <2>2. V \subseteq U /\ V = Unregistered(k, Idle, {})
      BY DEF Unregistered, Idle
    <2>3. RegistrationFits(k, row[k], Idle, {})
      BY DEF RegistrationFits, Idle
    <2>4. Idle = check[k] \/ Idle.pc = "idle"
      BY DEF Idle
    <2> HIDE DEF U, V
    <2>5. Fits(k, row[k], booked[k], Idle, remote[k], {}, Idle, V)
      BY <2>1, <2>2, <2>3, <2>4, FitsMore
    <2>6. /\ row'[k] = row[k] /\ booked'[k] = booked[k] /\ reg'[k] = Idle /\ remote'[k] = remote[k]
          /\ posted'[k] = {} /\ check'[k] = Idle
      BY <1>0
    <2> QED BY <1>0, <2>2, <2>5, <2>6, StillFits
  <1>4. LogFits'
    <2>1. ASSUME NEW t PROVE LogsOf(t)' = LogsOf(t)
      BY <1>0 DEF LogsOf
    <2> QED BY <1>0, <2>1 DEF BillingInv, LogFits, IsFirst
  <1>5. Watched'
    BY <1>0, <1>2 DEF BillingInv, Watched
  <1>6. ChecksFit'
    BY <1>0, ChecksStay
  <1> QED BY <1>1, <1>2, <1>3, <1>4, <1>5, <1>6 DEF BillingInv

--------------------------------------------------------------------------------
\* The upstream.

\* The log or a task moves on; an accepted task is posted.
LEMMA WorldStep ==
  ASSUME BillingInv, WorldGrows, Types', LogFits',
         UNCHANGED <<reg, remote, row, booked, check, timer>>,
         \A k \in Jobs : \A a \in posted'[k] : /\ upstream'[<<k, a>>] # "none"
                                               /\ ~(reg[k].pc = "commit" /\ reg[k].task = a),
         \A k \in Jobs : \A a \in Attempts :
            upstream'[<<k, a>>] = "none" \/ a \in posted'[k]
              => upstream[<<k, a>>] = "none" \/ a \in posted[k]
  PROVE  BillingInv'
  <1>1. ASSUME NEW k \in Jobs PROVE JobFits(k)'
    <2>1. Fits(k, row[k], booked[k], reg[k], remote[k], posted[k], check[k],
               Unregistered(k, reg[k], posted[k]))
      BY JobNow
    <2>2. /\ Types /\ row[k] \in {Absent} \cup Row /\ reg[k] \in {Idle} \cup Registering
          /\ posted[k] \in SUBSET Attempts /\ posted'[k] \in SUBSET Attempts /\ check[k] \in Check
      BY DEF BillingInv, Types
    <2>3. PICK r, b, g, m, P, Q, c :
            /\ r = row[k] /\ b = booked[k] /\ g = reg[k] /\ m = remote[k] /\ P = posted[k]
            /\ Q = posted'[k] /\ c = check[k]
      OBVIOUS
    <2>4. /\ row'[k] = r /\ booked'[k] = b /\ reg'[k] = g /\ remote'[k] = m /\ posted'[k] = Q
          /\ check'[k] = c
      BY <2>3
    <2>5. /\ r \in {Absent} \cup Row /\ g \in {Idle} \cup Registering /\ P \in SUBSET Attempts
          /\ Q \in SUBSET Attempts /\ c \in Check /\ Fits(k, r, b, g, m, P, c, Unregistered(k, g, P))
      BY <2>1, <2>2, <2>3
    <2>6. /\ \A a \in Q : upstream'[<<k, a>>] # "none" /\ ~(g.pc = "commit" /\ g.task = a)
          /\ \A a \in Attempts : upstream'[<<k, a>>] = "none" \/ a \in Q
                                 => upstream[<<k, a>>] = "none" \/ a \in P
      BY <2>3
    <2> QED BY <2>2, <2>4, <2>5, <2>6, StaysThen
  <1>2. TimerFits' /\ \A k \in Jobs : Scheduled(k)' <=> Scheduled(k)
    BY SameTimer
  <1>3. Watched'
    BY <1>2 DEF BillingInv, Watched
  <1>4. ChecksFit'
    BY ChecksStay
  <1> QED BY <1>1, <1>2, <1>3, <1>4 DEF BillingInv

\* An entry more, and the first of every task stays the first.
LEMMA GrowsKeeps ==
  ASSUME Types, NEW e \in Entry, Grows(e), Len(log) < MaxLogs,
         \A t \in Tasks : upstream[t] # "none" => upstream'[t] = upstream[t]
  PROVE  /\ WorldGrows /\ log' \in Seq(Entry) /\ Len(log') <= MaxLogs
         /\ cached \in {NoCache} \cup 0..Len(log')
         /\ \A t \in Tasks : \A p \in LogsOf(t) : IsFirst(t, p) => p \in LogsOf(t)' /\ IsFirst(t, p)'
  <1>1. /\ log' \in Seq(Entry) /\ Len(log') = Len(log) + 1 /\ Len(log) \in Nat
        /\ DOMAIN log' = DOMAIN log \cup {Len(log) + 1} /\ DOMAIN log = 1..Len(log)
        /\ \A p \in DOMAIN log : log'[p] = log[p]
        /\ \A t : LogsOf(t)' = LogsOf(t) \cup (IF e.task = t THEN {Len(log) + 1} ELSE {})
        /\ \A t : \A p \in LogsOf(t) : p < Len(log) + 1
    BY LogGrows, LogTyped
  <1>2. WorldGrows
    <2>1. \A p \in DOMAIN log, q \in DOMAIN log' : q <= p => q \in DOMAIN log
      BY <1>1
    <2> QED BY <1>1, <2>1 DEF WorldGrows
  <1>3. ASSUME NEW t \in Tasks, NEW p \in LogsOf(t), IsFirst(t, p)
        PROVE  p \in LogsOf(t)' /\ IsFirst(t, p)'
    <2>1. p < Len(log) + 1 /\ p \in Nat
      BY <1>1 DEF LogsOf
    <2>2. ASSUME NEW q \in LogsOf(t)' PROVE p <= q
      <3>1. q \in LogsOf(t) \/ q = Len(log) + 1
        BY <1>1
      <3>2. Len(log) + 1 \in Nat /\ p <= Len(log) + 1
        BY <1>1, <2>1
      <3> QED BY <1>3, <3>1, <3>2 DEF IsFirst
    <2> QED BY <1>1, <2>2 DEF IsFirst
  <1>4. MaxLogs \in Nat /\ cached \in {NoCache} \cup 0..Len(log)
    BY BillingAssumption DEF Types
  <1>5. Len(log') <= MaxLogs /\ cached \in {NoCache} \cup 0..Len(log')
    BY <1>1, <1>4
  <1> QED BY <1>1, <1>2, <1>3, <1>5

LEMMA UpstreamAcceptsStep ==
  ASSUME BillingInv, NEW j \in Jobs, NEW a \in Attempts, UpstreamAccepts(j, a)
  PROVE  BillingInv'
  <1> DEFINE t == <<j, a>>
             e == [task |-> t, quota |-> 2]
  <1>0. /\ upstream[t] = "none" /\ Len(log) < MaxLogs /\ upstream' = [upstream EXCEPT ![t] = "running"]
        /\ Grows(e) /\ posted' = [posted EXCEPT ![j] = posted[j] \cup {a}]
        /\ UNCHANGED <<window, reg, remote, seen, rowVars, timer, check, cached, click, faults, clicks>>
    BY DEF UpstreamAccepts, Logged, Grows, BillingInv, Types
  <1>1. Types /\ LogFits /\ t \in Tasks /\ e \in Entry
    BY DEF BillingInv, Tasks, Entry
  <1>2. /\ upstream'[t] = "running" /\ \A s \in Tasks : s # t => upstream'[s] = upstream[s]
        /\ posted'[j] = posted[j] \cup {a} /\ \A k \in Jobs : k # j => posted'[k] = posted[k]
    BY <1>0, <1>1 DEF Types
  <1> HIDE DEF e
  <1>3. /\ WorldGrows /\ log' \in Seq(Entry) /\ Len(log') <= MaxLogs
        /\ cached \in {NoCache} \cup 0..Len(log')
        /\ \A s \in Tasks : \A p \in LogsOf(s) : IsFirst(s, p) => p \in LogsOf(s)' /\ IsFirst(s, p)'
    BY <1>0, <1>1, <1>2, GrowsKeeps
  <1>4. \A s : LogsOf(s)' = LogsOf(s) \cup (IF t = s THEN {Len(log) + 1} ELSE {})
    BY <1>0, <1>1, LogGrows DEF e
  <1>5. LogFits'
    <2>1. LogsOf(t)' = {Len(log) + 1} /\ Len(log) + 1 \in Nat
      BY <1>0, <1>1, <1>4, LogTyped DEF LogFits
    <2>2. Len(log) + 1 \in LogsOf(t)' /\ \A q \in LogsOf(t)' : Len(log) + 1 <= q
      BY <2>1
    <2>3. PICK n : n = Len(log) + 1
      OBVIOUS
    <2>4. n \in LogsOf(t)' /\ IsFirst(t, n)'
      BY <2>2, <2>3 DEF IsFirst
    <2>5. ASSUME NEW s \in Tasks, s # t
          PROVE  IF upstream'[s] = "none" THEN LogsOf(s)' = {} ELSE \E p \in LogsOf(s)' : IsFirst(s, p)'
      BY <1>1, <1>2, <1>3, <1>4, <2>5 DEF LogFits
    <2> HIDE DEF t
    <2> QED BY <1>2, <2>4, <2>5 DEF LogFits
  <1>6. Types'
    BY <1>0, <1>1, <1>3 DEF Types, rowVars
  <1>7. ASSUME NEW k \in Jobs, NEW d \in posted'[k]
        PROVE  upstream'[<<k, d>>] # "none" /\ ~(reg[k].pc = "commit" /\ reg[k].task = d)
    <2>1. d \in Attempts /\ <<k, d>> \in Tasks
      BY <1>6 DEF Types, Tasks
    <2>2. CASE <<k, d>> = t
      BY <1>0, <1>2, <2>2, JobNow DEF RegistrationFits
    <2>3. CASE <<k, d>> # t
      <3>1. d \in posted[k] /\ upstream'[<<k, d>>] = upstream[<<k, d>>]
        BY <1>2, <2>1, <2>3
      <3> HIDE DEF t
      <3> QED BY <3>1, JobNow DEF RegistrationFits
    <2> QED BY <2>2, <2>3
  <1>8. ASSUME NEW k \in Jobs, NEW d \in Attempts, upstream'[<<k, d>>] = "none" \/ d \in posted'[k]
        PROVE  upstream[<<k, d>>] = "none" \/ d \in posted[k]
    <2>1. <<k, d>> \in Tasks
      BY DEF Tasks
    <2> QED BY <1>0, <1>2, <1>8, <2>1
  <1> QED BY <1>0, <1>3, <1>5, <1>6, <1>7, <1>8, WorldStep DEF rowVars

LEMMA UpstreamEndsStep ==
  ASSUME BillingInv, NEW t \in Tasks, UpstreamEnds(t)
  PROVE  BillingInv'
  <1>0. /\ upstream[t] \in {"running", "completed"} /\ faults' \in 0..MaxFaults
        /\ UNCHANGED <<window, log, jobVars, rowVars, timer, check, cached, click, clicks>>
    BY BillingAssumption DEF UpstreamEnds, BillingInv, Types
  <1>1. PICK end \in {"completed", "failed"} : upstream' = [upstream EXCEPT ![t] = end]
    BY DEF UpstreamEnds
  <1>2. Types /\ LogFits
    BY DEF BillingInv
  <1>3. upstream'[t] = end /\ \A s \in Tasks : s # t => upstream'[s] = upstream[s]
    BY <1>1, <1>2 DEF Types
  <1>4. WorldGrows
    BY <1>0, <1>3 DEF WorldGrows
  <1>5. ASSUME NEW s PROVE LogsOf(s)' = LogsOf(s)
    BY <1>0 DEF LogsOf
  <1>6. LogFits'
    BY <1>0, <1>2, <1>3, <1>5 DEF LogFits, IsFirst
  <1>7. Types'
    BY <1>0, <1>1, <1>2 DEF Types, jobVars, rowVars
  <1>8. ASSUME NEW k \in Jobs, NEW d \in Attempts
        PROVE  upstream'[<<k, d>>] = "none" <=> upstream[<<k, d>>] = "none"
    <2>1. <<k, d>> \in Tasks
      BY DEF Tasks
    <2> QED BY <1>0, <1>3, <2>1
  <1>9. ASSUME NEW k \in Jobs, NEW d \in posted'[k]
        PROVE  upstream'[<<k, d>>] # "none" /\ ~(reg[k].pc = "commit" /\ reg[k].task = d)
    BY <1>0, <1>7, <1>8, JobNow DEF RegistrationFits, Types, jobVars
  <1> QED BY <1>0, <1>4, <1>6, <1>7, <1>8, <1>9, WorldStep DEF jobVars, rowVars

LEMMA UpstreamCorrectsStep ==
  ASSUME BillingInv, NEW t \in Tasks \cup {Other}, NEW quota \in {1, -1}, UpstreamCorrects(t, quota)
  PROVE  BillingInv'
  <1> DEFINE e == [task |-> t, quota |-> quota]
  <1>0. /\ Len(log) < MaxLogs /\ (t # Other => upstream[t] # "none") /\ Grows(e)
        /\ UNCHANGED <<window, upstream, jobVars, rowVars, timer, check, cached, click, faults, clicks>>
    BY DEF UpstreamCorrects, Logged, Grows
  <1>1. Types /\ LogFits /\ e \in Entry
    BY DEF BillingInv, Entry
  <1> HIDE DEF e
  <1>2. /\ WorldGrows /\ log' \in Seq(Entry) /\ Len(log') <= MaxLogs
        /\ cached \in {NoCache} \cup 0..Len(log')
        /\ \A s \in Tasks : \A p \in LogsOf(s) : IsFirst(s, p) => p \in LogsOf(s)' /\ IsFirst(s, p)'
    BY <1>0, <1>1, GrowsKeeps
  <1>3. \A s : LogsOf(s)' = LogsOf(s) \cup (IF t = s THEN {Len(log) + 1} ELSE {})
    BY <1>0, <1>1, LogGrows DEF e
  <1>4. LogFits'
    <2>1. ASSUME NEW s \in Tasks
          PROVE  IF upstream'[s] = "none" THEN LogsOf(s)' = {} ELSE \E p \in LogsOf(s)' : IsFirst(s, p)'
      <3>1. CASE upstream[s] = "none"
        <4>1. t # s
          BY <1>0, <3>1 DEF Other, Tasks
        <4> QED BY <1>0, <1>1, <1>3, <3>1, <4>1 DEF LogFits
      <3>2. CASE upstream[s] # "none"
        BY <1>0, <1>1, <1>2, <3>2 DEF LogFits
      <3> QED BY <3>1, <3>2
    <2> QED BY <2>1 DEF LogFits
  <1>5. Types'
    BY <1>0, <1>1, <1>2 DEF Types, jobVars, rowVars
  <1>6. ASSUME NEW k \in Jobs, NEW d \in posted'[k]
        PROVE  upstream'[<<k, d>>] # "none" /\ ~(reg[k].pc = "commit" /\ reg[k].task = d)
    BY <1>0, JobNow DEF RegistrationFits, jobVars
  <1> QED BY <1>0, <1>2, <1>4, <1>5, <1>6, WorldStep DEF jobVars, rowVars

--------------------------------------------------------------------------------
\* The invariant.

LEMMA InitFits == ASSUME Init PROVE BillingInv
  <1>1. Types
    BY BillingAssumption DEF Init, Types, Check, NoCache
  <1>2. TimerFits
    BY DEF Init, TimerFits, IsInjective, Range
  <1>3. ChecksFit
    <2>1. InFlight = {}
      BY DEF Init, InFlight
    <2> QED BY <2>1, FS_EmptySet, BillingAssumption DEF ChecksFit
  <1>4. LogFits
    BY DEF Init, LogFits, LogsOf
  <1>5. ASSUME NEW j \in Jobs PROVE JobFits(j)
    <2>1. /\ row[j] = Absent /\ booked[j] = 0 /\ reg[j] = Idle /\ remote[j] = NoTask
          /\ posted[j] = {} /\ check[j] = Idle
      BY DEF Init
    <2> QED BY <2>1 DEF JobFits, Fits, RegistrationFits, KnownTasks, RowFits, RowHasFirst, CheckFits,
                        Idle, Absent
  <1>6. Watched
    BY DEF Init, Watched, Absent
  <1> QED BY <1>1, <1>2, <1>3, <1>4, <1>5, <1>6 DEF BillingInv

LEMMA NextFits == ASSUME BillingInv, [Next]_vars PROVE BillingInv'
  <1>1. ASSUME NEW t \in Tasks, UpstreamAccepts(t[1], t[2]) PROVE BillingInv'
    <2>1. t[1] \in Jobs /\ t[2] \in Attempts
      BY DEF Tasks
    <2> QED BY <1>1, <2>1, UpstreamAcceptsStep
  <1>2. ASSUME NEW t \in Tasks, UpstreamEnds(t) PROVE BillingInv'
    BY <1>2, UpstreamEndsStep
  <1>3. ASSUME NEW t \in Tasks \cup {Other}, NEW q \in {1, -1}, UpstreamCorrects(t, q) PROVE BillingInv'
    BY <1>3, UpstreamCorrectsStep
  <1>4. ASSUME NEW j \in Jobs, Registration(j) PROVE BillingInv'
    BY <1>4, RegisterReadsStep, CommitsUnregisteredStep, RegisterCommitsStep, BackfillStep
       DEF Registration
  <1>5. ASSUME NEW j \in Jobs, Reconciliation(j) PROVE BillingInv'
    BY <1>5, ReconcileReadsStep, ReconcileAsksStatusStep, ReconcileAsksLogsStep,
       ReconcileRetriesStep, ReconcileSavesStep DEF Reconciliation
  <1>6. ASSUME NEW j \in Jobs,
               \/ PassPicks(j) \/ LookupFails(j) \/ TimePasses(j)
               \/ PollerSees(j) \/ RecheckReads(j) \/ RecheckCommits(j)
        PROVE  BillingInv'
    BY <1>6, PassPicksStep, LookupFailsStep, TimePassesStep, PollerSeesStep, RecheckReadsStep,
       RecheckCommitsStep
  <1>7. CASE UNCHANGED vars
    <2>1. /\ UNCHANGED <<upstream, log, posted, reg, remote, row, booked, check>> /\ UNCHANGED timer
          /\ Types'
      BY <1>7 DEF BillingInv, Types, vars, jobVars, rowVars
    <2>2. TimerFits' /\ \A k \in Jobs : Scheduled(k)' <=> Scheduled(k)
      BY <2>1, SameTimer
    <2> QED BY <2>1, <2>2, NoJob
  <1> QED BY <1>1, <1>2, <1>3, <1>4, <1>5, <1>6, <1>7, CacheExpiresStep, WorkerRestartsStep DEF Next

\* The invariant holds of every behaviour.
LEMMA AlwaysFits == Spec => []BillingInv
  BY InitFits, NextFits, PTL DEF Spec

--------------------------------------------------------------------------------

\* The state has its types for every number of jobs, tasks and entries: no row is ever
\* saved with a negative amount or one above what was charged, a job is in at most one
\* place of the timer, and no more checks run than the executor has threads.
THEOREM BillingTypeCorrect == Spec => []BillingTypeOK
  <1>1. ASSUME BillingInv PROVE BillingTypeOK
    <2>1. Range(queue) \subseteq Jobs
      BY <1>1 DEF BillingInv, TimerFits, Range
    <2>2. \A p \in DOMAIN log : log[p] \in [task : Tasks \cup {Other}, quota : {2, 1, -1}]
      BY <1>1, LogTyped DEF BillingInv, Entry
    <2> QED BY <1>1, <2>1, <2>2 DEF BillingInv, Types, TimerFits, ChecksFit, BillingTypeOK, Registering
  <1> QED BY <1>1, AlwaysFits, PTL

\* A row has an amount exactly when it is settled, and the revisions recorded of it add up
\* to it, through every exclusion, reassignment and repeated settlement.
THEOREM RevisionsAddUp == Spec => []RevisionsExplain
  <1>1. ASSUME BillingInv PROVE RevisionsExplain
    <2> SUFFICES ASSUME NEW j \in Jobs, row[j] # Absent
                 PROVE  (row[j].state = "settled" <=> row[j].net # NoAmount) /\ booked[j] = Amount(j)
      BY DEF RevisionsExplain
    <2> QED BY <1>1, JobNow DEF RowFits, Worth, Amount
  <1> QED BY <1>1, AlwaysFits, PTL

\* A settled amount is the sum of the entries stored with the row, each counted once,
\* unless the row was reassigned since, whatever window the upstream shows.
THEOREM AmountsAreSums == Spec => []AmountIsItsLogs
  <1>1. ASSUME BillingInv PROVE AmountIsItsLogs
    BY <1>1, JobNow DEF AmountIsItsLogs, RowFits, OwnLogs, Own
  <1> QED BY <1>1, AlwaysFits, PTL

\* A settled amount includes the first charge of its task, unless the row is younger than it.
THEOREM FirstChargeIsKept == Spec => []FirstChargeKept
  <1>1. ASSUME BillingInv PROVE FirstChargeKept
    <2> SUFFICES ASSUME NEW j \in Jobs, row[j].state = "settled", OwnLogs(j),
                        row[j].created < FirstOf(<<j, row[j].remote>>)
                 PROVE  FirstOf(<<j, row[j].remote>>) \in row[j].logs
      BY DEF FirstChargeKept
    <2> DEFINE t == <<j, row[j].remote>>
    <2>1. /\ row[j] # Absent /\ row[j].logs # {} /\ Own(j, row[j]) /\ t \in Tasks
          /\ FirstKept(row[j], t, row[j].logs)
      BY <1>1, JobNow, RowTyped DEF RowFits, RowHasFirst, OwnLogs, Own, Absent, Tasks
    <2>2. LogsOf(t) # {}
      BY <2>1 DEF Own
    <2>3. \E p \in LogsOf(t) : \A q \in LogsOf(t) : p <= q
      BY <1>1, <2>1, <2>2 DEF BillingInv, LogFits, IsFirst
    <2>4. FirstOf(t) \in LogsOf(t) /\ IsFirst(t, FirstOf(t))
      BY <2>3 DEF FirstOf, IsFirst
    <2> QED BY <2>1, <2>4 DEF FirstKept
  <1> QED BY <1>1, AlwaysFits, PTL

\* A pending row always waits for its next check or is due, whatever failed: lookups,
\* registrations that commit late, restarts, negative sums.
THEOREM PendingRowsAreWatched == Spec => []PendingIsWatched
  <1>1. ASSUME BillingInv PROVE PendingIsWatched
    BY <1>1 DEF BillingInv, Watched, PendingIsWatched
  <1> QED BY <1>1, AlwaysFits, PTL

==================================================================================
