----------------------------- MODULE TransferProofs -----------------------------
(*
What Transfer leaves on disk is never mixed, for any number of processes, addresses,
blocks, attempts and faults.
*)
EXTENDS Transfer, FiniteSetTheorems, TLAPS

\* Threads between taking the lock and giving it back.
Locking == {"locked", "fresh", "running", "unlink", "unlinked"}

\* The lock has one owner, and what its thread knows of the files holds.
OwnerKnows(p, j) ==
  /\ thread[p][j].pc \in Locking => locked[j] = p
  /\ thread[p][j].pc \in {"fresh", "unlinked"} => part[j] = <<>>
  /\ thread[p][j].pc = "running" => source[j] = Url(p, j)

PartFits(j) == Len(part[j]) <= Size
OneSource(j) == \A n \in 1..Len(part[j]) : part[j][n] = source[j]
Published(j) == dest[j] # <<>> => Whole(dest[j])

FilesInv ==
  /\ \A p \in Procs, j \in Jobs : OwnerKnows(p, j)
  /\ \A j \in Jobs : PartFits(j) /\ OneSource(j) /\ Published(j)

TransferInv == TransferTypeOK /\ FilesInv

--------------------------------------------------------------------------------
\* Types.

LEMMA ThreadTypes ==
  /\ Idle \in Thread /\ [pc |-> "pending"] \in Thread
  /\ \A t \in Thread : t.pc \notin {"idle", "pending"} =>
       /\ t.url \in Urls /\ t.initial \in 0..Size /\ t # Idle
       /\ \A pc \in Locking \cup {"result"} : [t EXCEPT !.pc = pc] \in Thread
       /\ \A n \in 0..Size : [t EXCEPT !.pc = "running", !.initial = n] \in Thread
       /\ \A pc \in {"unlink", "result"}, r \in {"ok", "progress", "error"} :
            [t EXCEPT !.pc = pc, !.result = r] \in Thread
  /\ \A u \in Urls : [pc |-> "claimed", url |-> u, initial |-> 0, result |-> "none"] \in Thread
  <1>1. Idle \in Thread /\ [pc |-> "pending"] \in Thread
    BY DEF Thread
  <1>2. \A u \in Urls : [pc |-> "claimed", url |-> u, initial |-> 0, result |-> "none"] \in Thread
    BY TransferAssumption DEF Thread
  <1>3. ASSUME NEW t \in Thread, t.pc \notin {"idle", "pending"}
        PROVE  /\ t.url \in Urls /\ t.initial \in 0..Size /\ t # Idle
               /\ \A pc \in Locking \cup {"result"} : [t EXCEPT !.pc = pc] \in Thread
               /\ \A n \in 0..Size : [t EXCEPT !.pc = "running", !.initial = n] \in Thread
               /\ \A pc \in {"unlink", "result"}, r \in {"ok", "progress", "error"} :
                    [t EXCEPT !.pc = pc, !.result = r] \in Thread
    <2>1. t \in [pc : {"claimed", "locked", "fresh", "running", "unlink", "unlinked", "result"},
                 url : Urls, initial : 0..Size, result : {"none", "ok", "progress", "error"}]
      BY <1>3 DEF Thread, Idle
    <2>2. t.url \in Urls /\ t.initial \in 0..Size /\ t # Idle
      BY <1>3, <2>1 DEF Idle
    <2>3. \A pc \in Locking \cup {"result"} : [t EXCEPT !.pc = pc] \in Thread
      BY <2>1 DEF Thread, Locking
    <2>4. \A n \in 0..Size : [t EXCEPT !.pc = "running", !.initial = n] \in Thread
      BY <2>1 DEF Thread
    <2>5. \A pc \in {"unlink", "result"}, r \in {"ok", "progress", "error"} :
            [t EXCEPT !.pc = pc, !.result = r] \in Thread
      BY <2>1 DEF Thread
    <2> QED BY <2>2, <2>3, <2>4, <2>5
  <1> QED BY <1>1, <1>2, <1>3

\* A thread that was there moves on, or ends.
LEMMA ThreadMoves ==
  ASSUME TransferTypeOK, NEW p \in Procs, NEW j \in Jobs, NEW t \in Thread,
         Becomes(p, j, t), thread[p][j] # Idle \/ t = Idle
  PROVE  /\ thread' \in [Procs -> [Jobs -> Thread]]
         /\ \A q \in Procs : Cardinality(Busy(q)') <= MaxLimit
         /\ \A q \in Procs, i \in Jobs : thread'[q][i] = IF q = p /\ i = j THEN t ELSE thread[q][i]
  <1>1. thread \in [Procs -> [Jobs -> Thread]] /\ thread' = [thread EXCEPT ![p][j] = t]
    BY DEF TransferTypeOK, Becomes
  <1>2. thread' \in [Procs -> [Jobs -> Thread]]
    BY <1>1
  <1>3. \A q \in Procs, i \in Jobs : thread'[q][i] = IF q = p /\ i = j THEN t ELSE thread[q][i]
    BY <1>1
  <1>4. ASSUME NEW q \in Procs PROVE Cardinality(Busy(q)') <= MaxLimit
    <2>1. Busy(q)' \subseteq Busy(q) /\ Busy(q) \subseteq Jobs
      BY <1>3 DEF Busy
    <2>2. IsFiniteSet(Busy(q))
      BY <2>1, TransferAssumption, FS_Subset
    <2>3. Cardinality(Busy(q)') <= Cardinality(Busy(q)) /\ Cardinality(Busy(q)) \in Nat
          /\ Cardinality(Busy(q)') \in Nat
      BY <2>1, <2>2, FS_Subset, FS_CardinalityType
    <2>4. Cardinality(Busy(q)) <= MaxLimit
      BY DEF TransferTypeOK
    <2> QED BY <2>3, <2>4, TransferAssumption
  <1> QED BY <1>2, <1>3, <1>4

LEMMA BusySame ==
  ASSUME UNCHANGED thread
  PROVE  \A q \in Procs : Busy(q)' = Busy(q)
  BY DEF Busy

LEMMA TypeInit == Init => TransferTypeOK
  <1> SUFFICES ASSUME Init PROVE TransferTypeOK OBVIOUS
  <1>1. known \in [Jobs -> Urls]
    BY TransferAssumption DEF Init
  <1>2. /\ part \in [Jobs -> Seq(Urls)] /\ source \in [Jobs -> Urls \cup {NoSource}]
        /\ locked \in [Jobs -> Procs \cup {Free}]
    BY DEF Init
  <1>3. dest \in [Jobs -> Seq(Urls)]
    <2>1. \A j \in Jobs : [n \in 1..Size |-> known[j]] \in Seq(Urls)
      BY <1>1, TransferAssumption
    <2> QED BY <2>1 DEF Init
  <1>4. thread \in [Procs -> [Jobs -> Thread]]
    BY ThreadTypes DEF Init
  <1>5. \A p \in Procs : Cardinality(Busy(p)) <= MaxLimit
    <2>1. \A p \in Procs : Busy(p) = {}
      BY DEF Init, Busy
    <2> QED BY <2>1, FS_EmptySet, TransferAssumption
  <1>6. /\ status \in [Jobs -> Open \cup {"completed", "download_failed"}]
        /\ attempts \in [Jobs -> 0..MaxAttempts]
    BY TransferAssumption DEF Init, Open, Claimable
  <1>7. /\ limit \in [Procs -> 1..MaxLimit] /\ up \in [Procs -> BOOLEAN]
        /\ fruitless \in [Jobs -> Nat] /\ faults \in 0..MaxFaults /\ moves \in 0..MaxMoves
    BY TransferAssumption DEF Init
  <1> QED BY <1>1, <1>2, <1>3, <1>4, <1>5, <1>6, <1>7 DEF TransferTypeOK

\* The pool and the claim.
LEMMA TypePool ==
  ASSUME TransferTypeOK, NEW p \in Procs, NEW j \in Jobs,
         Schedule(p, j) \/ Claim(p, j) \/ ClaimWaits(p, j)
  PROVE  TransferTypeOK'
  <1> USE DEF TransferTypeOK
  <1>1. CASE Schedule(p, j)
    <2>1. thread' = [thread EXCEPT ![p][j] = [pc |-> "pending"]]
      BY <1>1 DEF Schedule, Becomes
    <2>2. thread' \in [Procs -> [Jobs -> Thread]]
      BY <2>1, ThreadTypes
    <2>3. ASSUME NEW q \in Procs PROVE Cardinality(Busy(q)') <= MaxLimit
      <3>1. CASE q # p
        <4>1. Busy(q)' = Busy(q)
          BY <2>1, <3>1 DEF Busy
        <4> QED BY <4>1
      <3>2. CASE q = p
        <4>1. Busy(p)' = Busy(p) \cup {j} /\ j \notin Busy(p)
          BY <1>1, <2>1 DEF Busy, Schedule, Idle
        <4>2. IsFiniteSet(Busy(p))
          BY TransferAssumption, FS_Subset DEF Busy
        <4>3. Cardinality(Busy(p)') = Cardinality(Busy(p)) + 1 /\ Cardinality(Busy(p)) \in Nat
          BY <4>1, <4>2, FS_AddElement, FS_CardinalityType
        <4>4. Cardinality(Busy(p)) < limit[p] /\ limit[p] \in 1..MaxLimit
          BY <1>1 DEF Schedule
        <4> QED BY <3>2, <4>3, <4>4, TransferAssumption
      <3> QED BY <3>1, <3>2
    <2> QED BY <1>1, <2>2, <2>3 DEF Schedule, row, disk, bounds
  <1>2. CASE Claim(p, j)
    <2>1. /\ Claimed(p, j).status \in Open \cup {"completed", "download_failed"}
          /\ Claimed(p, j).attempts \in 0..MaxAttempts
          /\ Claimed(p, j).thread \in Thread
      <3>1. known[j] \in Urls /\ status[j] \in Open \cup {"completed", "download_failed"}
            /\ attempts[j] \in 0..MaxAttempts
        OBVIOUS
      <3>2. ~Exhausted(j) => attempts[j] + 1 \in 0..MaxAttempts
        BY <3>1, TransferAssumption DEF Exhausted
      <3> QED BY <3>1, <3>2, ThreadTypes DEF Claimed, Leaves, Starts, Open
    <2>2. thread[p][j] # Idle /\ Becomes(p, j, Claimed(p, j).thread)
      BY <1>2 DEF Claim, At, Idle
    <2>3. /\ thread' \in [Procs -> [Jobs -> Thread]]
          /\ \A q \in Procs : Cardinality(Busy(q)') <= MaxLimit
      BY <2>1, <2>2, ThreadMoves
    <2>4. /\ status' = [status EXCEPT ![j] = Claimed(p, j).status]
          /\ attempts' = [attempts EXCEPT ![j] = Claimed(p, j).attempts]
          /\ UNCHANGED <<known, disk, locked, limit, up, fruitless, bounds>>
      BY <1>2 DEF Claim
    <2> HIDE DEF Claimed
    <2> QED BY <2>1, <2>3, <2>4 DEF disk, bounds
  <1>3. CASE ClaimWaits(p, j)
    <2>1. /\ thread' \in [Procs -> [Jobs -> Thread]]
          /\ \A q \in Procs : Cardinality(Busy(q)') <= MaxLimit
      BY <1>3, ThreadTypes, ThreadMoves DEF ClaimWaits
    <2> QED BY <1>3, <2>1 DEF ClaimWaits, Open, Claimable, disk, bounds
  <1> QED BY <1>1, <1>2, <1>3

\* The transfer.
LEMMA TypeTransfer ==
  ASSUME TransferTypeOK, NEW p \in Procs, NEW j \in Jobs, PartFits(j),
         \/ Lock(p, j) \/ CheckSource(p, j) \/ NoteSource(p, j)
         \/ Receive(p, j) \/ Publish(p, j) \/ Interrupted(p, j) \/ Refused(p, j)
         \/ UnlinkPart(p, j) \/ UnlinkSource(p, j)
  PROVE  TransferTypeOK'
  <1> USE DEF TransferTypeOK
  <1>0. /\ thread[p][j] \in Thread /\ thread[p][j] # Idle
        /\ thread[p][j].pc \notin {"idle", "pending"} /\ Url(p, j) \in Urls
        /\ part[j] \in Seq(Urls) /\ Len(part[j]) \in 0..Size
    <2>1. thread[p][j] \in Thread /\ part[j] \in Seq(Urls)
      OBVIOUS
    <2>2. thread[p][j].pc \notin {"idle", "pending"}
      BY DEF Lock, CheckSource, NoteSource, Receive, Publish, Interrupted, Refused,
             UnlinkPart, UnlinkSource, At
    <2>3. Len(part[j]) \in 0..Size
      BY <2>1, TransferAssumption DEF PartFits
    <2> QED BY <2>1, <2>2, <2>3, ThreadTypes DEF Url
  <1>1. \/ UNCHANGED thread
        \/ \E t \in Thread : Becomes(p, j, t)
    <2> DEFINE t == thread[p][j]
    <2>1. /\ \A pc \in Locking \cup {"result"} : [t EXCEPT !.pc = pc] \in Thread
          /\ \A n \in 0..Size : [t EXCEPT !.pc = "running", !.initial = n] \in Thread
          /\ \A pc \in {"unlink", "result"}, r \in {"ok", "progress", "error"} :
               [t EXCEPT !.pc = pc, !.result = r] \in Thread
      BY <1>0, ThreadTypes
    <2> HIDE DEF Thread
    <2>2. CASE Lock(p, j)
      BY <2>1, <2>2 DEF Lock, Ends, Locking
    <2>3. CASE CheckSource(p, j)
      BY <1>0, <2>1, <2>3 DEF CheckSource, Locking
    <2>4. CASE NoteSource(p, j)
      BY <2>1, <2>4 DEF NoteSource, Locking
    <2>5. CASE Receive(p, j)
      BY <2>5 DEF Receive
    <2>6. CASE Publish(p, j)
      BY <2>1, <2>6 DEF Publish
    <2>7. CASE Interrupted(p, j)
      BY <2>1, <2>7 DEF Interrupted, Ends
    <2>8. CASE Refused(p, j)
      BY <2>1, <2>8 DEF Refused
    <2>9. CASE UnlinkPart(p, j)
      BY <2>1, <2>9 DEF UnlinkPart, Locking
    <2>10. CASE UnlinkSource(p, j)
      BY <2>1, <2>10 DEF UnlinkSource
    <2> QED BY <2>2, <2>3, <2>4, <2>5, <2>6, <2>7, <2>8, <2>9, <2>10
  <1>2. /\ thread' \in [Procs -> [Jobs -> Thread]]
        /\ \A q \in Procs : Cardinality(Busy(q)') <= MaxLimit
    BY <1>0, <1>1, ThreadMoves, BusySame
  <1>3. part' \in [Jobs -> Seq(Urls)] /\ dest' \in [Jobs -> Seq(Urls)]
    <2>1. Append(part[j], Url(p, j)) \in Seq(Urls) /\ <<>> \in Seq(Urls)
      BY <1>0
    <2>2. \/ part' = part
          \/ part' = [part EXCEPT ![j] = <<>>]
          \/ part' = [part EXCEPT ![j] = Append(@, Url(p, j))]
      BY DEF Lock, CheckSource, NoteSource, Receive, Publish, Interrupted, Refused,
             UnlinkPart, UnlinkSource, disk
    <2>3. dest' = dest \/ dest' = [dest EXCEPT ![j] = part[j]]
      BY DEF Lock, CheckSource, NoteSource, Receive, Publish, Interrupted, Refused,
             UnlinkPart, UnlinkSource, disk
    <2>4. part' \in [Jobs -> Seq(Urls)]
      BY <2>1, <2>2
    <2> QED BY <1>0, <2>3, <2>4
  <1>4. source' \in [Jobs -> Urls \cup {NoSource}] /\ locked' \in [Jobs -> Procs \cup {Free}]
    BY <1>0 DEF Lock, CheckSource, NoteSource, Receive, Publish, Interrupted, Refused,
                UnlinkPart, UnlinkSource, disk
  <1>5. fruitless' \in [Jobs -> Nat]
    BY DEF Lock, CheckSource, NoteSource, Receive, Publish, Interrupted, Refused,
           UnlinkPart, UnlinkSource, Ends
  <1>6. UNCHANGED <<status, attempts, known, limit, up, faults, moves>>
    BY DEF Lock, CheckSource, NoteSource, Receive, Publish, Interrupted, Refused,
           UnlinkPart, UnlinkSource, row, bounds
  <1> QED BY <1>2, <1>3, <1>4, <1>5, <1>6

\* The booking.
LEMMA GivenBackType == \A n \in 0..MaxAttempts : GivenBack(n) \in 0..MaxAttempts
  BY TransferAssumption DEF GivenBack

LEMMA TypeBooking ==
  ASSUME TransferTypeOK, NEW p \in Procs, NEW j \in Jobs, Book(p, j) \/ BookingLost(p, j)
  PROVE  TransferTypeOK'
  <1> USE DEF TransferTypeOK
  <1>1. /\ thread' \in [Procs -> [Jobs -> Thread]]
        /\ \A q \in Procs : Cardinality(Busy(q)') <= MaxLimit
    BY ThreadTypes, ThreadMoves DEF Book, BookingLost
  <1>2. CASE Book(p, j)
    <2>1. /\ Booked(p, j)[1] \in Open \cup {"completed", "download_failed"}
          /\ Booked(p, j)[2] \in 0..MaxAttempts
      <3>1. attempts[j] \in 0..MaxAttempts /\ GivenBack(attempts[j]) \in 0..MaxAttempts
        BY GivenBackType
      <3> QED BY <3>1 DEF Booked, Open, Claimable
    <2> HIDE DEF Booked
    <2>2. /\ status' \in [Jobs -> Open \cup {"completed", "download_failed"}]
          /\ attempts' \in [Jobs -> 0..MaxAttempts]
      BY <1>2, <2>1 DEF Book
    <2> QED BY <1>1, <1>2, <2>2 DEF Book, disk, bounds
  <1>3. CASE BookingLost(p, j)
    <2>1. fruitless' \in [Jobs -> Nat] /\ faults' \in 0..MaxFaults
      BY <1>3, TransferAssumption DEF BookingLost, Counted
    <2> QED BY <1>1, <1>3, <2>1 DEF BookingLost, row, disk
  <1> QED BY <1>2, <1>3

\* The rest.
LEMMA TypeRest ==
  ASSUME TransferTypeOK,
         \/ \E p \in Procs : RefreshLimit(p) \/ Crash(p) \/ Start(p)
         \/ \E j \in Jobs : CompleteExisting(j) \/ RecoverStale(j) \/ AddressMoves(j)
  PROVE  TransferTypeOK'
  <1> USE DEF TransferTypeOK
  <1>1. ASSUME NEW p \in Procs, RefreshLimit(p) PROVE TransferTypeOK'
    <2>1. limit' \in [Procs -> 1..MaxLimit]
      BY <1>1 DEF RefreshLimit
    <2>2. \A q \in Procs : Cardinality(Busy(q)') <= MaxLimit
      BY <1>1, BusySame DEF RefreshLimit
    <2>3. UNCHANGED <<row, known, disk, locked, thread, up, fruitless, bounds>>
      BY <1>1 DEF RefreshLimit
    <2> QED BY <2>1, <2>2, <2>3 DEF row, disk, bounds
  <1>2. ASSUME NEW p \in Procs, Crash(p) PROVE TransferTypeOK'
    <2>1. thread' \in [Procs -> [Jobs -> Thread]]
      BY <1>2, ThreadTypes DEF Crash
    <2>2. ASSUME NEW q \in Procs PROVE Cardinality(Busy(q)') <= MaxLimit
      <3>1. q = p => Busy(q)' = {}
        BY <1>2 DEF Crash, Busy
      <3>2. q # p => Busy(q)' = Busy(q)
        BY <1>2 DEF Crash, Busy
      <3>3. CASE q = p
        <4>1. Cardinality(Busy(q)') = 0
          BY <3>1, <3>3, FS_EmptySet
        <4> QED BY <4>1, TransferAssumption
      <3>4. CASE q # p
        BY <3>2, <3>4
      <3> QED BY <3>3, <3>4
    <2>3. /\ source' \in [Jobs -> Urls \cup {NoSource}] /\ locked' \in [Jobs -> Procs \cup {Free}]
          /\ fruitless' \in [Jobs -> Nat]
      BY <1>2 DEF Crash, Freed, Counted
    <2>4. faults' \in 0..MaxFaults /\ up' \in [Procs -> BOOLEAN]
      BY <1>2, TransferAssumption DEF Crash
    <2> QED BY <1>2, <2>1, <2>2, <2>3, <2>4 DEF Crash, row
  <1>3. ASSUME NEW p \in Procs, Start(p) PROVE TransferTypeOK'
    BY <1>3, BusySame DEF Start, Open, Claimable, disk, bounds
  <1>4. ASSUME NEW j \in Jobs, CompleteExisting(j) PROVE TransferTypeOK'
    BY <1>4, BusySame DEF CompleteExisting, disk, bounds
  <1>5. ASSUME NEW j \in Jobs, RecoverStale(j) PROVE TransferTypeOK'
    <2>1. GivenBack(attempts[j]) \in 0..MaxAttempts
      BY GivenBackType
    <2>2. faults' \in 0..MaxFaults
      BY <1>5, TransferAssumption DEF RecoverStale
    <2> QED BY <1>5, <2>1, <2>2, BusySame DEF RecoverStale, Open, Claimable, disk
  <1>6. ASSUME NEW j \in Jobs, AddressMoves(j) PROVE TransferTypeOK'
    <2>1. PICK u \in Urls : known' = [known EXCEPT ![j] = u]
      BY <1>6 DEF AddressMoves
    <2>2. moves' \in 0..MaxMoves
      BY <1>6, TransferAssumption DEF AddressMoves
    <2> QED BY <1>6, <2>1, <2>2, BusySame DEF AddressMoves, row, disk
  <1> QED BY <1>1, <1>2, <1>3, <1>4, <1>5, <1>6

LEMMA TypeStep == TransferInv /\ [Next]_vars => TransferTypeOK'
  <1> SUFFICES ASSUME TransferInv, [Next]_vars PROVE TransferTypeOK' OBVIOUS
  <1>1. CASE UNCHANGED vars
    BY <1>1, BusySame DEF TransferInv, TransferTypeOK, vars, row, disk, bounds
  <1>2. CASE Next
    BY <1>2, TypePool, TypeTransfer, TypeBooking, TypeRest
       DEF Next, TransferNext, TransferInv, FilesInv
  <1> QED BY <1>1, <1>2

--------------------------------------------------------------------------------
\* Files.

LEMMA FilesInit == Init => FilesInv
  <1> SUFFICES ASSUME Init PROVE FilesInv OBVIOUS
  <1>1. ASSUME NEW p \in Procs, NEW j \in Jobs PROVE OwnerKnows(p, j)
    BY DEF Init, OwnerKnows, Idle, Locking
  <1>2. ASSUME NEW j \in Jobs PROVE PartFits(j) /\ OneSource(j)
    BY TransferAssumption DEF Init, PartFits, OneSource
  <1>3. ASSUME NEW j \in Jobs PROVE Published(j)
    <2>1. known[j] \in Urls
      BY TransferAssumption DEF Init
    <2>2. CASE j \in Kept
      <3>1. dest[j] = [n \in 1..Size |-> known[j]]
        BY <2>2 DEF Init
      <3>2. Len(dest[j]) = Size
        BY <2>1, <3>1, TransferAssumption
      <3> QED BY <2>1, <3>1, <3>2 DEF Published, Whole
    <2>3. CASE j \notin Kept
      BY <2>3 DEF Init, Published
    <2> QED BY <2>2, <2>3
  <1> QED BY <1>1, <1>2, <1>3 DEF FilesInv

\* Nobody else is in the locked stretch of a job.
LEMMA OneOwner ==
  ASSUME FilesInv, NEW p \in Procs, NEW j \in Jobs, thread[p][j].pc \in Locking
  PROVE  /\ locked[j] = p
         /\ \A q \in Procs \ {p} : thread[q][j].pc \notin Locking
  BY DEF FilesInv, OwnerKnows

\* A step that touches no file, takes and gives back no lock, and moves no thread into the
\* locked stretch or within it.
LEMMA FilesUntouched ==
  ASSUME FilesInv, UNCHANGED <<disk, locked>>,
         \A q \in Procs, i \in Jobs : \/ thread'[q][i] = thread[q][i]
                                      \/ thread'[q][i].pc \notin Locking
  PROVE  FilesInv'
  <1>1. ASSUME NEW q \in Procs, NEW i \in Jobs PROVE OwnerKnows(q, i)'
    <2>1. OwnerKnows(q, i) BY DEF FilesInv
    <2> QED BY <2>1 DEF OwnerKnows, Locking, disk, Url
  <1>2. ASSUME NEW i \in Jobs PROVE (PartFits(i) /\ OneSource(i) /\ Published(i))'
    <2>1. PartFits(i) /\ OneSource(i) /\ Published(i) BY DEF FilesInv
    <2> QED BY <2>1 DEF PartFits, OneSource, Published, disk, Whole
  <1> QED BY <1>1, <1>2 DEF FilesInv

\* A step of the owner of the lock of job j, which keeps it or gives it back.
LEMMA FilesOwned ==
  ASSUME TransferTypeOK, FilesInv, NEW p \in Procs, NEW j \in Jobs, thread[p][j].pc \in Locking,
         \A i \in Jobs \ {j} : /\ part'[i] = part[i] /\ source'[i] = source[i]
                               /\ dest'[i] = dest[i] /\ locked'[i] = locked[i],
         \A q \in Procs, i \in Jobs : q # p \/ i # j => thread'[q][i] = thread[q][i],
         OwnerKnows(p, j)', PartFits(j)', OneSource(j)', Published(j)'
  PROVE  FilesInv'
  <1>1. ASSUME NEW q \in Procs, NEW i \in Jobs PROVE OwnerKnows(q, i)'
    <2>1. CASE i = j /\ q # p
      <3>1. thread'[q][i].pc \notin Locking
        BY <2>1, OneOwner
      <3> QED BY <3>1 DEF OwnerKnows, Locking
    <2>2. CASE i # j
      <3>1. OwnerKnows(q, i) BY DEF FilesInv
      <3> QED BY <2>2, <3>1 DEF OwnerKnows, Url
    <2> QED BY <2>1, <2>2
  <1>2. ASSUME NEW i \in Jobs PROVE (PartFits(i) /\ OneSource(i) /\ Published(i))'
    <2>1. CASE i # j
      <3>1. PartFits(i) /\ OneSource(i) /\ Published(i) BY DEF FilesInv
      <3> QED BY <2>1, <3>1 DEF PartFits, OneSource, Published, Whole
    <2> QED BY <2>1
  <1> QED BY <1>1, <1>2 DEF FilesInv

LEMMA FilesTransfer ==
  ASSUME TransferTypeOK, FilesInv, NEW p \in Procs, NEW j \in Jobs,
         \/ CheckSource(p, j) \/ NoteSource(p, j)
         \/ Receive(p, j) \/ Publish(p, j) \/ Interrupted(p, j) \/ Refused(p, j)
         \/ UnlinkPart(p, j) \/ UnlinkSource(p, j)
  PROVE  FilesInv'
  <1>0. /\ part \in [Jobs -> Seq(Urls)] /\ dest \in [Jobs -> Seq(Urls)]
        /\ source \in [Jobs -> Urls \cup {NoSource}] /\ locked \in [Jobs -> Procs \cup {Free}]
        /\ thread \in [Procs -> [Jobs -> Thread]] /\ part[j] \in Seq(Urls)
    BY DEF TransferTypeOK
  <1>1. OwnerKnows(p, j) /\ PartFits(j) /\ OneSource(j) /\ Published(j)
    BY DEF FilesInv
  <1>2. thread[p][j].pc \in Locking /\ locked[j] = p
    BY <1>1 DEF CheckSource, NoteSource, Receive, Publish, Interrupted, Refused,
                UnlinkPart, UnlinkSource, At, Locking, OwnerKnows
  <1>3. Url(p, j) \in Urls /\ DOMAIN thread[p][j] = {"pc", "url", "initial", "result"}
    <2>1. thread[p][j] \in Thread BY <1>0
    <2> QED BY <1>2, <2>1 DEF Thread, Idle, Url, Locking
  <1>4. /\ \A i \in Jobs \ {j} : /\ part'[i] = part[i] /\ source'[i] = source[i]
                                 /\ dest'[i] = dest[i] /\ locked'[i] = locked[i]
        /\ \A q \in Procs, i \in Jobs : q # p \/ i # j => thread'[q][i] = thread[q][i]
    BY <1>0 DEF CheckSource, NoteSource, Receive, Publish, Interrupted, Refused,
                UnlinkPart, UnlinkSource, Ends, Becomes, disk
  <1> SUFFICES OwnerKnows(p, j)' /\ PartFits(j)' /\ OneSource(j)' /\ Published(j)'
    BY <1>2, <1>4, FilesOwned
  <1> USE DEF OwnerKnows, PartFits, OneSource, Published, Whole, Locking, Url
  <1>5. CASE CheckSource(p, j)
    <2>1. CASE Resumable(p, j)
      <3>1. /\ UNCHANGED <<part, source, dest, locked>>
            /\ thread'[p][j].pc = "running" /\ thread'[p][j].url = Url(p, j)
        <4> DEFINE t == [thread[p][j] EXCEPT !.pc = "running", !.initial = Len(part[j])]
        <4>1. t.pc = "running" /\ t.url = Url(p, j)
          BY <1>3
        <4>2. thread' = [thread EXCEPT ![p][j] = t] /\ UNCHANGED <<part, source, dest, locked>>
          BY <1>5, <2>1 DEF CheckSource, Becomes
        <4> HIDE DEF t
        <4>3. thread'[p][j] = t
          BY <1>0, <4>2
        <4> QED BY <4>1, <4>2, <4>3
      <3> QED BY <1>1, <1>2, <2>1, <3>1 DEF Resumable
    <2>2. CASE ~Resumable(p, j)
      <3>1. /\ UNCHANGED <<source, dest, locked>> /\ part'[j] = <<>>
            /\ thread'[p][j].pc = "fresh"
        BY <1>0, <1>3, <1>5, <2>2 DEF CheckSource, Becomes
      <3> QED BY <1>1, <1>2, <3>1, TransferAssumption
    <2> QED BY <2>1, <2>2
  <1>6. CASE NoteSource(p, j)
    <2>1. /\ UNCHANGED <<part, dest, locked>> /\ source'[j] = Url(p, j) /\ part[j] = <<>>
          /\ thread'[p][j].pc = "running" /\ thread'[p][j].url = Url(p, j)
      BY <1>0, <1>1, <1>3, <1>6 DEF NoteSource, Becomes, At
    <2> QED BY <1>1, <1>2, <2>1
  <1>7. CASE Receive(p, j)
    <2>1. /\ UNCHANGED <<source, dest, locked, thread>> /\ Len(part[j]) < Size
          /\ part'[j] = Append(part[j], Url(p, j)) /\ thread[p][j].pc = "running"
      BY <1>0, <1>7 DEF Receive, At
    <2>2. /\ Len(part'[j]) = Len(part[j]) + 1 /\ Len(part[j]) \in Nat
          /\ \A n \in 1..Len(part'[j]) : part'[j][n] = IF n = Len(part[j]) + 1 THEN Url(p, j)
                                                                               ELSE part[j][n]
      BY <1>0, <1>3, <2>1
    <2>3. source[j] = Url(p, j)
      BY <1>1, <2>1
    <2>4. PartFits(j)' /\ OneSource(j)'
      BY <1>1, <2>1, <2>2, <2>3, TransferAssumption
    <2> QED BY <1>1, <2>1, <2>4
  <1>8. CASE Publish(p, j)
    <2>1. /\ UNCHANGED <<source, locked>> /\ Len(part[j]) = Size
          /\ part'[j] = <<>> /\ dest'[j] = part[j]
          /\ thread[p][j].pc = "running" /\ thread'[p][j].pc = "unlink"
      BY <1>0, <1>3, <1>8 DEF Publish, At, Becomes
    <2>2. source[j] = Url(p, j)
      BY <1>1, <2>1
    <2>3. Published(j)'
      BY <1>1, <1>3, <2>1, <2>2
    <2> QED BY <1>2, <2>1, <2>3, TransferAssumption
  <1>9. CASE Interrupted(p, j)
    <2>1. /\ UNCHANGED <<part, source, dest>> /\ thread'[p][j].pc = "result"
      BY <1>0, <1>3, <1>9 DEF Interrupted, Ends, Becomes, disk
    <2> QED BY <1>1, <2>1
  <1>10. CASE Refused(p, j)
    <2>1. /\ UNCHANGED <<part, source, dest, locked>> /\ thread'[p][j].pc = "unlink"
      BY <1>0, <1>3, <1>10 DEF Refused, Becomes, disk
    <2> QED BY <1>1, <1>2, <2>1
  <1>11. CASE UnlinkPart(p, j)
    <2>1. /\ UNCHANGED <<source, dest, locked>> /\ part'[j] = <<>>
          /\ thread'[p][j].pc = "unlinked"
      BY <1>0, <1>3, <1>11 DEF UnlinkPart, Becomes
    <2> QED BY <1>1, <1>2, <2>1, TransferAssumption
  <1>12. CASE UnlinkSource(p, j)
    <2>1. /\ UNCHANGED <<part, dest>> /\ thread'[p][j].pc = "result" /\ part[j] = <<>>
      BY <1>0, <1>1, <1>3, <1>12 DEF UnlinkSource, Becomes, At
    <2> QED BY <1>1, <2>1, TransferAssumption
  <1> QED BY <1>5, <1>6, <1>7, <1>8, <1>9, <1>10, <1>11, <1>12

LEMMA FilesLock ==
  ASSUME TransferTypeOK, FilesInv, NEW p \in Procs, NEW j \in Jobs, Lock(p, j)
  PROVE  FilesInv'
  <1>0. /\ locked \in [Jobs -> Procs \cup {Free}] /\ thread \in [Procs -> [Jobs -> Thread]]
    BY DEF TransferTypeOK
  <1>1. DOMAIN thread[p][j] = {"pc", "url", "initial", "result"}
    <2>1. thread[p][j] \in Thread BY <1>0
    <2> QED BY <2>1 DEF Lock, At, Thread, Idle
  <1>2. \A q \in Procs, i \in Jobs : q # p \/ i # j => thread'[q][i] = thread[q][i]
    BY <1>0 DEF Lock, Ends, Becomes
  <1>3. CASE LockFree(j)
    <2>1. /\ locked' = [locked EXCEPT ![j] = p] /\ thread'[p][j].pc = "locked" /\ UNCHANGED disk
      BY <1>0, <1>1, <1>3 DEF Lock, Becomes
    <2>2. \A q \in Procs : thread[q][j].pc \notin Locking
      BY <1>3, FreeAssumption DEF LockFree, FilesInv, OwnerKnows
    <2>3. ASSUME NEW q \in Procs, NEW i \in Jobs PROVE OwnerKnows(q, i)'
      <3>1. OwnerKnows(q, i) BY DEF FilesInv
      <3>2. CASE i # j
        BY <1>0, <1>2, <2>1, <3>1, <3>2 DEF OwnerKnows, disk, Url
      <3>3. CASE i = j /\ q # p
        BY <1>2, <2>2, <3>3 DEF OwnerKnows, Locking
      <3>4. CASE i = j /\ q = p
        BY <1>0, <2>1, <3>4 DEF OwnerKnows, Locking
      <3> QED BY <3>2, <3>3, <3>4
    <2>4. ASSUME NEW i \in Jobs PROVE (PartFits(i) /\ OneSource(i) /\ Published(i))'
      <3>1. PartFits(i) /\ OneSource(i) /\ Published(i) BY DEF FilesInv
      <3> QED BY <2>1, <3>1 DEF PartFits, OneSource, Published, disk, Whole
    <2> QED BY <2>3, <2>4 DEF FilesInv
  <1>4. CASE ~LockFree(j)
    <2>1. UNCHANGED <<disk, locked>> /\ thread'[p][j].pc = "result"
      <3> DEFINE t == [thread[p][j] EXCEPT !.pc = "result", !.result = "error"]
      <3>1. t.pc = "result"
        BY <1>1
      <3>2. thread' = [thread EXCEPT ![p][j] = t] /\ UNCHANGED <<disk, locked>>
        BY <1>4 DEF Lock, Ends, Becomes
      <3> HIDE DEF t
      <3> QED BY <1>0, <3>1, <3>2
    <2> QED BY <1>2, <2>1, FilesUntouched DEF Locking
  <1> QED BY <1>3, <1>4

\* A crash takes the locks of its process with it, and the note only of a part that is empty.
LEMMA FilesCrash ==
  ASSUME TransferTypeOK, FilesInv, NEW p \in Procs, Crash(p)
  PROVE  FilesInv'
  <1>0. /\ locked \in [Jobs -> Procs \cup {Free}] /\ thread \in [Procs -> [Jobs -> Thread]]
        /\ source \in [Jobs -> Urls \cup {NoSource}]
    BY DEF TransferTypeOK
  <1>1. /\ \A i \in Jobs : thread'[p][i] = Idle
        /\ \A q \in Procs \ {p}, i \in Jobs : thread'[q][i] = thread[q][i]
        /\ \A i \in Jobs : locked[i] # p => locked'[i] = locked[i]
        /\ \A i \in Jobs : source'[i] = source[i] \/ thread[p][i].pc = "fresh"
        /\ UNCHANGED <<part, dest>>
    BY <1>0 DEF Crash, Freed
  <1>2. ASSUME NEW q \in Procs, NEW i \in Jobs PROVE OwnerKnows(q, i)'
    <2>1. CASE q = p
      BY <1>1, <2>1 DEF OwnerKnows, Locking, Idle
    <2>2. CASE q # p /\ thread[q][i].pc \in Locking
      <3>1. locked[i] = q /\ thread[p][i].pc \notin Locking /\ OwnerKnows(q, i)
        BY <2>2, OneOwner DEF FilesInv
      <3> QED BY <1>1, <2>2, <3>1 DEF OwnerKnows, Locking, Url
    <2>3. CASE q # p /\ thread[q][i].pc \notin Locking
      BY <1>1, <2>3 DEF OwnerKnows, Locking
    <2> QED BY <2>1, <2>2, <2>3
  <1>3. ASSUME NEW i \in Jobs PROVE (PartFits(i) /\ OneSource(i) /\ Published(i))'
    <2>1. PartFits(i) /\ OneSource(i) /\ Published(i) /\ OwnerKnows(p, i) BY DEF FilesInv
    <2>2. OneSource(i)'
      <3>1. CASE source'[i] = source[i]
        BY <1>1, <2>1, <3>1 DEF OneSource
      <3>2. CASE thread[p][i].pc = "fresh"
        BY <1>1, <2>1, <3>2 DEF OneSource, OwnerKnows
      <3> QED BY <1>1, <3>1, <3>2
    <2> QED BY <1>1, <2>1, <2>2 DEF PartFits, Published, Whole
  <1> QED BY <1>2, <1>3 DEF FilesInv

LEMMA FilesStep == TransferInv /\ [Next]_vars => FilesInv'
  <1> SUFFICES ASSUME TransferTypeOK, FilesInv, [Next]_vars PROVE FilesInv'
    BY DEF TransferInv
  <1>0. thread \in [Procs -> [Jobs -> Thread]]
    BY DEF TransferTypeOK
  <1>1. ASSUME NEW p \in Procs, NEW j \in Jobs,
               \/ Schedule(p, j) \/ Claim(p, j) \/ ClaimWaits(p, j)
               \/ Book(p, j) \/ BookingLost(p, j)
        PROVE  FilesInv'
    <2>1. \E t : t.pc \notin Locking /\ thread' = [thread EXCEPT ![p][j] = t]
      BY <1>1 DEF Schedule, Claim, Claimed, Leaves, Starts, ClaimWaits, Book, BookingLost,
                  Becomes, Idle, Locking
    <2>2. UNCHANGED <<disk, locked>>
      BY <1>1 DEF Schedule, Claim, ClaimWaits, Book, BookingLost
    <2>3. \A q \in Procs, i \in Jobs : \/ thread'[q][i] = thread[q][i]
                                       \/ thread'[q][i].pc \notin Locking
      BY <1>0, <2>1
    <2> QED BY <2>2, <2>3, FilesUntouched
  <1>2. ASSUME NEW p \in Procs, RefreshLimit(p) \/ Start(p) PROVE FilesInv'
    BY <1>2, FilesUntouched DEF RefreshLimit, Start
  <1>3. ASSUME NEW j \in Jobs, CompleteExisting(j) \/ RecoverStale(j) \/ AddressMoves(j)
        PROVE  FilesInv'
    BY <1>3, FilesUntouched DEF CompleteExisting, RecoverStale, AddressMoves
  <1>4. CASE UNCHANGED vars
    BY <1>4, FilesUntouched DEF vars
  <1> QED BY <1>1, <1>2, <1>3, <1>4, FilesTransfer, FilesLock, FilesCrash DEF Next, TransferNext

--------------------------------------------------------------------------------
\* Attempts.

\* A thread that is through with the transfer has a result.
ResultKnown(p, j) ==
  thread[p][j].pc \in {"unlink", "unlinked", "result"} => thread[p][j].result # "none"

\* An attempt is spent by a claim whose transfer has not ended, or by an end that counts.
Excused(j) == fruitless[j] + Cardinality(Holders(j))
Earned(j) == status[j] \in Open => attempts[j] <= Excused(j)

EarnedInv ==
  /\ \A p \in Procs, j \in Jobs : ResultKnown(p, j)
  /\ \A j \in Jobs : Earned(j)

LEMMA HoldersFinite ==
  \A j \in Jobs : IsFiniteSet(Holders(j)) /\ Cardinality(Holders(j)) \in Nat
  <1> SUFFICES ASSUME NEW j \in Jobs
               PROVE  IsFiniteSet(Holders(j)) /\ Cardinality(Holders(j)) \in Nat
    OBVIOUS
  <1>1. Holders(j) \subseteq Procs
    BY DEF Holders
  <1>2. IsFiniteSet(Holders(j))
    BY <1>1, TransferAssumption, FS_Subset
  <1> QED BY <1>2, FS_CardinalityType

\* One thread changes: only its own claim comes or goes.
LEMMA HoldersMove ==
  ASSUME NEW p \in Procs, NEW j \in Jobs,
         \A q \in Procs, i \in Jobs : q # p \/ i # j => thread'[q][i] = thread[q][i]
  PROVE  /\ \A i \in Jobs \ {j} : Holders(i)' = Holders(i)
         /\ (Holds(p, j) <=> Holds(p, j)') => Holders(j)' = Holders(j)
         /\ Holds(p, j) /\ ~Holds(p, j)' => Cardinality(Holders(j)) = Cardinality(Holders(j)') + 1
         /\ ~Holds(p, j) /\ Holds(p, j)' => Cardinality(Holders(j)') = Cardinality(Holders(j)) + 1
  <1>1. \A q \in Procs, i \in Jobs : q # p \/ i # j => (Holds(q, i)' <=> Holds(q, i))
    BY DEF Holds, Claims
  <1>2. \A i \in Jobs \ {j} : Holders(i)' = Holders(i)
    BY <1>1 DEF Holders
  <1>3. (Holds(p, j) <=> Holds(p, j)') => Holders(j)' = Holders(j)
    BY <1>1 DEF Holders
  <1>4. ASSUME Holds(p, j), ~Holds(p, j)'
        PROVE  Cardinality(Holders(j)) = Cardinality(Holders(j)') + 1
    <2>1. PICK H : H = Holders(j)' OBVIOUS
    <2>2. Holders(j) = H \cup {p} /\ p \notin H /\ H \subseteq Procs
      BY <1>1, <1>4, <2>1 DEF Holders
    <2>3. IsFiniteSet(H)
      BY <2>2, TransferAssumption, FS_Subset
    <2> QED BY <2>1, <2>2, <2>3, FS_AddElement
  <1>5. ASSUME ~Holds(p, j), Holds(p, j)'
        PROVE  Cardinality(Holders(j)') = Cardinality(Holders(j)) + 1
    <2>1. PICK H : H = Holders(j)' OBVIOUS
    <2>2. H = Holders(j) \cup {p} /\ p \notin Holders(j)
      BY <1>1, <1>5, <2>1 DEF Holders
    <2> QED BY <2>1, <2>2, HoldersFinite, FS_AddElement
  <1> QED BY <1>2, <1>3, <1>4, <1>5

LEMMA Moved ==
  ASSUME TransferTypeOK, NEW p \in Procs, NEW j \in Jobs, NEW t, Becomes(p, j, t)
  PROVE  /\ thread'[p][j] = t
         /\ \A q \in Procs, i \in Jobs : q # p \/ i # j => thread'[q][i] = thread[q][i]
  <1>1. thread \in [Procs -> [Jobs -> Thread]] /\ thread' = [thread EXCEPT ![p][j] = t]
    BY DEF TransferTypeOK, Becomes
  <1> HIDE DEF Thread
  <1> QED BY <1>1

\* A step of one thread for job j.
LEMMA EarnedByThread ==
  ASSUME TransferTypeOK, EarnedInv, NEW p \in Procs, NEW j \in Jobs,
         \A q \in Procs, i \in Jobs : q # p \/ i # j => thread'[q][i] = thread[q][i],
         \A i \in Jobs \ {j} : /\ status'[i] = status[i] /\ attempts'[i] = attempts[i]
                               /\ fruitless'[i] = fruitless[i],
         ResultKnown(p, j)', Earned(j)'
  PROVE  EarnedInv'
  <1>1. ASSUME NEW q \in Procs, NEW i \in Jobs PROVE ResultKnown(q, i)'
    <2>1. ResultKnown(q, i) BY DEF EarnedInv
    <2> QED BY <2>1 DEF ResultKnown
  <1>2. ASSUME NEW i \in Jobs PROVE Earned(i)'
    <2>1. CASE i # j
      <3>1. Earned(i) BY DEF EarnedInv
      <3>2. Holders(i)' = Holders(i) BY <2>1, HoldersMove
      <3> QED BY <2>1, <3>1, <3>2 DEF Earned, Excused
    <2> QED BY <2>1
  <1> QED BY <1>1, <1>2 DEF EarnedInv

\* The claim is kept, or its end is counted.
LEMMA EarnedTransfer ==
  ASSUME TransferTypeOK, EarnedInv, NEW p \in Procs, NEW j \in Jobs,
         \A q \in Procs, i \in Jobs : q # p \/ i # j => thread'[q][i] = thread[q][i],
         UNCHANGED attempts, status'[j] \in Open => status[j] \in Open,
         \A i \in Jobs \ {j} : status'[i] = status[i] /\ fruitless'[i] = fruitless[i],
         \/ fruitless'[j] = fruitless[j] /\ (Holds(p, j) => Holds(p, j)')
         \/ fruitless'[j] = fruitless[j] + 1,
         ResultKnown(p, j)'
  PROVE  EarnedInv'
  <1>1. Earned(j)'
    <2> SUFFICES ASSUME status'[j] \in Open PROVE attempts'[j] <= Excused(j)'
      BY DEF Earned
    <2> DEFINE c == Cardinality(Holders(j)) d == Cardinality(Holders(j)')
    <2>1. attempts[j] \in Nat /\ fruitless[j] \in Nat /\ fruitless'[j] \in Nat
      BY TransferAssumption DEF TransferTypeOK
    <2>2. c \in Nat /\ d \in Nat
      <3>1. PICK H : H = Holders(j)' OBVIOUS
      <3>2. H \subseteq Procs BY <3>1 DEF Holders
      <3>3. Cardinality(H) \in Nat
        BY <3>2, TransferAssumption, FS_Subset, FS_CardinalityType
      <3> QED BY <3>1, <3>3, HoldersFinite
    <2>3. /\ (Holds(p, j) <=> Holds(p, j)') => d = c
          /\ Holds(p, j) /\ ~Holds(p, j)' => c = d + 1
          /\ ~Holds(p, j) /\ Holds(p, j)' => d = c + 1
      BY HoldersMove
    <2>4. attempts[j] <= fruitless[j] + c
      BY DEF EarnedInv, Earned, Excused
    <2> HIDE DEF c, d
    <2>5. attempts'[j] <= fruitless'[j] + d
      BY <2>1, <2>2, <2>3, <2>4
    <2> QED BY <2>5 DEF c, d, Excused
  <1> QED BY <1>1, EarnedByThread

LEMMA HoldsIs ==
  \A p \in Procs, j \in Jobs :
    Holds(p, j) <=> (thread[p][j].pc \notin {"idle", "pending"} /\ thread[p][j].result # "error")
  BY DEF Holds, Claims

LEMMA EarnedPool ==
  ASSUME TransferTypeOK, EarnedInv, NEW p \in Procs, NEW j \in Jobs,
         Schedule(p, j) \/ ClaimWaits(p, j)
  PROVE  EarnedInv'
  <1>1. PICK t \in {Idle, [pc |-> "pending"]} : Becomes(p, j, t)
    BY DEF Schedule, ClaimWaits
  <1>2. t.pc \in {"idle", "pending"}
    BY DEF Idle
  <1>3. /\ thread'[p][j] = t
        /\ \A q \in Procs, i \in Jobs : q # p \/ i # j => thread'[q][i] = thread[q][i]
    BY <1>1, Moved
  <1>4. ~Holds(p, j)
    BY DEF Schedule, ClaimWaits, At, Idle, Holds, Claims
  <1>5. ResultKnown(p, j)'
    BY <1>2, <1>3 DEF ResultKnown
  <1>6. /\ UNCHANGED <<attempts, fruitless>> /\ \A i \in Jobs \ {j} : status'[i] = status[i]
        /\ status'[j] \in Open => status[j] \in Open
    BY DEF Schedule, ClaimWaits, row, TransferTypeOK, Open
  <1> QED BY <1>3, <1>4, <1>5, <1>6, EarnedTransfer

\* A thread record after one of its fields, or two, are set.
LEMMA ThreadSet ==
  ASSUME NEW t \in Thread, t.pc \notin {"idle", "pending"}
  PROVE  /\ \A pc : [t EXCEPT !.pc = pc].pc = pc /\ [t EXCEPT !.pc = pc].result = t.result
         /\ \A pc, n : LET u == [t EXCEPT !.pc = pc, !.initial = n]
                      IN  u.pc = pc /\ u.result = t.result
         /\ \A pc, r : LET u == [t EXCEPT !.pc = pc, !.result = r]
                      IN  u.pc = pc /\ u.result = r
  <1>1. t \in [pc : {"claimed", "locked", "fresh", "running", "unlink", "unlinked", "result"},
               url : Urls, initial : 0..Size, result : {"none", "ok", "progress", "error"}]
    BY DEF Thread, Idle
  <1> QED BY <1>1

LEMMA EarnedMoves ==
  ASSUME TransferTypeOK, EarnedInv, NEW p \in Procs, NEW j \in Jobs,
         \/ Lock(p, j) \/ CheckSource(p, j) \/ NoteSource(p, j)
         \/ Receive(p, j) \/ Publish(p, j) \/ Interrupted(p, j) \/ Refused(p, j)
         \/ UnlinkPart(p, j) \/ UnlinkSource(p, j)
  PROVE  EarnedInv'
  <1> DEFINE t == thread[p][j]
  <1>0. t \in Thread /\ t.pc \notin {"idle", "pending"} /\ ResultKnown(p, j)
        /\ fruitless \in [Jobs -> Nat]
    <2>1. t \in Thread /\ fruitless \in [Jobs -> Nat] BY DEF TransferTypeOK
    <2>2. t.pc \notin {"idle", "pending"}
      BY DEF Lock, CheckSource, NoteSource, Receive, Publish, Interrupted, Refused,
             UnlinkPart, UnlinkSource, At
    <2> QED BY <2>1, <2>2 DEF EarnedInv
  <1>1. UNCHANGED <<status, attempts>>
        /\ (fruitless' = fruitless \/ fruitless' = [fruitless EXCEPT ![j] = @ + 1])
    BY DEF Lock, CheckSource, NoteSource, Receive, Publish, Interrupted, Refused,
           UnlinkPart, UnlinkSource, Ends, row
  <1>3. CASE UNCHANGED <<thread, fruitless>>
    <2>1. (Holds(p, j) <=> Holds(p, j)') /\ ResultKnown(p, j)'
      BY <1>0, <1>3 DEF Holds, Claims, ResultKnown
    <2>2. \A q \in Procs, i \in Jobs : thread'[q][i] = thread[q][i]
      BY <1>3
    <2> QED BY <1>1, <1>3, <2>1, <2>2, EarnedTransfer
  <1>4. ASSUME NEW u, Becomes(p, j, u), u.pc \notin {"idle", "pending"},
               u.pc \in {"unlink", "unlinked", "result"} => u.result # "none",
               \/ UNCHANGED fruitless /\ u.result = t.result
               \/ UNCHANGED fruitless /\ u.result # "error"
               \/ fruitless' = [fruitless EXCEPT ![j] = @ + 1]
        PROVE  EarnedInv'
    <2>1. /\ thread'[p][j] = u
          /\ \A q \in Procs, i \in Jobs : q # p \/ i # j => thread'[q][i] = thread[q][i]
      BY <1>4, Moved
    <2>2. ResultKnown(p, j)'
      BY <1>4, <2>1 DEF ResultKnown
    <2>3. /\ \A i \in Jobs \ {j} : fruitless'[i] = fruitless[i]
          /\ \/ fruitless'[j] = fruitless[j] /\ (Holds(p, j) => Holds(p, j)')
             \/ fruitless'[j] = fruitless[j] + 1
      <3>1. CASE UNCHANGED fruitless
        <4>1. CASE u.result = t.result \/ u.result # "error"
          <5>1. Holds(p, j) => Holds(p, j)'
            BY <1>4, <2>1, <4>1 DEF Holds, Claims
          <5> QED BY <3>1, <5>1
        <4>2. CASE fruitless' = [fruitless EXCEPT ![j] = @ + 1]
          BY <1>0, <4>2
        <4> QED BY <1>4, <4>1, <4>2
      <3>2. CASE fruitless' = [fruitless EXCEPT ![j] = @ + 1]
        BY <1>0, <3>2
      <3> QED BY <1>4, <3>1, <3>2
    <2> QED BY <1>1, <2>1, <2>2, <2>3, EarnedTransfer
  <1>5. ASSUME NEW pc, Becomes(p, j, [t EXCEPT !.pc = pc]), UNCHANGED fruitless,
               pc \notin {"idle", "pending"},
               pc \in {"unlink", "unlinked", "result"} => t.pc \in {"unlink", "unlinked", "result"}
        PROVE  EarnedInv'
    <2>1. PICK u : u = [t EXCEPT !.pc = pc] OBVIOUS
    <2>2. u.pc = pc /\ u.result = t.result
      BY <1>0, <2>1, ThreadSet
    <2>3. u.pc \in {"unlink", "unlinked", "result"} => u.result # "none"
      BY <1>0, <1>5, <2>2 DEF ResultKnown
    <2> HIDE DEF t
    <2> QED BY <1>4, <1>5, <2>1, <2>2, <2>3
  <1>6. ASSUME NEW n, Becomes(p, j, [t EXCEPT !.pc = "running", !.initial = n]),
               UNCHANGED fruitless
        PROVE  EarnedInv'
    <2>1. PICK u : u = [t EXCEPT !.pc = "running", !.initial = n] OBVIOUS
    <2>2. u.pc = "running" /\ u.result = t.result
      BY <1>0, <2>1, ThreadSet
    <2> HIDE DEF t
    <2> QED BY <1>4, <1>6, <2>1, <2>2
  <1>7. ASSUME NEW pc \in {"unlink", "result"}, NEW r \in {"ok", "progress", "error"},
               Becomes(p, j, [t EXCEPT !.pc = pc, !.result = r]),
               IF r = "error" THEN fruitless' = [fruitless EXCEPT ![j] = @ + 1]
                              ELSE UNCHANGED fruitless
        PROVE  EarnedInv'
    <2>1. PICK u : u = [t EXCEPT !.pc = pc, !.result = r] OBVIOUS
    <2>2. u.pc = pc /\ u.result = r
      BY <1>0, <2>1, ThreadSet
    <2> HIDE DEF t
    <2> QED BY <1>4, <1>7, <2>1, <2>2
  <1>8. CASE Lock(p, j)
    <2>1. CASE LockFree(j)
      <3>1. Becomes(p, j, [t EXCEPT !.pc = "locked"]) /\ UNCHANGED fruitless
        BY <1>8, <2>1 DEF Lock
      <3> HIDE DEF t
      <3> QED BY <1>5, <3>1
    <2>2. CASE ~LockFree(j)
      <3>1. /\ Becomes(p, j, [t EXCEPT !.pc = "result", !.result = "error"])
            /\ fruitless' = [fruitless EXCEPT ![j] = @ + 1]
        BY <1>8, <2>2 DEF Lock, Ends
      <3> HIDE DEF t
      <3> QED BY <1>7, <3>1
    <2> QED BY <2>1, <2>2
  <1>9. CASE CheckSource(p, j)
    <2>1. CASE Resumable(p, j)
      <3>1. /\ Becomes(p, j, [t EXCEPT !.pc = "running", !.initial = Len(part[j])])
            /\ UNCHANGED fruitless
        BY <1>9, <2>1 DEF CheckSource
      <3> HIDE DEF t
      <3> QED BY <1>6, <3>1
    <2>2. CASE ~Resumable(p, j)
      <3>1. Becomes(p, j, [t EXCEPT !.pc = "fresh"]) /\ UNCHANGED fruitless
        BY <1>9, <2>2 DEF CheckSource
      <3> HIDE DEF t
      <3> QED BY <1>5, <3>1
    <2> QED BY <2>1, <2>2
  <1>10. CASE NoteSource(p, j)
    <2>1. Becomes(p, j, [t EXCEPT !.pc = "running"]) /\ UNCHANGED fruitless
      BY <1>10 DEF NoteSource
    <2> HIDE DEF t
    <2> QED BY <1>5, <2>1
  <1>11. CASE Receive(p, j)
    BY <1>3, <1>11 DEF Receive
  <1>12. CASE Publish(p, j)
    <2>1. Becomes(p, j, [t EXCEPT !.pc = "unlink", !.result = "ok"]) /\ UNCHANGED fruitless
      BY <1>12 DEF Publish
    <2> HIDE DEF t
    <2> QED BY <1>7, <2>1
  <1>13. CASE Interrupted(p, j)
    <2>1. CASE Grown(p, j)
      <3>1. Becomes(p, j, [t EXCEPT !.pc = "result", !.result = "progress"]) /\ UNCHANGED fruitless
        BY <1>13, <2>1 DEF Interrupted, Ends
      <3> HIDE DEF t
      <3> QED BY <1>7, <3>1
    <2>2. CASE ~Grown(p, j)
      <3>1. /\ Becomes(p, j, [t EXCEPT !.pc = "result", !.result = "error"])
            /\ fruitless' = [fruitless EXCEPT ![j] = @ + 1]
        BY <1>13, <2>2 DEF Interrupted, Ends
      <3> HIDE DEF t
      <3> QED BY <1>7, <3>1
    <2> QED BY <2>1, <2>2
  <1>14. CASE Refused(p, j)
    <2>1. /\ Becomes(p, j, [t EXCEPT !.pc = "unlink", !.result = "error"])
          /\ fruitless' = [fruitless EXCEPT ![j] = @ + 1]
      BY <1>14 DEF Refused
    <2> HIDE DEF t
    <2> QED BY <1>7, <2>1
  <1>15. CASE UnlinkPart(p, j)
    <2>1. /\ Becomes(p, j, [t EXCEPT !.pc = "unlinked"]) /\ UNCHANGED fruitless
          /\ t.pc = "unlink"
      BY <1>15 DEF UnlinkPart, At
    <2> HIDE DEF t
    <2> QED BY <1>5, <2>1
  <1>16. CASE UnlinkSource(p, j)
    <2>1. /\ Becomes(p, j, [t EXCEPT !.pc = "result"]) /\ UNCHANGED fruitless
          /\ t.pc = "unlinked"
      BY <1>16 DEF UnlinkSource, At
    <2> HIDE DEF t
    <2> QED BY <1>5, <2>1
  <1> QED BY <1>8, <1>9, <1>10, <1>11, <1>12, <1>13, <1>14, <1>15, <1>16

LEMMA EarnedClaim ==
  ASSUME TransferTypeOK, EarnedInv, NEW p \in Procs, NEW j \in Jobs, Claim(p, j)
  PROVE  EarnedInv'
  <1> DEFINE c == Claimed(p, j)
  <1>1. /\ thread'[p][j] = c.thread
        /\ \A q \in Procs, i \in Jobs : q # p \/ i # j => thread'[q][i] = thread[q][i]
    BY Moved DEF Claim
  <1>2. /\ status' = [status EXCEPT ![j] = c.status] /\ UNCHANGED fruitless
        /\ attempts' = [attempts EXCEPT ![j] = c.attempts]
        /\ status \in [Jobs -> Open \cup {"completed", "download_failed"}]
        /\ attempts \in [Jobs -> 0..MaxAttempts] /\ fruitless \in [Jobs -> Nat]
    BY DEF Claim, TransferTypeOK
  <1>3. ~Holds(p, j)
    BY DEF Claim, At, Holds, Claims
  <1>4. CASE c = Starts(p, j) /\ status[j] \in Claimable
    <2>1. /\ thread'[p][j].pc = "claimed" /\ thread'[p][j].result = "none"
          /\ attempts'[j] = attempts[j] + 1
      <3>1. c.attempts = attempts[j] + 1 /\ c.thread.pc = "claimed" /\ c.thread.result = "none"
        BY <1>4 DEF Starts
      <3> HIDE DEF c
      <3> QED BY <1>1, <1>2, <3>1
    <2>2. Holds(p, j)' /\ ResultKnown(p, j)'
      BY <2>1 DEF Holds, Claims, ResultKnown
    <2>3. Cardinality(Holders(j)') = Cardinality(Holders(j)) + 1
      BY <1>1, <1>3, <2>2, HoldersMove
    <2>4. attempts[j] <= fruitless[j] + Cardinality(Holders(j))
      BY <1>4 DEF EarnedInv, Earned, Excused, Open
    <2>5. attempts'[j] <= fruitless'[j] + Cardinality(Holders(j)')
      <3>1. attempts[j] \in Nat /\ fruitless[j] \in Nat /\ Cardinality(Holders(j)) \in Nat
        BY <1>2, HoldersFinite, TransferAssumption
      <3> QED BY <1>2, <2>1, <2>3, <2>4, <3>1
    <2>6. Earned(j)'
      BY <2>5 DEF Earned, Excused
    <2> QED BY <1>1, <1>2, <2>2, <2>6, EarnedByThread
  <1>5. CASE \E s : c = Leaves(p, j, s) /\ (s \in Open => s = status[j])
    <2>1. PICK s : c = Leaves(p, j, s) /\ (s \in Open => s = status[j])
      BY <1>5
    <2>2. c.status = s /\ c.attempts = attempts[j] /\ c.thread = Idle
      BY <2>1 DEF Leaves
    <2> HIDE DEF c
    <2>3. /\ thread'[p][j] = Idle /\ status'[j] = s /\ attempts' = attempts
          /\ \A i \in Jobs \ {j} : status'[i] = status[i]
      BY <1>1, <1>2, <2>2
    <2>4. ResultKnown(p, j)'
      BY <2>3 DEF ResultKnown, Idle
    <2> QED BY <1>1, <1>2, <1>3, <2>1, <2>3, <2>4, EarnedTransfer
  <1>6. \/ c = Starts(p, j) /\ status[j] \in Claimable
        \/ \E s : c = Leaves(p, j, s) /\ (s \in Open => s = status[j])
    <2>1. "completed" \notin Open /\ "download_failed" \notin Open
      BY DEF Open, Claimable
    <2>2. \/ c = Starts(p, j) /\ status[j] \in Claimable
          \/ c = Leaves(p, j, status[j])
          \/ c = Leaves(p, j, "completed") \/ c = Leaves(p, j, "download_failed")
      BY DEF Claimed
    <2> QED BY <2>1, <2>2
  <1> QED BY <1>4, <1>5, <1>6

\* A result with progress gives its attempt back, a fruitless one was counted when it ended,
\* a lost one counts now.
LEMMA EarnedBooking ==
  ASSUME TransferTypeOK, EarnedInv, NEW p \in Procs, NEW j \in Jobs,
         Book(p, j) \/ BookingLost(p, j)
  PROVE  EarnedInv'
  <1>0. /\ status \in [Jobs -> Open \cup {"completed", "download_failed"}]
        /\ attempts \in [Jobs -> 0..MaxAttempts] /\ fruitless \in [Jobs -> Nat]
        /\ thread[p][j] \in Thread /\ attempts[j] \in Nat /\ fruitless[j] \in Nat
    BY TransferAssumption DEF TransferTypeOK
  <1>1. /\ thread'[p][j] = Idle
        /\ \A q \in Procs, i \in Jobs : q # p \/ i # j => thread'[q][i] = thread[q][i]
    BY Moved DEF Book, BookingLost
  <1>2. thread[p][j].pc = "result" /\ thread[p][j].result \in {"ok", "progress", "error"}
    <2>1. ResultKnown(p, j) /\ thread[p][j].pc = "result"
      BY DEF EarnedInv, Book, BookingLost, At
    <2> QED BY <1>0, <2>1 DEF ResultKnown, Thread, Idle
  <1>3. ResultKnown(p, j)' /\ ~Holds(p, j)'
    BY <1>1 DEF ResultKnown, Idle, Holds, Claims
  <1>4. Holds(p, j) <=> thread[p][j].result # "error"
    BY <1>2 DEF Holds, Claims
  <1> DEFINE c == Cardinality(Holders(j)) d == Cardinality(Holders(j)')
  <1>5. /\ Holds(p, j) => c = d + 1
        /\ ~Holds(p, j) => d = c
    BY <1>1, <1>3, HoldersMove
  <1>6. c \in Nat /\ d \in Nat
    <2>1. PICK H : H = Holders(j)' OBVIOUS
    <2>2. H \subseteq Procs BY <2>1 DEF Holders
    <2>3. Cardinality(H) \in Nat
      BY <2>2, TransferAssumption, FS_Subset, FS_CardinalityType
    <2> QED BY <2>1, <2>3, HoldersFinite
  <1>7. status[j] \in Open => attempts[j] <= fruitless[j] + c
    BY DEF EarnedInv, Earned, Excused
  <1> HIDE DEF c, d
  <1>8. CASE BookingLost(p, j)
    <2>1. UNCHANGED <<status, attempts>> /\ fruitless' = [fruitless EXCEPT ![j] = Counted(p, j)]
      BY <1>8 DEF BookingLost, row
    <2>2. fruitless'[j] = Counted(p, j) /\ \A i \in Jobs \ {j} : fruitless'[i] = fruitless[i]
      BY <1>0, <2>1
    <2>3. fruitless'[j] + d = fruitless[j] + c
      BY <1>0, <1>5, <1>6, <2>2 DEF Counted
    <2>4. Earned(j)'
      BY <1>7, <2>1, <2>3 DEF Earned, Excused, d
    <2> QED BY <1>1, <1>3, <2>1, <2>2, <2>4, EarnedByThread
  <1>9. CASE Book(p, j)
    <2>1. /\ UNCHANGED fruitless
          /\ \A i \in Jobs \ {j} : status'[i] = status[i] /\ attempts'[i] = attempts[i]
      BY <1>0, <1>9 DEF Book
    <2>2. ASSUME status'[j] \in Open
          PROVE  /\ status[j] \in Open
                 /\ \/ thread[p][j].result = "progress" /\ attempts'[j] = GivenBack(attempts[j])
                    \/ thread[p][j].result = "error" /\ attempts'[j] = attempts[j]
      <3>1. status[j] \in Open
        BY <1>0, <1>9, <2>2 DEF Book
      <3>2. status'[j] = Booked(p, j)[1] /\ attempts'[j] = Booked(p, j)[2]
        BY <1>0, <1>9, <3>1 DEF Book
      <3>3. "completed" \notin Open
        BY DEF Open, Claimable
      <3>4. CASE thread[p][j].result = "ok"
        BY <2>2, <3>2, <3>3, <3>4 DEF Booked
      <3>5. CASE thread[p][j].result = "progress"
        BY <3>1, <3>2, <3>5 DEF Booked
      <3>6. CASE thread[p][j].result = "error"
        BY <3>1, <3>2, <3>6 DEF Booked
      <3> QED BY <1>2, <3>4, <3>5, <3>6
    <2>3. ASSUME status'[j] \in Open PROVE attempts'[j] <= fruitless[j] + d
      <3>1. CASE thread[p][j].result = "progress" /\ attempts'[j] = GivenBack(attempts[j])
        BY <1>0, <1>4, <1>5, <1>6, <1>7, <2>2, <2>3, <3>1 DEF GivenBack
      <3>2. CASE thread[p][j].result = "error" /\ attempts'[j] = attempts[j]
        BY <1>0, <1>4, <1>5, <1>6, <1>7, <2>2, <2>3, <3>2
      <3> QED BY <2>2, <2>3, <3>1, <3>2
    <2>4. Earned(j)'
      BY <2>1, <2>3 DEF Earned, Excused, d
    <2> QED BY <1>1, <1>3, <2>1, <2>4, EarnedByThread
  <1> QED BY <1>8, <1>9

LEMMA EarnedCrash ==
  ASSUME TransferTypeOK, EarnedInv, NEW p \in Procs, Crash(p)
  PROVE  EarnedInv'
  <1>1. /\ \A i \in Jobs : thread'[p][i] = Idle /\ fruitless'[i] = Counted(p, i)
        /\ \A q \in Procs \ {p}, i \in Jobs : thread'[q][i] = thread[q][i]
        /\ UNCHANGED <<status, attempts>> /\ fruitless \in [Jobs -> Nat]
        /\ attempts \in [Jobs -> 0..MaxAttempts]
    BY DEF Crash, TransferTypeOK, row
  <1>2. ASSUME NEW q \in Procs, NEW i \in Jobs PROVE ResultKnown(q, i)'
    <2>1. ResultKnown(q, i) BY DEF EarnedInv
    <2> QED BY <1>1, <2>1 DEF ResultKnown, Idle
  <1>3. ASSUME NEW i \in Jobs, status[i] \in Open
        PROVE  attempts[i] <= fruitless'[i] + Cardinality(Holders(i)')
    <2>1. PICK H : H = Holders(i)' OBVIOUS
    <2>2. \A q \in Procs : Holds(q, i)' <=> (q # p /\ Holds(q, i))
      BY <1>1 DEF Holds, Claims, Idle
    <2>3. H \subseteq Procs /\ p \notin H /\ (Holds(p, i) => Holders(i) = H \cup {p})
          /\ (~Holds(p, i) => Holders(i) = H)
      BY <2>1, <2>2 DEF Holders
    <2>4. IsFiniteSet(H) /\ Cardinality(H) \in Nat
      BY <2>3, TransferAssumption, FS_Subset, FS_CardinalityType
    <2>5. /\ Holds(p, i) => Cardinality(Holders(i)) = Cardinality(H) + 1
          /\ ~Holds(p, i) => Cardinality(Holders(i)) = Cardinality(H)
      BY <2>3, <2>4, FS_AddElement
    <2>6. attempts[i] <= fruitless[i] + Cardinality(Holders(i))
      BY <1>3 DEF EarnedInv, Earned, Excused
    <2>7. fruitless'[i] = Counted(p, i) /\ fruitless[i] \in Nat /\ attempts[i] \in Nat
      BY <1>1, TransferAssumption
    <2>8. attempts[i] <= fruitless'[i] + Cardinality(H)
      BY <2>4, <2>5, <2>6, <2>7 DEF Counted
    <2> QED BY <2>1, <2>8
  <1> QED BY <1>1, <1>2, <1>3 DEF EarnedInv, Earned, Excused

\* The rest moves no thread: an open job keeps its attempts or gets one back.
LEMMA EarnedRest ==
  ASSUME TransferTypeOK, EarnedInv,
         \/ \E p \in Procs : RefreshLimit(p) \/ Start(p)
         \/ \E j \in Jobs : CompleteExisting(j) \/ RecoverStale(j) \/ AddressMoves(j)
         \/ UNCHANGED vars
  PROVE  EarnedInv'
  <1>1. UNCHANGED <<thread, fruitless>>
    BY DEF RefreshLimit, Start, CompleteExisting, RecoverStale, AddressMoves, vars
  <1>2. \A j \in Jobs : Holders(j)' = Holders(j)
    BY <1>1 DEF Holders, Holds, Claims
  <1>3. ASSUME NEW j \in Jobs, status'[j] \in Open
        PROVE  status[j] \in Open /\ (attempts'[j] = attempts[j] \/ attempts'[j] = GivenBack(attempts[j]))
    <2>1. "completed" \notin Open /\ "remote_completed" \in Open /\ "downloading" \in Open
      BY DEF Open, Claimable
    <2>2. status \in [Jobs -> Open \cup {"completed", "download_failed"}]
          /\ attempts \in [Jobs -> 0..MaxAttempts]
      BY DEF TransferTypeOK
    <2> QED BY <1>3, <2>1, <2>2
            DEF RefreshLimit, Start, CompleteExisting, RecoverStale, AddressMoves, vars, row
  <1>4. ASSUME NEW j \in Jobs, status'[j] \in Open
        PROVE  attempts'[j] <= fruitless[j] + Cardinality(Holders(j))
    <2>1. attempts[j] <= fruitless[j] + Cardinality(Holders(j))
      BY <1>3, <1>4 DEF EarnedInv, Earned, Excused
    <2>2. attempts[j] \in Nat /\ fruitless[j] \in Nat /\ Cardinality(Holders(j)) \in Nat
      BY HoldersFinite, TransferAssumption DEF TransferTypeOK
    <2> QED BY <1>3, <1>4, <2>1, <2>2 DEF GivenBack
  <1>5. \A j \in Jobs : Earned(j)'
    BY <1>1, <1>2, <1>4 DEF Earned, Excused
  <1>6. \A q \in Procs, i \in Jobs : ResultKnown(q, i)'
    BY <1>1 DEF EarnedInv, ResultKnown
  <1> QED BY <1>5, <1>6 DEF EarnedInv

LEMMA EarnedInit == Init => EarnedInv
  <1> SUFFICES ASSUME Init PROVE EarnedInv OBVIOUS
  <1>1. \A p \in Procs, j \in Jobs : ResultKnown(p, j)
    BY DEF Init, ResultKnown, Idle
  <1>2. ASSUME NEW j \in Jobs PROVE Earned(j)
    <2>1. attempts[j] = 0 /\ fruitless[j] = 0 /\ Cardinality(Holders(j)) \in Nat
      BY HoldersFinite DEF Init
    <2> QED BY <2>1 DEF Earned, Excused
  <1> QED BY <1>1, <1>2 DEF EarnedInv

LEMMA EarnedStep == TransferInv /\ EarnedInv /\ [Next]_vars => EarnedInv'
  BY EarnedPool, EarnedClaim, EarnedMoves, EarnedBooking, EarnedCrash, EarnedRest
     DEF Next, TransferNext, TransferInv

\* A download becomes failed in a claim that finds the attempts spent, or in the booking of
\* a fruitless transfer.
LEMMA EarnedFailure ==
  ASSUME TransferTypeOK, EarnedInv, [Next]_vars, NEW j \in Jobs,
         status[j] # "download_failed", status'[j] = "download_failed"
  PROVE  Excused(j) >= MaxAttempts
  <1>0. /\ status \in [Jobs -> Open \cup {"completed", "download_failed"}]
        /\ attempts[j] \in Nat /\ fruitless[j] \in Nat /\ Cardinality(Holders(j)) \in Nat
    BY HoldersFinite, TransferAssumption DEF TransferTypeOK
  <1> SUFFICES status[j] \in Open /\ attempts[j] >= MaxAttempts
    BY <1>0, TransferAssumption DEF EarnedInv, Earned, Excused
  <1>1. ASSUME NEW p \in Procs, NEW i \in Jobs, Claim(p, i)
        PROVE  status[j] \in Open /\ attempts[j] >= MaxAttempts
    <2>1. status' = [status EXCEPT ![i] = Claimed(p, i).status]
      BY <1>1 DEF Claim
    <2>2. i = j /\ Claimed(p, i).status = "download_failed"
      <3> HIDE DEF Claimed
      <3> QED BY <1>0, <2>1
    <2>3. status[j] \in Claimable /\ Exhausted(j)
      BY <2>2 DEF Claimed, Leaves, Starts
    <2> QED BY <1>0, <2>3 DEF Open, Exhausted
  <1>2. ASSUME NEW p \in Procs, NEW i \in Jobs, Book(p, i)
        PROVE  status[j] \in Open /\ attempts[j] >= MaxAttempts
    <2> DEFINE b == IF status[i] \in Open THEN Booked(p, i) ELSE <<status[i], attempts[i]>>
    <2>1. status' = [status EXCEPT ![i] = b[1]]
      BY <1>2 DEF Book
    <2>2. i = j /\ b[1] = "download_failed"
      <3> HIDE DEF b
      <3> QED BY <1>0, <2>1
    <2>3. status[j] \in Open /\ Booked(p, j)[1] = "download_failed"
      BY <2>2
    <2>4. ~(attempts[j] < MaxAttempts)
      BY <2>3 DEF Booked
    <2> QED BY <1>0, <2>3, <2>4, TransferAssumption
  <1>3. (\E p \in Procs, i \in Jobs : Claim(p, i) \/ Book(p, i))
    <2>1. ASSUME NEW p \in Procs, NEW i \in Jobs,
                 \/ Schedule(p, i) \/ ClaimWaits(p, i) \/ BookingLost(p, i) \/ Lock(p, i)
                 \/ CheckSource(p, i) \/ NoteSource(p, i) \/ Receive(p, i) \/ Publish(p, i)
                 \/ Interrupted(p, i) \/ Refused(p, i) \/ UnlinkPart(p, i) \/ UnlinkSource(p, i)
          PROVE  FALSE
      BY <1>0, <2>1 DEF Schedule, ClaimWaits, BookingLost, Lock, CheckSource, NoteSource, Receive,
                        Publish, Interrupted, Refused, UnlinkPart, UnlinkSource, row
    <2>2. ASSUME NEW p \in Procs, RefreshLimit(p) \/ Crash(p) \/ Start(p) PROVE FALSE
      BY <1>0, <2>2 DEF RefreshLimit, Crash, Start, row
    <2>3. ASSUME NEW i \in Jobs, CompleteExisting(i) \/ RecoverStale(i) \/ AddressMoves(i)
          PROVE  FALSE
      BY <1>0, <2>3 DEF CompleteExisting, RecoverStale, AddressMoves, row
    <2>4. ~UNCHANGED vars
      BY DEF vars, row
    <2> QED BY <2>1, <2>2, <2>3, <2>4 DEF Next, TransferNext
  <1> QED BY <1>1, <1>2, <1>3

--------------------------------------------------------------------------------
LEMMA InvariantHolds == Spec => []TransferInv
  <1>1. Init => TransferInv
    BY TypeInit, FilesInit DEF TransferInv
  <1>2. TransferInv /\ [Next]_vars => TransferInv'
    BY TypeStep, FilesStep DEF TransferInv
  <1> QED BY <1>1, <1>2, PTL DEF Spec

\* The columns, files, locks and threads keep their types, and the pool of a process stays
\* within the largest limit (worker_engine.py).
THEOREM TransferTypeCorrect == Spec => []TransferTypeOK
  <1>1. TransferInv => TransferTypeOK BY DEF TransferInv
  <1> QED BY <1>1, InvariantHolds, PTL

\* Only a complete transfer of one address is ever published (sora_api.py download_video),
\* whatever other processes, crashes and changes of the address leave behind.
THEOREM OnlyWholePublished == Spec => []PublishedWhole
  <1>1. TransferInv => PublishedWhole BY DEF TransferInv, FilesInv, Published, PublishedWhole
  <1> QED BY <1>1, InvariantHolds, PTL

\* The bytes kept for resuming are of the address noted beside them (.download.source).
THEOREM PartOfOneSource == Spec => []PartHasOneSource
  <1>1. TransferInv => PartHasOneSource
    BY DEF TransferInv, FilesInv, OneSource, PartHasOneSource
  <1> QED BY <1>1, InvariantHolds, PTL

\* A download is given up only after as many transfers as the setting lists were fruitless,
\* cut off or never booked (worker_downloader.py): an attempt spent is always one of them
\* or a transfer under way.
THEOREM FailuresAreEarned == Spec => FailureEarned
  <1>1. Init => EarnedInv
    BY EarnedInit
  <1>2. TransferInv /\ EarnedInv /\ [Next]_vars => EarnedInv'
    BY EarnedStep
  <1>3. TransferInv /\ EarnedInv /\ [Next]_vars
          => [\A j \in Jobs : status[j] # "download_failed" /\ status'[j] = "download_failed"
                => fruitless[j] + Cardinality(Holders(j)) >= MaxAttempts]_vars
    BY EarnedFailure DEF TransferInv, Excused
  <1> QED BY <1>1, <1>2, <1>3, InvariantHolds, PTL DEF Spec, FailureEarned
================================================================================
