----------------------------- MODULE PipelineProofs -----------------------------
(*
Theorems about Quota and JobPipeline, for any sets of jobs, plans and bindings and any
bounds. First the quota books alone: their type, what the wallet and the packages block for
jobs, the ledgers they are shown with, and the promise of JobQuota. Then the pipeline: every
step of it is, for the books, a step of Quota or none, so all that is proved of Quota holds
of the pipeline, with crashes, stale rows, lost answers and clicks. And no thread leaves a
row the others cannot read. As long as no answer to a submission comes after the cutoff
at which a scan takes the submission for lost (LateAnswers is FALSE), the row of a job,
its unit, its files and the threads that remember it fit each other.
*)
EXTENDS JobPipeline, FiniteSetTheorems, TLAPS

--------------------------------------------------------------------------------
\* Type correctness.

\* Rows whose columns are overwritten with values of the columns' types keep theirs.
LEMMA RowsWritten ==
  /\ \A row \in WalletRow, n \in Int, m, r \in Nat :
       /\ [row EXCEPT !.remaining = n, !.granted = m] \in WalletRow
       /\ [row EXCEPT !.remaining = n, !.used = m] \in WalletRow
       /\ [row EXCEPT !.reserved = r, !.remaining = n, !.used = m] \in WalletRow
  /\ \A row \in AssignmentRow, m, r \in Nat :
       [row EXCEPT !.reserved = r, !.remaining = m] \in AssignmentRow
  BY DEF WalletRow, AssignmentRow

LEMMA TypeInit == QuotaInit => QuotaTypeOK
  <1> SUFFICES ASSUME QuotaInit PROVE QuotaTypeOK OBVIOUS
  <1>1. wallet \in WalletRow
    BY DEF QuotaInit, WalletRow
  <1>2. plan \in [Plans -> PlanRow]
    <2>1. [active : {TRUE}, amount : 0..MaxAmount] \subseteq PlanRow
      BY DEF PlanRow
    <2> QED BY <2>1 DEF QuotaInit
  <1>3. assignment \in [Assignments -> AssignmentRow]
    BY DEF QuotaInit, AssignmentRow, AssignmentStatuses, CustomAmounts
  <1>4. reservation \in [Jobs -> ReservationRow]
    BY DEF QuotaInit, ReservationRow, ReservationStatuses, Sources
  <1>5. deducted \in Nat /\ misreleased \in Nat /\ periodLedger \in [Assignments -> Int]
    BY DEF QuotaInit
  <1>6. debited \subseteq Jobs /\ refunded \subseteq Jobs /\ lostEdit \subseteq Assignments
    BY DEF QuotaInit
  <1> QED BY <1>1, <1>2, <1>3, <1>4, <1>5, <1>6 DEF QuotaInit, QuotaTypeOK

LEMMA AmountType ==
  ASSUME QuotaTypeOK, NEW a \in Assignments
  PROVE  /\ Amount(a) \in Nat
         /\ Refreshed(a) \in AssignmentRow
         /\ RefreshedLedger(a) \in Int
  <1>1. plan[PlanOf[a]].amount \in Nat
    BY PlanOfAssumption, BoundsAssumption DEF QuotaTypeOK, PlanRow
  <1>2. assignment[a] \in AssignmentRow
    BY DEF QuotaTypeOK
  <1>3. assignment[a].custom \in CustomAmounts /\ assignment[a].reserved \in Nat
    BY <1>2 DEF AssignmentRow
  <1>4. Amount(a) \in Nat
    BY <1>1, <1>3, BoundsAssumption DEF Amount, QuotaAmount, CustomAmounts
  <1>5. AtMost(assignment[a].reserved, Amount(a)) \in Nat
    BY <1>3, <1>4 DEF AtMost
  <1>6. [assignment[a] EXCEPT !.remaining = Amount(a),
                              !.reserved = AtMost(@, Amount(a)),
                              !.due = FALSE] \in AssignmentRow
    BY <1>2, <1>4, <1>5 DEF AssignmentRow
  <1> QED BY <1>2, <1>4, <1>6 DEF Refreshed, RefreshedLedger, QuotaTypeOK

LEMMA TypeWallet == QuotaTypeOK /\ WalletNext => QuotaTypeOK'
  <1> SUFFICES ASSUME QuotaTypeOK, NEW n \in 1..MaxGrant, GrantQuota(n) \/ DeductQuota(n)
               PROVE  QuotaTypeOK'
    BY DEF WalletNext
  <1>1. CASE GrantQuota(n)
    <2>1. wallet.remaining + n \in Int /\ wallet.granted + n \in Nat
      BY BoundsAssumption DEF QuotaTypeOK, WalletRow
    <2>2. wallet' \in WalletRow
      BY <1>1, <2>1, RowsWritten DEF QuotaTypeOK, GrantQuota
    <2> QED BY <1>1, <2>2 DEF QuotaTypeOK, GrantQuota
  <1>2. CASE DeductQuota(n)
    <2>1. wallet' \in WalletRow
      BY <1>2, BoundsAssumption DEF QuotaTypeOK, DeductQuota, WalletRow
    <2> QED BY <1>2, <2>1, BoundsAssumption DEF QuotaTypeOK, DeductQuota
  <1> QED BY <1>1, <1>2

LEMMA TypePackage == QuotaTypeOK /\ PackageNext => QuotaTypeOK'
  <1> SUFFICES ASSUME QuotaTypeOK, PackageNext PROVE QuotaTypeOK' OBVIOUS
  <1>1. CASE RefreshDuePackages
    BY <1>1, AmountType DEF QuotaTypeOK, RefreshDuePackages
  <1>2. ASSUME NEW a \in Assignments, PeriodEnds(a) PROVE QuotaTypeOK'
    <2>1. assignment' \in [Assignments -> AssignmentRow]
      BY <1>2 DEF QuotaTypeOK, PeriodEnds, AssignmentRow
    <2> QED BY <1>2, <2>1 DEF QuotaTypeOK, PeriodEnds
  <1>3. ASSUME NEW a \in Assignments, BindCheck(a) PROVE QuotaTypeOK'
    <2>1. plan[PlanOf[a]].amount \in Nat
      BY PlanOfAssumption, BoundsAssumption DEF QuotaTypeOK, PlanRow
    <2>2. [assignment[a] EXCEPT !.status = "binding", !.remaining = plan[PlanOf[a]].amount]
            \in AssignmentRow
      BY <2>1 DEF QuotaTypeOK, AssignmentRow, AssignmentStatuses
    <2> QED BY <1>3, <2>2 DEF QuotaTypeOK, BindCheck
  <1>4. ASSUME NEW a \in Assignments, BindInsert(a) PROVE QuotaTypeOK'
    <2>1. assignment' \in [Assignments -> AssignmentRow]
      BY <1>4 DEF QuotaTypeOK, BindInsert, AssignmentRow, AssignmentStatuses
    <2>2. assignment[a].remaining \in Int
      BY DEF QuotaTypeOK, AssignmentRow
    <2> QED BY <1>4, <2>1, <2>2 DEF QuotaTypeOK, BindInsert
  <1>5. ASSUME NEW a \in Assignments, Unbind(a) PROVE QuotaTypeOK'
    <2>1. assignment' \in [Assignments -> AssignmentRow]
      BY <1>5 DEF QuotaTypeOK, Unbind, AssignmentRow, AssignmentStatuses
    <2> QED BY <1>5, <2>1 DEF QuotaTypeOK, Unbind
  <1>6. ASSUME NEW a \in Assignments, CustomRead(a) PROVE QuotaTypeOK'
    <2>1. plan[PlanOf[a]].amount \in 0..MaxAmount
      BY PlanOfAssumption DEF QuotaTypeOK, PlanRow
    <2>2. customEdit' \in EditForm
      BY <1>6, <2>1 DEF QuotaTypeOK, CustomRead, EditForm, AssignmentRow
    <2> QED BY <1>6, <2>2 DEF QuotaTypeOK, CustomRead
  <1>7. ASSUME NEW custom \in CustomAmounts, CustomWrite(custom) PROVE QuotaTypeOK'
    <2> DEFINE a == customEdit.of
               delta == QuotaAmount(custom, customEdit.planAmount)
                          - QuotaAmount(customEdit.custom, customEdit.planAmount)
               remaining == Shifted(customEdit.remaining, delta)
    <2>1. customEdit \in EditForm
      BY <1>7 DEF QuotaTypeOK, CustomWrite
    <2>2. a \in Assignments /\ delta \in Int
      BY <2>1, BoundsAssumption DEF EditForm, QuotaAmount, CustomAmounts, NoCustom
    <2>3. remaining \in Nat
      BY <2>1, <2>2 DEF EditForm, Shifted, AtLeastZero
    <2>4. Flushed(assignment[a], custom, remaining) \in AssignmentRow
      <3> HIDE DEF a, remaining
      <3> QED BY <2>2, <2>3 DEF QuotaTypeOK, AssignmentRow, Flushed
    <2>5. assignment' \in [Assignments -> AssignmentRow]
      BY <1>7, <2>2, <2>4 DEF QuotaTypeOK, CustomWrite
    <2>6. periodLedger' \in [Assignments -> Int] /\ lostEdit' \subseteq Assignments
      BY <1>7, <2>2 DEF QuotaTypeOK, CustomWrite
    <2> QED BY <1>7, <2>5, <2>6 DEF QuotaTypeOK, CustomWrite
  <1>8. ASSUME NEW p \in Plans, TogglePlan(p) PROVE QuotaTypeOK'
    <2>1. \A row \in PlanRow, b \in BOOLEAN : [row EXCEPT !.active = b] \in PlanRow
      BY DEF PlanRow
    <2>2. plan' \in [Plans -> PlanRow]
      BY <1>8, <2>1 DEF QuotaTypeOK, TogglePlan
    <2>3. \A a \in Assignments : [assignment[a] EXCEPT !.status = "disabled"] \in AssignmentRow
      BY DEF QuotaTypeOK, AssignmentRow, AssignmentStatuses
    <2>4. assignment' \in [Assignments -> AssignmentRow]
      BY <1>8, <2>3 DEF QuotaTypeOK, TogglePlan
    <2> QED BY <1>8, <2>2, <2>4 DEF QuotaTypeOK, TogglePlan
  <1>9. ASSUME NEW p \in Plans, NEW n \in 0..MaxAmount, UpdatePlan(p, n) PROVE QuotaTypeOK'
    <2>1. plan' \in [Plans -> PlanRow]
      BY <1>9 DEF QuotaTypeOK, UpdatePlan, PlanRow
    <2> QED BY <1>9, <2>1 DEF QuotaTypeOK, UpdatePlan
  <1> QED BY <1>1, <1>2, <1>3, <1>4, <1>5, <1>6, <1>7, <1>8, <1>9 DEF PackageNext

\* A reservation row whose status or whole content is replaced stays a reservation row.
LEMMA ReservationRows ==
  ASSUME QuotaTypeOK, NEW j \in Jobs
  PROVE  /\ \A status \in ReservationStatuses :
              [reservation EXCEPT ![j].status = status] \in [Jobs -> ReservationRow]
         /\ \A s \in Sources :
              [reservation EXCEPT ![j] = [status |-> "reserved", source |-> s]]
                \in [Jobs -> ReservationRow]
  BY DEF QuotaTypeOK, ReservationRow, ReservationStatuses

LEMMA TypeJob == QuotaTypeOK /\ JobNext => QuotaTypeOK'
  <1> SUFFICES ASSUME QuotaTypeOK, NEW j \in Jobs,
                      \/ ReserveQuota(j) \/ ChargeReserved(j) \/ RefundFailedJob(j)
                      \/ \E pending \in BOOLEAN : ReleaseForJob(j, pending)
                                                    \/ DeleteJobQuota(j, pending)
               PROVE  QuotaTypeOK'
    BY DEF JobNext
  <1>0. {"charged", "released", "refunded", "deleted"} \subseteq ReservationStatuses
    BY DEF ReservationStatuses
  <1>1. CASE ReservePersonal(j)
    <2>1. wallet' \in WalletRow
      BY <1>1 DEF QuotaTypeOK, ReservePersonal, WalletRow
    <2>2. reservation' \in [Jobs -> ReservationRow]
      BY <1>1, ReservationRows DEF ReservePersonal, Sources
    <2> QED BY <1>1, <2>1, <2>2, AmountType DEF QuotaTypeOK, ReservePersonal
  <1>2. ASSUME NEW a \in Assignments, ReservePackage(j, a) PROVE QuotaTypeOK'
    <2>1. \A b \in Assignments : [Refreshed(b) EXCEPT !.reserved = @ + 1] \in AssignmentRow
      BY AmountType DEF AssignmentRow
    <2>2. assignment' \in [Assignments -> AssignmentRow]
      BY <1>2, <2>1, AmountType DEF ReservePackage
    <2>3. reservation' \in [Jobs -> ReservationRow]
      BY <1>2, ReservationRows DEF ReservePackage, Sources
    <2> QED BY <1>2, <2>2, <2>3, AmountType DEF QuotaTypeOK, ReservePackage
  <1>3. CASE ChargePersonal(j)
    <2>1. /\ wallet.remaining - 1 \in Int /\ wallet.used + 1 \in Nat
          /\ AtLeastZero(wallet.reserved - 1) \in Nat
      BY DEF QuotaTypeOK, WalletRow, AtLeastZero
    <2>2. wallet' \in WalletRow
      BY <1>3, <2>1, RowsWritten DEF QuotaTypeOK, ChargePersonal
    <2> QED BY <1>0, <1>3, <2>2, ReservationRows DEF QuotaTypeOK, ChargePersonal
  <1>4. ASSUME NEW a \in Assignments, ChargePackage(j, a) PROVE QuotaTypeOK'
    <2>1. /\ AtLeastZero(assignment[a].reserved - 1) \in Nat
          /\ AtLeastZero(assignment[a].remaining - 1) \in Nat
      BY DEF QuotaTypeOK, AssignmentRow, AtLeastZero
    <2>2. Charged(assignment[a]) \in AssignmentRow
      BY <2>1, RowsWritten DEF QuotaTypeOK, Charged
    <2>3. periodLedger' \in [Assignments -> Int]
      BY <1>4 DEF QuotaTypeOK, ChargePackage
    <2> QED BY <1>0, <1>4, <2>2, <2>3, ReservationRows DEF QuotaTypeOK, ChargePackage
  <1>5. CASE RefundPersonal(j)
    <2>1. wallet.remaining + 1 \in Int /\ AtLeastZero(wallet.used - 1) \in Nat
      BY DEF QuotaTypeOK, WalletRow, AtLeastZero
    <2>2. wallet' \in WalletRow
      BY <1>5, <2>1, RowsWritten DEF QuotaTypeOK, RefundPersonal
    <2> QED BY <1>0, <1>5, <2>2, ReservationRows DEF QuotaTypeOK, RefundPersonal
  <1>6. ASSUME NEW a \in Assignments, RefundPackage(j, a) PROVE QuotaTypeOK'
    <2>1. assignment' \in [Assignments -> AssignmentRow]
      BY <1>6 DEF QuotaTypeOK, RefundPackage, AssignmentRow
    <2> QED BY <1>0, <1>6, <2>1, ReservationRows DEF QuotaTypeOK, RefundPackage
  <1>7. ASSUME NEW pending \in BOOLEAN, NEW status \in ReservationStatuses,
               GiveBack(j, pending, status)
        PROVE  QuotaTypeOK'
    <2>1. wallet' \in WalletRow /\ misreleased' \in Nat
      BY <1>7 DEF QuotaTypeOK, GiveBack, WalletRow, AtLeastZero
    <2>2. assignment' \in [Assignments -> AssignmentRow]
      <3>1. \A a \in Assignments : [assignment EXCEPT ![a].reserved = AtLeastZero(@ - 1)]
                                     \in [Assignments -> AssignmentRow]
        BY DEF QuotaTypeOK, AssignmentRow, AtLeastZero
      <3> QED BY <1>7, <3>1 DEF QuotaTypeOK, GiveBack
    <2> QED BY <1>7, <2>1, <2>2, ReservationRows DEF QuotaTypeOK, GiveBack
  <1>8. ASSUME NEW pending \in BOOLEAN, ReleaseForJob(j, pending) PROVE QuotaTypeOK'
    <2>1. (IF reservation[j].status = "reserved" THEN "released" ELSE reservation[j].status)
            \in ReservationStatuses
      BY DEF QuotaTypeOK, ReservationRow, ReservationStatuses
    <2> QED BY <1>7, <1>8, <2>1 DEF ReleaseForJob
  <1>9. ASSUME NEW pending \in BOOLEAN, DeleteJobQuota(j, pending) PROVE QuotaTypeOK'
    BY <1>0, <1>7, <1>9 DEF DeleteJobQuota
  <1> QED BY <1>1, <1>2, <1>3, <1>4, <1>5, <1>6, <1>8, <1>9
          DEF ReserveQuota, ChargeReserved, RefundFailedJob

LEMMA TypeStep == QuotaTypeOK /\ [QuotaNext]_quotaVars => QuotaTypeOK'
  <1>1. QuotaTypeOK /\ UNCHANGED quotaVars => QuotaTypeOK'
    BY DEF QuotaTypeOK, quotaVars
  <1> QED BY <1>1, TypeWallet, TypePackage, TypeJob DEF QuotaNext

\* The columns of the quota tables keep their ranges: no sequence of bookings, edits
\* and refreshes drives a count below zero.
THEOREM QuotaTypeCorrect == QuotaSpec => []QuotaTypeOK
  BY TypeInit, TypeStep, PTL DEF QuotaSpec

--------------------------------------------------------------------------------
\* How the sets of jobs that hold a unit move.

LEMMA FiniteHolds ==
  ASSUME QuotaTypeOK
  PROVE  /\ IsFiniteSet(PersonalHolds) /\ Cardinality(PersonalHolds) \in Nat
         /\ \A a \in Assignments : IsFiniteSet(PackageHolds(a))
                                     /\ Cardinality(PackageHolds(a)) \in Nat
         /\ IsFiniteSet(PersonalRows(debited)) /\ Cardinality(PersonalRows(debited)) \in Nat
         /\ IsFiniteSet(PersonalRows(refunded)) /\ Cardinality(PersonalRows(refunded)) \in Nat
  <1>1. \A S \in SUBSET Jobs : IsFiniteSet(S) /\ Cardinality(S) \in Nat
    BY JobsAssumption, FS_Subset, FS_CardinalityType
  <1>2. /\ PersonalHolds \in SUBSET Jobs
        /\ \A a \in Assignments : PackageHolds(a) \in SUBSET Jobs
    BY DEF PersonalHolds, PackageHolds
  <1>3. PersonalRows(debited) \in SUBSET Jobs /\ PersonalRows(refunded) \in SUBSET Jobs
    BY DEF QuotaTypeOK, PersonalRows
  <1> QED BY <1>1, <1>2, <1>3

\* Job j starts to hold a unit of source s.
LEMMA HoldsAfterReserve ==
  ASSUME QuotaTypeOK, NEW j \in Jobs, NEW s \in Sources, reservation[j].status = "none",
         reservation' = [reservation EXCEPT ![j] = [status |-> "reserved", source |-> s]]
  PROVE  /\ Cardinality(PersonalHolds')
              = Cardinality(PersonalHolds) + (IF s = "personal" THEN 1 ELSE 0)
         /\ \A a \in Assignments :
              Cardinality(PackageHolds(a)')
                = Cardinality(PackageHolds(a)) + (IF s = a THEN 1 ELSE 0)
  <1>1. /\ j \notin PersonalHolds
        /\ PersonalHolds' = IF s = "personal" THEN PersonalHolds \cup {j} ELSE PersonalHolds
    BY DEF PersonalHolds, QuotaTypeOK, ReservationRow
  <1>2. ASSUME NEW a \in Assignments
        PROVE  /\ j \notin PackageHolds(a)
               /\ PackageHolds(a)' = IF s = a THEN PackageHolds(a) \cup {j} ELSE PackageHolds(a)
    BY DEF PackageHolds, QuotaTypeOK, ReservationRow
  <1>3. Cardinality(PersonalHolds')
          = Cardinality(PersonalHolds) + (IF s = "personal" THEN 1 ELSE 0)
    <2>1. IsFiniteSet(PersonalHolds) /\ Cardinality(PersonalHolds) \in Nat
      BY FiniteHolds
    <2>2. Cardinality(PersonalHolds \cup {j}) = Cardinality(PersonalHolds) + 1
      BY <1>1, <2>1, FS_AddElement
    <2> QED BY <1>1, <2>1, <2>2
  <1>4. ASSUME NEW a \in Assignments
        PROVE  Cardinality(PackageHolds(a)')
                 = Cardinality(PackageHolds(a)) + (IF s = a THEN 1 ELSE 0)
    <2>1. IsFiniteSet(PackageHolds(a)) /\ Cardinality(PackageHolds(a)) \in Nat
      BY FiniteHolds
    <2> QED BY <1>2, <2>1, FS_AddElement
  <1> QED BY <1>3, <1>4

\* Job j's row takes another status that holds nothing.
LEMMA HoldsAfterDrop ==
  ASSUME QuotaTypeOK, NEW j \in Jobs, NEW status \in ReservationStatuses \ {"reserved"},
         reservation' = [reservation EXCEPT ![j].status = status]
  PROVE  /\ Cardinality(PersonalHolds')
              = Cardinality(PersonalHolds) - (IF j \in PersonalHolds THEN 1 ELSE 0)
         /\ \A a \in Assignments :
              Cardinality(PackageHolds(a)')
                = Cardinality(PackageHolds(a)) - (IF j \in PackageHolds(a) THEN 1 ELSE 0)
  <1>1. PersonalHolds' = PersonalHolds \ {j}
    BY DEF PersonalHolds, QuotaTypeOK, ReservationRow
  <1>2. ASSUME NEW a \in Assignments PROVE PackageHolds(a)' = PackageHolds(a) \ {j}
    BY DEF PackageHolds, QuotaTypeOK, ReservationRow
  <1>3. Cardinality(PersonalHolds')
          = Cardinality(PersonalHolds) - (IF j \in PersonalHolds THEN 1 ELSE 0)
    <2>1. IsFiniteSet(PersonalHolds) /\ Cardinality(PersonalHolds) \in Nat
      BY FiniteHolds
    <2> QED BY <1>1, <2>1, FS_RemoveElement
  <1>4. ASSUME NEW a \in Assignments
        PROVE  Cardinality(PackageHolds(a)')
                 = Cardinality(PackageHolds(a)) - (IF j \in PackageHolds(a) THEN 1 ELSE 0)
    <2>1. IsFiniteSet(PackageHolds(a)) /\ Cardinality(PackageHolds(a)) \in Nat
      BY FiniteHolds
    <2> QED BY <1>2, <2>1, FS_RemoveElement
  <1> QED BY <1>3, <1>4

\* A step that leaves the reservation rows alone leaves these sets alone.
LEMMA HoldsSame ==
  ASSUME UNCHANGED reservation
  PROVE  PersonalHolds' = PersonalHolds
         /\ \A a \in Assignments : PackageHolds(a)' = PackageHolds(a)
  BY DEF PersonalHolds, PackageHolds

--------------------------------------------------------------------------------
\* The wallet covers what the jobs hold.

LEMMA CoversInit == QuotaInit => WalletCovers
  <1> SUFFICES ASSUME QuotaInit PROVE WalletCovers OBVIOUS
  <1>1. PersonalHolds = {}
    BY DEF QuotaInit, PersonalHolds
  <1> QED BY <1>1, FS_EmptySet DEF QuotaInit, WalletCovers, WalletHolds, NoOverdraft

LEMMA CoversJob ==
  ASSUME QuotaTypeOK, WalletCovers, NEW j \in Jobs,
         \/ ReserveQuota(j) \/ ChargeReserved(j) \/ RefundFailedJob(j)
         \/ \E pending \in BOOLEAN : ReleaseForJob(j, pending) \/ DeleteJobQuota(j, pending)
  PROVE  WalletCovers'
  <1> USE DEF WalletCovers, WalletHolds, NoOverdraft
  <1>0. /\ Cardinality(PersonalHolds) \in Nat /\ misreleased \in Nat
        /\ wallet.remaining \in Int /\ wallet.reserved \in Nat
    BY FiniteHolds DEF QuotaTypeOK, WalletRow
  <1>1. CASE ReservePersonal(j)
    <2>1. Cardinality(PersonalHolds') = Cardinality(PersonalHolds) + 1
      BY <1>1, HoldsAfterReserve DEF ReservePersonal, Sources
    <2>2. /\ wallet'.reserved = wallet.reserved + 1 /\ wallet'.remaining = wallet.remaining
          /\ misreleased' = misreleased /\ wallet.remaining - wallet.reserved > 0
      BY <1>1 DEF ReservePersonal, QuotaTypeOK, WalletRow
    <2> QED BY <1>0, <2>1, <2>2
  <1>2. ASSUME NEW a \in Assignments, ReservePackage(j, a) PROVE WalletCovers'
    <2>1. Cardinality(PersonalHolds') = Cardinality(PersonalHolds)
      <3>1. Cardinality(PersonalHolds')
              = Cardinality(PersonalHolds) + (IF a = "personal" THEN 1 ELSE 0)
        BY <1>2, HoldsAfterReserve DEF ReservePackage, Sources
      <3> QED BY <1>0, <3>1, SourceAssumption
    <2> QED BY <1>2, <2>1 DEF ReservePackage
  <1>3. CASE ChargePersonal(j)
    <2>1. Cardinality(PersonalHolds') = Cardinality(PersonalHolds) - 1
      BY <1>3, HoldsAfterDrop DEF ChargePersonal, ReservationStatuses
    <2>2. /\ wallet'.reserved = AtLeastZero(wallet.reserved - 1)
          /\ wallet'.remaining = wallet.remaining - 1 /\ misreleased' = misreleased
      BY <1>3 DEF ChargePersonal, QuotaTypeOK, WalletRow
    <2>3. Cardinality(PersonalHolds') \in Nat
      <3>1. PersonalHolds # {}
        BY <1>3 DEF ChargePersonal
      <3>2. Cardinality(PersonalHolds) # 0
        BY <3>1, FiniteHolds, FS_EmptySet
      <3> QED BY <1>0, <2>1, <3>2
    <2> QED BY <1>0, <2>1, <2>2, <2>3 DEF AtLeastZero
  <1>4. ASSUME NEW a \in Assignments, ChargePackage(j, a) PROVE WalletCovers'
    <2>1. j \notin PersonalHolds
      BY <1>4, SourceAssumption DEF ChargePackage, PackageHolds, PersonalHolds
    <2>2. Cardinality(PersonalHolds') = Cardinality(PersonalHolds)
      <3>1. Cardinality(PersonalHolds')
              = Cardinality(PersonalHolds) - (IF j \in PersonalHolds THEN 1 ELSE 0)
        BY <1>4, HoldsAfterDrop DEF ChargePackage, ReservationStatuses
      <3> QED BY <1>0, <2>1, <3>1
    <2> QED BY <1>4, <2>2 DEF ChargePackage
  <1>5. CASE RefundPersonal(j)
    <2>1. j \notin PersonalHolds
      BY <1>5 DEF RefundPersonal, PersonalHolds
    <2>2. Cardinality(PersonalHolds') = Cardinality(PersonalHolds)
      <3>1. Cardinality(PersonalHolds')
              = Cardinality(PersonalHolds) - (IF j \in PersonalHolds THEN 1 ELSE 0)
        BY <1>5, HoldsAfterDrop DEF RefundPersonal, ReservationStatuses
      <3> QED BY <1>0, <2>1, <3>1
    <2>3. /\ wallet'.reserved = wallet.reserved /\ wallet'.remaining = wallet.remaining + 1
          /\ misreleased' = misreleased
      BY <1>5 DEF RefundPersonal, QuotaTypeOK, WalletRow
    <2> QED BY <1>0, <2>2, <2>3
  <1>6. ASSUME NEW a \in Assignments, RefundPackage(j, a) PROVE WalletCovers'
    <2>1. j \notin PersonalHolds
      BY <1>6 DEF RefundPackage, PersonalHolds
    <2>2. Cardinality(PersonalHolds') = Cardinality(PersonalHolds)
      <3>1. Cardinality(PersonalHolds')
              = Cardinality(PersonalHolds) - (IF j \in PersonalHolds THEN 1 ELSE 0)
        BY <1>6, HoldsAfterDrop DEF RefundPackage, ReservationStatuses
      <3> QED BY <1>0, <2>1, <3>1
    <2> QED BY <1>6, <2>2 DEF RefundPackage
  <1>7. ASSUME NEW pending \in BOOLEAN, NEW status \in ReservationStatuses \ {"reserved"},
               GiveBack(j, pending, status)
        PROVE  WalletCovers'
    <2>1. Cardinality(PersonalHolds')
            = Cardinality(PersonalHolds) - (IF j \in PersonalHolds THEN 1 ELSE 0)
      BY <1>7, HoldsAfterDrop DEF GiveBack
    <2>2. CASE j \in PersonalHolds
      <3>1. Cardinality(PersonalHolds) # 0
        BY <2>2, FiniteHolds, FS_EmptySet
      <3>2. wallet' = [wallet EXCEPT !.reserved = AtLeastZero(@ - 1)]
            /\ misreleased' = misreleased
        BY <1>7, <2>2, SourceAssumption DEF GiveBack, PersonalHolds, PackageHolds
      <3>3. wallet'.reserved = AtLeastZero(wallet.reserved - 1)
            /\ wallet'.remaining = wallet.remaining
        BY <3>2 DEF QuotaTypeOK, WalletRow
      <3> QED BY <1>0, <2>1, <2>2, <3>1, <3>2, <3>3 DEF AtLeastZero
    <2>3. CASE j \notin PersonalHolds
      <3>1. \/ UNCHANGED <<wallet, misreleased>>
            \/ /\ wallet.reserved > 0 /\ misreleased' = misreleased + 1
               /\ wallet' = [wallet EXCEPT !.reserved = @ - 1]
        BY <1>7, <2>3 DEF GiveBack
      <3>2. CASE UNCHANGED <<wallet, misreleased>>
        BY <1>0, <2>1, <2>3, <3>2
      <3>3. CASE /\ wallet.reserved > 0 /\ misreleased' = misreleased + 1
                 /\ wallet' = [wallet EXCEPT !.reserved = @ - 1]
        <4>1. wallet'.reserved = wallet.reserved - 1 /\ wallet'.remaining = wallet.remaining
          BY <3>3 DEF QuotaTypeOK, WalletRow
        <4> QED BY <1>0, <2>1, <2>3, <3>3, <4>1
      <3> QED BY <3>1, <3>2, <3>3
    <2> QED BY <2>2, <2>3
  <1>8. ASSUME NEW pending \in BOOLEAN, ReleaseForJob(j, pending) PROVE WalletCovers'
    <2>1. (IF reservation[j].status = "reserved" THEN "released" ELSE reservation[j].status)
            \in ReservationStatuses \ {"reserved"}
      BY DEF QuotaTypeOK, ReservationRow, ReservationStatuses
    <2> QED BY <1>7, <1>8, <2>1 DEF ReleaseForJob
  <1>9. ASSUME NEW pending \in BOOLEAN, DeleteJobQuota(j, pending) PROVE WalletCovers'
    BY <1>7, <1>9 DEF DeleteJobQuota, ReservationStatuses
  <1> QED BY <1>1, <1>2, <1>3, <1>4, <1>5, <1>6, <1>8, <1>9
          DEF ReserveQuota, ChargeReserved, RefundFailedJob

LEMMA CoversStep == QuotaTypeOK /\ WalletCovers /\ [QuotaNext]_quotaVars => WalletCovers'
  <1> SUFFICES ASSUME QuotaTypeOK, WalletCovers, [QuotaNext]_quotaVars PROVE WalletCovers'
    OBVIOUS
  <1>1. CASE JobNext
    BY <1>1, CoversJob DEF JobNext
  <1>2. CASE WalletNext
    <2>0. /\ Cardinality(PersonalHolds) \in Nat /\ misreleased \in Nat
          /\ wallet.remaining \in Int /\ wallet.reserved \in Nat
      BY FiniteHolds DEF QuotaTypeOK, WalletRow
    <2>1. PICK n \in 1..MaxGrant : GrantQuota(n) \/ DeductQuota(n)
      BY <1>2 DEF WalletNext
    <2>2. PersonalHolds' = PersonalHolds /\ misreleased' = misreleased
      BY <2>1, HoldsSame DEF GrantQuota, DeductQuota
    <2>3. /\ wallet'.reserved = wallet.reserved
          /\ \/ wallet'.remaining = wallet.remaining + n
             \/ /\ wallet'.remaining = wallet.remaining - n
                /\ wallet.remaining - wallet.reserved >= n
      BY <2>1 DEF GrantQuota, DeductQuota, QuotaTypeOK, WalletRow
    <2> QED BY <2>0, <2>2, <2>3, BoundsAssumption DEF WalletCovers, WalletHolds, NoOverdraft
  <1>3. CASE PackageNext
    <2>1. UNCHANGED <<wallet, reservation, misreleased>>
      BY <1>3 DEF PackageNext, RefreshDuePackages, PeriodEnds, BindCheck, BindInsert, Unbind,
                  CustomRead, CustomWrite, TogglePlan, UpdatePlan
    <2> QED BY <2>1, HoldsSame DEF WalletCovers, WalletHolds, NoOverdraft
  <1>4. CASE UNCHANGED quotaVars
    BY <1>4, HoldsSame DEF WalletCovers, WalletHolds, NoOverdraft, quotaVars
  <1> QED BY <1>1, <1>2, <1>3, <1>4 DEF QuotaNext

\* The wallet's reserved count follows the jobs that hold its units, and its balance
\* covers them all: a charge never finds the wallet short, in any order of bookings.
THEOREM WalletCovered == QuotaSpec => []WalletCovers
  <1>1. QuotaTypeOK /\ WalletCovers /\ [QuotaNext]_quotaVars => WalletCovers'
    BY CoversStep
  <1> QED BY CoversInit, <1>1, QuotaTypeCorrect, PTL DEF QuotaSpec

--------------------------------------------------------------------------------
\* A package blocks only units that jobs hold.

LEMMA ReservedBound ==
  ASSUME QuotaTypeOK, PackageHoldsCovered, NEW a \in Assignments
  PROVE  /\ assignment[a].reserved \in Nat /\ Refreshed(a).reserved \in Nat
         /\ Refreshed(a).reserved <= Cardinality(PackageHolds(a))
         /\ Cardinality(PackageHolds(a)) \in Nat
  <1>1. assignment[a].reserved \in Nat /\ Cardinality(PackageHolds(a)) \in Nat
    BY FiniteHolds DEF QuotaTypeOK, AssignmentRow
  <1>2. Amount(a) \in Nat /\ assignment[a] \in AssignmentRow /\ Refreshed(a) \in AssignmentRow
    BY AmountType DEF QuotaTypeOK
  <1>3. \/ Refreshed(a).reserved = assignment[a].reserved
        \/ Refreshed(a).reserved = AtMost(assignment[a].reserved, Amount(a))
    BY <1>2 DEF Refreshed, AssignmentRow
  <1>4. Refreshed(a).reserved \in Nat
    BY <1>2 DEF AssignmentRow
  <1> QED BY <1>1, <1>2, <1>3, <1>4 DEF AtMost, PackageHoldsCovered

LEMMA PackagesCoveredJob ==
  ASSUME QuotaTypeOK, PackageHoldsCovered, NEW j \in Jobs,
         \/ ReserveQuota(j) \/ ChargeReserved(j) \/ RefundFailedJob(j)
         \/ \E pending \in BOOLEAN : ReleaseForJob(j, pending) \/ DeleteJobQuota(j, pending)
  PROVE  PackageHoldsCovered'
  <1> SUFFICES ASSUME NEW b \in Assignments
               PROVE  assignment'[b].reserved <= Cardinality(PackageHolds(b)')
    BY DEF PackageHoldsCovered
  <1>0. /\ assignment[b] \in AssignmentRow /\ assignment[b].reserved \in Nat
        /\ assignment[b].reserved <= Cardinality(PackageHolds(b))
        /\ Refreshed(b) \in AssignmentRow /\ Refreshed(b).reserved \in Nat
        /\ Refreshed(b).reserved <= Cardinality(PackageHolds(b))
        /\ Cardinality(PackageHolds(b)) \in Nat
    BY ReservedBound, AmountType DEF QuotaTypeOK, PackageHoldsCovered
  <1>1. CASE ReservePersonal(j)
    <2>1. Cardinality(PackageHolds(b)')
            = Cardinality(PackageHolds(b)) + (IF "personal" = b THEN 1 ELSE 0)
      BY <1>1, HoldsAfterReserve DEF ReservePersonal, Sources
    <2>2. assignment'[b] = Refreshed(b)
      BY <1>1 DEF ReservePersonal
    <2> QED BY <1>0, <2>1, <2>2
  <1>2. ASSUME NEW a \in Assignments, ReservePackage(j, a)
        PROVE  assignment'[b].reserved <= Cardinality(PackageHolds(b)')
    <2>1. Cardinality(PackageHolds(b)')
            = Cardinality(PackageHolds(b)) + (IF a = b THEN 1 ELSE 0)
      BY <1>2, HoldsAfterReserve DEF ReservePackage, Sources
    <2>2. assignment'[b].reserved = Refreshed(b).reserved + (IF a = b THEN 1 ELSE 0)
      BY <1>0, <1>2 DEF ReservePackage, AssignmentRow
    <2> QED BY <1>0, <2>1, <2>2
  <1>3. ASSUME NEW status \in ReservationStatuses \ {"reserved"},
               reservation' = [reservation EXCEPT ![j].status = status],
               \/ assignment'[b].reserved = assignment[b].reserved /\ j \notin PackageHolds(b)
               \/ assignment'[b].reserved = AtLeastZero(assignment[b].reserved - 1)
        PROVE  assignment'[b].reserved <= Cardinality(PackageHolds(b)')
    <2>1. Cardinality(PackageHolds(b)')
            = Cardinality(PackageHolds(b)) - (IF j \in PackageHolds(b) THEN 1 ELSE 0)
      BY <1>3, HoldsAfterDrop
    <2>2. j \in PackageHolds(b) => Cardinality(PackageHolds(b)) # 0
      BY FiniteHolds, FS_EmptySet
    <2> QED BY <1>0, <1>3, <2>1, <2>2 DEF AtLeastZero
  <1>4. CASE ChargePersonal(j)
    <2>1. j \notin PackageHolds(b)
      BY <1>4, SourceAssumption DEF ChargePersonal, PersonalHolds, PackageHolds
    <2> QED BY <1>3, <1>4, <2>1 DEF ChargePersonal, ReservationStatuses
  <1>5. ASSUME NEW a \in Assignments, ChargePackage(j, a)
        PROVE  assignment'[b].reserved <= Cardinality(PackageHolds(b)')
    <2>1. a = b \/ j \notin PackageHolds(b)
      BY <1>5 DEF ChargePackage, PackageHolds
    <2>2. assignment'[b].reserved = IF a = b THEN AtLeastZero(assignment[b].reserved - 1)
                                             ELSE assignment[b].reserved
      BY <1>0, <1>5 DEF ChargePackage, Charged, AssignmentRow, QuotaTypeOK
    <2> QED BY <1>3, <1>5, <2>1, <2>2 DEF ChargePackage, ReservationStatuses
  <1>6. CASE RefundFailedJob(j)
    <2>1. /\ reservation[j].status = "charged"
          /\ reservation' = [reservation EXCEPT ![j].status = "refunded"]
      <3>1. CASE RefundPersonal(j)
        BY <3>1 DEF RefundPersonal
      <3>2. ASSUME NEW a \in Assignments, RefundPackage(j, a)
            PROVE  /\ reservation[j].status = "charged"
                   /\ reservation' = [reservation EXCEPT ![j].status = "refunded"]
        BY <3>2 DEF RefundPackage
      <3> QED BY <1>6, <3>1, <3>2 DEF RefundFailedJob
    <2>2. assignment'[b].reserved = assignment[b].reserved
      BY <1>0, <1>6 DEF RefundFailedJob, RefundPersonal, RefundPackage, QuotaTypeOK, AssignmentRow
    <2>3. j \notin PackageHolds(b)
      BY <2>1 DEF PackageHolds
    <2> QED BY <1>3, <2>1, <2>2, <2>3 DEF ReservationStatuses
  <1>7. ASSUME NEW pending \in BOOLEAN, NEW status \in ReservationStatuses \ {"reserved"},
               GiveBack(j, pending, status)
        PROVE  assignment'[b].reserved <= Cardinality(PackageHolds(b)')
    <2>1. reservation' = [reservation EXCEPT ![j].status = status]
      BY <1>7 DEF GiveBack
    <2>2. CASE j \in PackageHolds(b)
      <3>1. assignment' = [assignment EXCEPT ![b].reserved = AtLeastZero(@ - 1)]
        BY <1>7, <2>2, SourceAssumption DEF GiveBack, PersonalHolds, PackageHolds
      <3> QED BY <1>0, <1>3, <2>1, <3>1 DEF QuotaTypeOK, AssignmentRow
    <2>3. CASE j \notin PackageHolds(b)
      <3>1. assignment'[b] = assignment[b]
        BY <1>7, <2>3 DEF GiveBack, QuotaTypeOK
      <3> QED BY <1>3, <2>1, <2>3, <3>1
    <2> QED BY <2>2, <2>3
  <1>8. ASSUME NEW pending \in BOOLEAN, ReleaseForJob(j, pending)
        PROVE  assignment'[b].reserved <= Cardinality(PackageHolds(b)')
    <2>1. (IF reservation[j].status = "reserved" THEN "released" ELSE reservation[j].status)
            \in ReservationStatuses \ {"reserved"}
      BY DEF QuotaTypeOK, ReservationRow, ReservationStatuses
    <2> QED BY <1>7, <1>8, <2>1 DEF ReleaseForJob
  <1>9. ASSUME NEW pending \in BOOLEAN, DeleteJobQuota(j, pending)
        PROVE  assignment'[b].reserved <= Cardinality(PackageHolds(b)')
    BY <1>7, <1>9 DEF DeleteJobQuota, ReservationStatuses
  <1> QED BY <1>1, <1>2, <1>4, <1>5, <1>6, <1>8, <1>9 DEF ReserveQuota, ChargeReserved

\* Edits of plans, bindings and custom amounts, and refreshes, only lower the count.
LEMMA PackagesCoveredPackage ==
  ASSUME QuotaTypeOK, PackageHoldsCovered, PackageNext
  PROVE  PackageHoldsCovered'
  <1> SUFFICES ASSUME NEW b \in Assignments
               PROVE  assignment'[b].reserved <= Cardinality(PackageHolds(b)')
    BY DEF PackageHoldsCovered
  <1>0. /\ assignment[b] \in AssignmentRow
        /\ assignment[b].reserved <= Cardinality(PackageHolds(b))
        /\ Refreshed(b).reserved <= Cardinality(PackageHolds(b))
    BY ReservedBound DEF QuotaTypeOK, PackageHoldsCovered
  <1>1. PackageHolds(b)' = PackageHolds(b)
    <2>1. UNCHANGED reservation
      BY DEF PackageNext, RefreshDuePackages, PeriodEnds, BindCheck, BindInsert, Unbind,
             CustomRead, CustomWrite, TogglePlan, UpdatePlan
    <2> QED BY <2>1, HoldsSame
  <1>2. CASE RefreshDuePackages
    BY <1>0, <1>1, <1>2 DEF RefreshDuePackages
  <1>3. ASSUME NEW a \in Assignments,
               PeriodEnds(a) \/ BindCheck(a) \/ BindInsert(a) \/ Unbind(a) \/ CustomRead(a)
        PROVE  assignment'[b].reserved = assignment[b].reserved
    <2> USE <1>0 DEF QuotaTypeOK, AssignmentRow
    <2>1. CASE PeriodEnds(a)
      BY <2>1 DEF PeriodEnds
    <2>2. CASE BindCheck(a)
      BY <2>2 DEF BindCheck
    <2>3. CASE BindInsert(a)
      BY <2>3 DEF BindInsert
    <2>4. CASE Unbind(a)
      BY <2>4 DEF Unbind
    <2>5. CASE CustomRead(a)
      BY <2>5 DEF CustomRead
    <2> QED BY <1>3, <2>1, <2>2, <2>3, <2>4, <2>5
  <1>4. ASSUME NEW custom \in CustomAmounts, CustomWrite(custom)
        PROVE  assignment'[b].reserved = assignment[b].reserved
    <2>1. PICK remaining :
            assignment' = [assignment EXCEPT ![customEdit.of] = Flushed(@, custom, remaining)]
      BY <1>4 DEF CustomWrite
    <2>2. Flushed(assignment[b], custom, remaining).reserved = assignment[b].reserved
      BY <1>0 DEF Flushed, AssignmentRow
    <2>3. assignment'[b] = IF b = customEdit.of THEN Flushed(assignment[b], custom, remaining)
                                                 ELSE assignment[b]
      <3> HIDE DEF Flushed
      <3> QED BY <2>1 DEF QuotaTypeOK
    <2> QED BY <2>2, <2>3
  <1>5. ASSUME NEW p \in Plans, TogglePlan(p)
        PROVE  assignment'[b].reserved = assignment[b].reserved
    BY <1>0, <1>5 DEF TogglePlan, QuotaTypeOK, AssignmentRow
  <1>6. ASSUME NEW p \in Plans, NEW n \in 0..MaxAmount, UpdatePlan(p, n)
        PROVE  assignment'[b].reserved = assignment[b].reserved
    BY <1>6 DEF UpdatePlan
  <1> QED BY <1>0, <1>1, <1>2, <1>3, <1>4, <1>5, <1>6 DEF PackageNext

\* A package never blocks a unit that no job holds, whatever refreshes, edits of its plan and
\* releases cut its columns down to (quota_plans.py floors and caps them).
THEOREM PackagesCovered == QuotaSpec => []PackageHoldsCovered
  <1>1. QuotaInit => PackageHoldsCovered
    <2> SUFFICES ASSUME QuotaInit, NEW a \in Assignments
                 PROVE  assignment[a].reserved <= Cardinality(PackageHolds(a))
      BY DEF PackageHoldsCovered
    <2>1. PackageHolds(a) = {}
      BY DEF QuotaInit, PackageHolds
    <2>2. assignment[a].reserved = 0
      BY DEF QuotaInit
    <2> QED BY <2>1, <2>2, FS_EmptySet
  <1>2. QuotaTypeOK /\ PackageHoldsCovered /\ [QuotaNext]_quotaVars => PackageHoldsCovered'
    <2> SUFFICES ASSUME QuotaTypeOK, PackageHoldsCovered, [QuotaNext]_quotaVars
                 PROVE  PackageHoldsCovered'
      OBVIOUS
    <2>1. CASE WalletNext
      <3>1. UNCHANGED <<assignment, reservation>>
        BY <2>1 DEF WalletNext, GrantQuota, DeductQuota
      <3> QED BY <3>1, HoldsSame DEF PackageHoldsCovered
    <2>2. CASE UNCHANGED quotaVars
      BY <2>2, HoldsSame DEF PackageHoldsCovered, quotaVars
    <2>3. CASE JobNext
      BY <2>3, PackagesCoveredJob DEF JobNext
    <2> QED BY <2>1, <2>2, <2>3, PackagesCoveredPackage DEF QuotaNext
  <1> QED BY <1>1, <1>2, QuotaTypeCorrect, PTL DEF QuotaSpec

--------------------------------------------------------------------------------
\* The ledgers. A charge row is there for the jobs whose unit was charged, and for those
\* only; a refund row is there for some of them. Deletion may come at any stage.

DebitsFollow ==
  /\ refunded \subseteq debited
  /\ \A j \in Jobs :
       /\ reservation[j].status \in {"none", "reserved", "released"} => j \notin debited
       /\ reservation[j].status = "charged" => j \in debited

LedgerInv == DebitsFollow /\ LedgersMatch

LEMMA LedgerInit == QuotaInit => LedgerInv
  <1> SUFFICES ASSUME QuotaInit PROVE LedgerInv OBVIOUS
  <1>1. DebitsFollow
    BY DEF QuotaInit, DebitsFollow
  <1>2. PersonalRows(debited) = {} /\ PersonalRows(refunded) = {}
    BY DEF QuotaInit, PersonalRows
  <1>3. WalletMatchesLedger
    <2>1. Cardinality(PersonalRows(debited)) = 0 /\ Cardinality(PersonalRows(refunded)) = 0
      BY <1>2, FS_EmptySet
    <2>2. wallet.used = 0 /\ wallet.remaining = 0 /\ wallet.granted = 0 /\ deducted = 0
      BY DEF QuotaInit
    <2> QED BY <2>1, <2>2 DEF WalletMatchesLedger
  <1>4. PackageMatchesLedger
    BY DEF QuotaInit, PackageMatchesLedger
  <1> QED BY <1>1, <1>3, <1>4 DEF LedgerInv, LedgersMatch

\* Reservation rows move on without a ledger row: job j's takes another row, and if it has a
\* ledger row then only its status changes, to one that may have such a row.
LEMMA RowsKept ==
  ASSUME QuotaTypeOK, DebitsFollow, NEW j \in Jobs, NEW row,
         reservation' = [reservation EXCEPT ![j] = row],
         UNCHANGED <<debited, refunded>>,
         row.status # "charged",
         j \in debited => row.source = reservation[j].source
                            /\ row.status \notin {"none", "reserved", "released"}
  PROVE  /\ DebitsFollow'
         /\ PersonalRows(debited)' = PersonalRows(debited)
         /\ PersonalRows(refunded)' = PersonalRows(refunded)
  <1>1. \A i \in Jobs : reservation'[i] = IF i = j THEN row ELSE reservation[i]
    BY DEF QuotaTypeOK
  <1>2. DebitsFollow'
    BY <1>1 DEF DebitsFollow
  <1>3. \A i \in debited : i \in Jobs /\ reservation'[i].source = reservation[i].source
    BY <1>1 DEF QuotaTypeOK
  <1> QED BY <1>2, <1>3 DEF DebitsFollow, PersonalRows

LEMMA RowsUntouched ==
  ASSUME UNCHANGED <<reservation, debited, refunded>>
  PROVE  /\ DebitsFollow => DebitsFollow'
         /\ PersonalRows(debited)' = PersonalRows(debited)
         /\ PersonalRows(refunded)' = PersonalRows(refunded)
  BY DEF DebitsFollow, PersonalRows

\* What a step does to the wallet, if to the ledger rows of jobs nothing.
LEMMA WalletStays ==
  ASSUME QuotaTypeOK, WalletMatchesLedger,
         PersonalRows(debited)' = PersonalRows(debited),
         PersonalRows(refunded)' = PersonalRows(refunded),
         wallet'.used = wallet.used,
         wallet'.remaining - wallet.remaining
           = (wallet'.granted - wallet.granted) - (deducted' - deducted),
         wallet' \in WalletRow, deducted' \in Nat
  PROVE  WalletMatchesLedger'
  <1>1. /\ wallet \in WalletRow /\ deducted \in Nat
    BY DEF QuotaTypeOK
  <1>2. wallet'.remaining = wallet'.granted - deducted' - wallet'.used
    BY <1>1 DEF WalletMatchesLedger, WalletRow
  <1>3. wallet'.used = Cardinality(PersonalRows(debited)') - Cardinality(PersonalRows(refunded)')
    BY DEF WalletMatchesLedger
  <1> QED BY <1>2, <1>3 DEF WalletMatchesLedger

LEMMA LedgerWallet == QuotaTypeOK /\ LedgerInv /\ WalletNext => LedgerInv'
  <1> SUFFICES ASSUME QuotaTypeOK, LedgerInv, NEW n \in 1..MaxGrant, GrantQuota(n) \/ DeductQuota(n)
               PROVE  LedgerInv'
    BY DEF WalletNext
  <1> USE DEF LedgerInv, LedgersMatch
  <1>1. /\ DebitsFollow' /\ PersonalRows(debited)' = PersonalRows(debited)
        /\ PersonalRows(refunded)' = PersonalRows(refunded)
    BY RowsUntouched DEF GrantQuota, DeductQuota
  <1>2. wallet' \in WalletRow /\ deducted' \in Nat
    BY TypeWallet DEF QuotaTypeOK, WalletNext
  <1>3. /\ wallet'.used = wallet.used
        /\ wallet'.remaining - wallet.remaining
             = (wallet'.granted - wallet.granted) - (deducted' - deducted)
    <2>1. wallet \in WalletRow /\ deducted \in Nat /\ n \in Nat
      BY BoundsAssumption DEF QuotaTypeOK
    <2>2. CASE GrantQuota(n)
      <3>1. /\ wallet'.used = wallet.used /\ wallet'.remaining = wallet.remaining + n
            /\ wallet'.granted = wallet.granted + n /\ deducted' = deducted
        BY <2>1, <2>2 DEF GrantQuota, WalletRow
      <3> QED BY <2>1, <3>1 DEF WalletRow
    <2>3. CASE DeductQuota(n)
      <3>1. /\ wallet'.used = wallet.used /\ wallet'.remaining = wallet.remaining - n
            /\ wallet'.granted = wallet.granted /\ deducted' = deducted + n
        BY <2>1, <2>3 DEF DeductQuota, WalletRow
      <3> QED BY <2>1, <3>1 DEF WalletRow
    <2> QED BY <2>2, <2>3
  <1>4. WalletMatchesLedger'
    BY <1>1, <1>2, <1>3, WalletStays
  <1>5. PackageMatchesLedger'
    BY DEF GrantQuota, DeductQuota, PackageMatchesLedger
  <1> QED BY <1>1, <1>4, <1>5

\* A package's balance against its ledger, package by package.
PackageAgrees(a) ==
  assignment[a].status \in {"active", "disabled"} => assignment[a].remaining >= periodLedger[a]

LEMMA PackageRows ==
  ASSUME QuotaTypeOK, NEW b \in Assignments
  PROVE  /\ assignment[b] \in AssignmentRow /\ assignment[b].remaining \in Nat
         /\ periodLedger[b] \in Int
         /\ PackageAgrees(b) =>
              /\ RefreshedLedger(b) \in Int /\ Refreshed(b).remaining \in Nat
              /\ Refreshed(b).status = assignment[b].status
              /\ Refreshed(b).status \in {"active", "disabled"}
                   => Refreshed(b).remaining >= RefreshedLedger(b)
  <1>1. /\ assignment[b] \in AssignmentRow /\ periodLedger[b] \in Int
        /\ Amount(b) \in Nat /\ RefreshedLedger(b) \in Int /\ Refreshed(b) \in AssignmentRow
    BY AmountType DEF QuotaTypeOK
  <1>2. assignment[b].remaining \in Nat /\ Refreshed(b).remaining \in Nat
    BY <1>1 DEF AssignmentRow
  <1>3. Refreshed(b).status = assignment[b].status
    BY <1>1 DEF Refreshed, AssignmentRow
  <1>4. \/ Refreshed(b).remaining = Amount(b) /\ RefreshedLedger(b) = Amount(b)
        \/ Refreshed(b) = assignment[b] /\ RefreshedLedger(b) = periodLedger[b]
    BY <1>1 DEF Refreshed, RefreshedLedger, AssignmentRow
  <1> QED BY <1>1, <1>2, <1>3, <1>4 DEF PackageAgrees

LEMMA LedgerCustom ==
  ASSUME QuotaTypeOK, NEW custom \in CustomAmounts, CustomWrite(custom),
         NEW b \in Assignments \ lostEdit', PackageAgrees(b)
  PROVE  PackageAgrees(b)'
  <1> DEFINE a == customEdit.of
             delta == QuotaAmount(custom, customEdit.planAmount)
                        - QuotaAmount(customEdit.custom, customEdit.planAmount)
             remaining == Shifted(customEdit.remaining, delta)
  <1>1. customEdit \in EditForm
    BY DEF QuotaTypeOK, CustomWrite
  <1>2. a \in Assignments /\ delta \in Int /\ customEdit.remaining \in Nat
    BY <1>1, BoundsAssumption DEF EditForm, QuotaAmount, CustomAmounts, NoCustom
  <1>3. remaining \in Nat /\ remaining >= customEdit.remaining + delta
    <2> HIDE DEF delta
    <2> QED BY <1>2 DEF Shifted, AtLeastZero
  <1>4. /\ assignment' = [assignment EXCEPT ![a] = Flushed(@, custom, remaining)]
        /\ periodLedger' = [periodLedger EXCEPT ![a] = @ + delta]
        /\ lostEdit' = IF remaining # customEdit.remaining
                            /\ assignment[a].remaining # customEdit.remaining
                       THEN lostEdit \cup {a} ELSE lostEdit
    BY DEF CustomWrite
  <1> HIDE DEF a, delta, remaining
  <1>5. /\ Flushed(assignment[a], custom, remaining).status = assignment[a].status
        /\ Flushed(assignment[a], custom, remaining).remaining
             = IF remaining = customEdit.remaining THEN assignment[a].remaining ELSE remaining
    BY <1>2 DEF Flushed, QuotaTypeOK, AssignmentRow
  <1>6. CASE b # a
    <2>1. assignment'[b] = assignment[b] /\ periodLedger'[b] = periodLedger[b]
      <3> HIDE DEF Flushed
      <3> QED BY <1>4, <1>6 DEF QuotaTypeOK
    <2> QED BY <2>1 DEF PackageAgrees
  <1>7. CASE b = a
    <2>1. /\ assignment'[b] = Flushed(assignment[a], custom, remaining)
          /\ periodLedger'[b] = periodLedger[b] + delta
      <3> HIDE DEF Flushed
      <3> QED BY <1>2, <1>4, <1>7 DEF QuotaTypeOK
    <2>2. \/ remaining = customEdit.remaining
          \/ assignment[b].remaining = customEdit.remaining
      BY <1>4, <1>7
    <2>3. /\ assignment[b].remaining \in Nat /\ periodLedger[b] \in Int
      BY PackageRows
    <2>4. \/ assignment'[b].remaining >= periodLedger'[b]
          \/ assignment[b].status \notin {"active", "disabled"}
      BY <1>2, <1>3, <1>5, <1>7, <2>1, <2>2, <2>3 DEF PackageAgrees
    <2> QED BY <1>5, <1>7, <2>1, <2>4 DEF PackageAgrees
  <1> QED BY <1>6, <1>7

LEMMA LedgerPackage == QuotaTypeOK /\ LedgerInv /\ PackageNext => LedgerInv'
  <1> SUFFICES ASSUME QuotaTypeOK, LedgerInv, PackageNext PROVE LedgerInv' OBVIOUS
  <1> USE DEF LedgerInv, LedgersMatch
  <1>1. UNCHANGED <<wallet, reservation, debited, refunded, deducted>>
    BY DEF PackageNext, RefreshDuePackages, PeriodEnds, BindCheck, BindInsert, Unbind,
           CustomRead, CustomWrite, TogglePlan, UpdatePlan
  <1>2. DebitsFollow' /\ WalletMatchesLedger'
    BY <1>1, RowsUntouched DEF WalletMatchesLedger
  <1>3. ASSUME NEW b \in Assignments \ lostEdit' PROVE PackageAgrees(b)'
    <2>1. b \in Assignments \ lostEdit
      BY DEF PackageNext, RefreshDuePackages, PeriodEnds, BindCheck, BindInsert, Unbind,
             CustomRead, CustomWrite, TogglePlan, UpdatePlan
    <2>2. PackageAgrees(b)
      BY <2>1 DEF PackageMatchesLedger, PackageAgrees
    <2>3. /\ assignment[b] \in AssignmentRow /\ assignment[b].remaining \in Nat
          /\ periodLedger[b] \in Int
      BY PackageRows
    <2>4. CASE RefreshDuePackages
      BY <2>2, <2>4, PackageRows DEF RefreshDuePackages, PackageAgrees
    <2>5. ASSUME NEW a \in Assignments, PeriodEnds(a) PROVE PackageAgrees(b)'
      BY <2>2, <2>3, <2>5 DEF PeriodEnds, PackageAgrees, QuotaTypeOK, AssignmentRow
    <2>6. ASSUME NEW a \in Assignments, BindCheck(a) PROVE PackageAgrees(b)'
      BY <2>2, <2>3, <2>6 DEF BindCheck, PackageAgrees, QuotaTypeOK, AssignmentRow
    <2>7. ASSUME NEW a \in Assignments, BindInsert(a) PROVE PackageAgrees(b)'
      BY <2>2, <2>3, <2>7 DEF BindInsert, PackageAgrees, QuotaTypeOK, AssignmentRow
    <2>8. ASSUME NEW a \in Assignments, Unbind(a) PROVE PackageAgrees(b)'
      BY <2>2, <2>3, <2>8 DEF Unbind, PackageAgrees, QuotaTypeOK, AssignmentRow
    <2>9. ASSUME NEW a \in Assignments, CustomRead(a) PROVE PackageAgrees(b)'
      BY <2>2, <2>9 DEF CustomRead, PackageAgrees
    <2>10. ASSUME NEW custom \in CustomAmounts, CustomWrite(custom) PROVE PackageAgrees(b)'
      BY <2>2, <2>10, LedgerCustom
    <2>11. ASSUME NEW p \in Plans, TogglePlan(p) PROVE PackageAgrees(b)'
      BY <2>2, <2>3, <2>11 DEF TogglePlan, PackageAgrees, AssignmentRow
    <2>12. ASSUME NEW p \in Plans, NEW n \in 0..MaxAmount, UpdatePlan(p, n) PROVE PackageAgrees(b)'
      BY <2>2, <2>12 DEF UpdatePlan, PackageAgrees
    <2> QED BY <2>4, <2>5, <2>6, <2>7, <2>8, <2>9, <2>10, <2>11, <2>12 DEF PackageNext
  <1> QED BY <1>2, <1>3 DEF PackageMatchesLedger, PackageAgrees

\* Bookings of a job. The wallet part first.
LEMMA LedgerJobWallet ==
  ASSUME QuotaTypeOK, LedgerInv, NEW j \in Jobs,
         \/ ReserveQuota(j) \/ ChargeReserved(j) \/ RefundFailedJob(j)
         \/ \E pending \in BOOLEAN : ReleaseForJob(j, pending) \/ DeleteJobQuota(j, pending)
  PROVE  DebitsFollow' /\ WalletMatchesLedger'
  <1> USE DEF LedgerInv, LedgersMatch
  <1>0. /\ wallet \in WalletRow /\ wallet' \in WalletRow /\ deducted \in Nat
        /\ Cardinality(PersonalRows(debited)) \in Nat /\ Cardinality(PersonalRows(refunded)) \in Nat
        /\ IsFiniteSet(PersonalRows(debited)) /\ IsFiniteSet(PersonalRows(refunded))
    BY FiniteHolds, TypeJob DEF QuotaTypeOK, JobNext
  <1>1. ASSUME NEW s \in Sources, reservation[j].status = "none",
               reservation' = [reservation EXCEPT ![j] = [status |-> "reserved", source |-> s]],
               UNCHANGED <<debited, refunded, deducted>>,
               wallet'.used = wallet.used, wallet'.remaining = wallet.remaining,
               wallet'.granted = wallet.granted
        PROVE  DebitsFollow' /\ WalletMatchesLedger'
    <2>1. j \notin debited
      BY <1>1 DEF DebitsFollow
    <2> DEFINE row == [status |-> "reserved", source |-> s]
    <2>2. row.status = "reserved" /\ reservation' = [reservation EXCEPT ![j] = row]
      BY <1>1
    <2> HIDE DEF row
    <2>3. /\ DebitsFollow' /\ PersonalRows(debited)' = PersonalRows(debited)
          /\ PersonalRows(refunded)' = PersonalRows(refunded)
      BY <1>1, <2>1, <2>2, RowsKept
    <2> QED BY <1>0, <1>1, <2>3 DEF WalletMatchesLedger
  <1>2. CASE ReservePersonal(j)
    BY <1>0, <1>1, <1>2 DEF ReservePersonal, Sources, WalletRow
  <1>3. ASSUME NEW a \in Assignments, ReservePackage(j, a)
        PROVE  DebitsFollow' /\ WalletMatchesLedger'
    BY <1>1, <1>3 DEF ReservePackage, Sources
  <1>4. CASE ChargePersonal(j)
    <2>1. j \notin debited /\ reservation[j].source = "personal"
      BY <1>4 DEF ChargePersonal, PersonalHolds, DebitsFollow
    <2>2. /\ \A i \in Jobs : /\ reservation'[i].source = reservation[i].source
                             /\ reservation'[i].status = IF i = j THEN "charged"
                                                                  ELSE reservation[i].status
          /\ debited' = debited \cup {j} /\ refunded' = refunded
      BY <1>4 DEF ChargePersonal, QuotaTypeOK, ReservationRow
    <2>3. DebitsFollow'
      BY <2>2 DEF DebitsFollow
    <2>4. /\ PersonalRows(debited)' = PersonalRows(debited) \cup {j}
          /\ PersonalRows(refunded)' = PersonalRows(refunded)
          /\ j \notin PersonalRows(debited)
      BY <2>1, <2>2 DEF PersonalRows, QuotaTypeOK
    <2>5. Cardinality(PersonalRows(debited)') = Cardinality(PersonalRows(debited)) + 1
      BY <1>0, <2>4, FS_AddElement
    <2>6. /\ wallet'.remaining = wallet.remaining - 1 /\ wallet'.used = wallet.used + 1
          /\ wallet'.granted = wallet.granted /\ deducted' = deducted
      BY <1>0, <1>4 DEF ChargePersonal, WalletRow
    <2> QED BY <1>0, <2>3, <2>4, <2>5, <2>6 DEF WalletMatchesLedger, WalletRow
  <1>5. ASSUME NEW a \in Assignments, ChargePackage(j, a)
        PROVE  DebitsFollow' /\ WalletMatchesLedger'
    <2>1. reservation[j].source # "personal"
      BY <1>5, SourceAssumption DEF ChargePackage, PackageHolds
    <2>2. /\ \A i \in Jobs : /\ reservation'[i].source = reservation[i].source
                             /\ reservation'[i].status = IF i = j THEN "charged"
                                                                  ELSE reservation[i].status
          /\ debited' = debited \cup {j} /\ refunded' = refunded
      BY <1>5 DEF ChargePackage, QuotaTypeOK, ReservationRow
    <2>3. DebitsFollow'
      BY <2>2 DEF DebitsFollow
    <2>4. /\ PersonalRows(debited)' = PersonalRows(debited)
          /\ PersonalRows(refunded)' = PersonalRows(refunded)
      BY <2>1, <2>2 DEF PersonalRows, QuotaTypeOK
    <2> QED BY <1>5, <2>3, <2>4 DEF ChargePackage, WalletMatchesLedger
  <1>6. CASE RefundPersonal(j)
    <2>1. /\ reservation[j].source = "personal" /\ reservation[j].status = "charged"
          /\ j \in debited /\ j \notin refunded
      BY <1>6 DEF RefundPersonal
    <2>2. /\ \A i \in Jobs : /\ reservation'[i].source = reservation[i].source
                             /\ reservation'[i].status = IF i = j THEN "refunded"
                                                                  ELSE reservation[i].status
          /\ refunded' = refunded \cup {j} /\ debited' = debited
      BY <1>6 DEF RefundPersonal, QuotaTypeOK, ReservationRow
    <2>3. DebitsFollow'
      BY <2>1, <2>2 DEF DebitsFollow
    <2>4. /\ PersonalRows(refunded)' = PersonalRows(refunded) \cup {j}
          /\ PersonalRows(debited)' = PersonalRows(debited)
          /\ j \notin PersonalRows(refunded)
          /\ PersonalRows(refunded) \cup {j} \subseteq PersonalRows(debited)
      BY <2>1, <2>2 DEF PersonalRows, QuotaTypeOK, DebitsFollow
    <2>5. Cardinality(PersonalRows(refunded) \cup {j}) = Cardinality(PersonalRows(refunded)) + 1
      BY <1>0, <2>4, FS_AddElement
    <2>6. Cardinality(PersonalRows(refunded) \cup {j}) <= Cardinality(PersonalRows(debited))
      BY <1>0, <2>4, FS_Subset
    <2>7. /\ wallet'.remaining = wallet.remaining + 1
          /\ wallet'.used = AtLeastZero(wallet.used - 1)
          /\ wallet'.granted = wallet.granted /\ deducted' = deducted
      BY <1>0, <1>6 DEF RefundPersonal, WalletRow
    <2>8. wallet'.used = wallet.used - 1
      BY <1>0, <2>5, <2>6, <2>7 DEF WalletMatchesLedger, AtLeastZero, WalletRow
    <2> QED BY <1>0, <2>3, <2>4, <2>5, <2>7, <2>8 DEF WalletMatchesLedger, WalletRow
  <1>7. ASSUME NEW a \in Assignments, RefundPackage(j, a)
        PROVE  DebitsFollow' /\ WalletMatchesLedger'
    <2>1. /\ reservation[j].source # "personal" /\ reservation[j].status = "charged"
          /\ j \in debited
      BY <1>7, SourceAssumption DEF RefundPackage, DebitsFollow
    <2>2. /\ \A i \in Jobs : /\ reservation'[i].source = reservation[i].source
                             /\ reservation'[i].status = IF i = j THEN "refunded"
                                                                  ELSE reservation[i].status
          /\ refunded' = refunded \cup {j} /\ debited' = debited
      BY <1>7 DEF RefundPackage, QuotaTypeOK, ReservationRow
    <2>3. DebitsFollow'
      BY <2>1, <2>2 DEF DebitsFollow
    <2>4. /\ PersonalRows(debited)' = PersonalRows(debited)
          /\ PersonalRows(refunded)' = PersonalRows(refunded)
      BY <2>1, <2>2 DEF PersonalRows, QuotaTypeOK
    <2> QED BY <1>7, <2>3, <2>4 DEF RefundPackage, WalletMatchesLedger
  <1>8. ASSUME NEW pending \in BOOLEAN, NEW status \in ReservationStatuses,
               GiveBack(j, pending, status),
               \/ status = "deleted"
               \/ status = "released" /\ reservation[j].status = "reserved"
               \/ status = reservation[j].status
        PROVE  DebitsFollow' /\ WalletMatchesLedger'
    <2>1. /\ reservation' = [reservation EXCEPT ![j].status = status]
          /\ UNCHANGED <<debited, refunded, deducted>>
      BY <1>8 DEF GiveBack
    <2>2. /\ wallet'.used = wallet.used /\ wallet'.remaining = wallet.remaining
          /\ wallet'.granted = wallet.granted
      BY <1>0, <1>8 DEF GiveBack, WalletRow
    <2>3. \A i \in Jobs : /\ reservation'[i].source = reservation[i].source
                          /\ reservation'[i].status = IF i = j THEN status
                                                               ELSE reservation[i].status
      BY <2>1 DEF QuotaTypeOK, ReservationRow
    <2>4. DebitsFollow'
      BY <1>8, <2>1, <2>3 DEF DebitsFollow
    <2>5. /\ PersonalRows(debited)' = PersonalRows(debited)
          /\ PersonalRows(refunded)' = PersonalRows(refunded)
      BY <2>1, <2>3 DEF PersonalRows, QuotaTypeOK
    <2> QED BY <2>1, <2>2, <2>4, <2>5 DEF WalletMatchesLedger
  <1>9. ASSUME NEW pending \in BOOLEAN, ReleaseForJob(j, pending)
        PROVE  DebitsFollow' /\ WalletMatchesLedger'
    <2> DEFINE status == IF reservation[j].status = "reserved" THEN "released"
                                                               ELSE reservation[j].status
    <2>1. /\ status \in ReservationStatuses
          /\ \/ status = "released" /\ reservation[j].status = "reserved"
             \/ status = reservation[j].status
      BY DEF QuotaTypeOK, ReservationRow, ReservationStatuses
    <2>2. GiveBack(j, pending, status)
      BY <1>9 DEF ReleaseForJob
    <2> HIDE DEF status
    <2> QED BY <1>8, <2>1, <2>2
  <1>10. ASSUME NEW pending \in BOOLEAN, DeleteJobQuota(j, pending)
         PROVE  DebitsFollow' /\ WalletMatchesLedger'
    BY <1>8, <1>10 DEF DeleteJobQuota, ReservationStatuses
  <1> QED BY <1>2, <1>3, <1>4, <1>5, <1>6, <1>7, <1>9, <1>10
          DEF ReserveQuota, ChargeReserved, RefundFailedJob

LEMMA LedgerJobPackage ==
  ASSUME QuotaTypeOK, PackageMatchesLedger, NEW j \in Jobs,
         \/ ReserveQuota(j) \/ ChargeReserved(j) \/ RefundFailedJob(j)
         \/ \E pending \in BOOLEAN : ReleaseForJob(j, pending) \/ DeleteJobQuota(j, pending)
  PROVE  PackageMatchesLedger'
  <1>1. lostEdit' = lostEdit
    BY DEF ReserveQuota, ReservePersonal, ReservePackage, ChargeReserved, ChargePersonal,
           ChargePackage, RefundFailedJob, RefundPersonal, RefundPackage,
           ReleaseForJob, DeleteJobQuota, GiveBack
  <1> SUFFICES ASSUME NEW b \in Assignments, PackageAgrees(b) PROVE PackageAgrees(b)'
    BY <1>1 DEF PackageMatchesLedger, PackageAgrees
  <1>2. /\ assignment[b] \in AssignmentRow /\ assignment[b].remaining \in Nat
        /\ periodLedger[b] \in Int /\ Refreshed(b) \in AssignmentRow
    BY PackageRows, AmountType
  <1>3. CASE ReservePersonal(j)
    BY <1>3, PackageRows DEF ReservePersonal, PackageAgrees
  <1>4. ASSUME NEW a \in Assignments, ReservePackage(j, a) PROVE PackageAgrees(b)'
    <2>1. /\ assignment'[b].remaining = Refreshed(b).remaining
          /\ assignment'[b].status = Refreshed(b).status
          /\ periodLedger'[b] = RefreshedLedger(b)
      BY <1>2, <1>4 DEF ReservePackage, AssignmentRow
    <2> QED BY <2>1, PackageRows DEF PackageAgrees
  <1>5. CASE ChargePersonal(j)
    BY <1>5 DEF ChargePersonal, PackageAgrees
  <1>6. ASSUME NEW a \in Assignments, ChargePackage(j, a) PROVE PackageAgrees(b)'
    <2>1. CASE a = b
      <3>1. /\ assignment'[b].remaining = AtLeastZero(assignment[b].remaining - 1)
            /\ assignment'[b].status = assignment[b].status
            /\ periodLedger'[b] = periodLedger[b] - 1
        BY <1>2, <1>6, <2>1 DEF ChargePackage, Charged, AssignmentRow, QuotaTypeOK
      <3> QED BY <1>2, <3>1 DEF PackageAgrees, AtLeastZero
    <2>2. CASE a # b
      <3>1. assignment'[b] = assignment[b] /\ periodLedger'[b] = periodLedger[b]
        BY <1>6, <2>2 DEF ChargePackage, QuotaTypeOK
      <3> QED BY <3>1 DEF PackageAgrees
    <2> QED BY <2>1, <2>2
  <1>7. CASE RefundPersonal(j)
    BY <1>7 DEF RefundPersonal, PackageAgrees
  <1>8. ASSUME NEW a \in Assignments, RefundPackage(j, a) PROVE PackageAgrees(b)'
    <2>1. CASE a = b
      <3>1. /\ assignment'[b].remaining = assignment[b].remaining + 1
            /\ assignment'[b].status = assignment[b].status
            /\ periodLedger'[b] = periodLedger[b] + 1
        BY <1>2, <1>8, <2>1 DEF RefundPackage, AssignmentRow, QuotaTypeOK
      <3> QED BY <1>2, <3>1 DEF PackageAgrees
    <2>2. CASE a # b
      <3>1. assignment'[b] = assignment[b] /\ periodLedger'[b] = periodLedger[b]
        BY <1>8, <2>2 DEF RefundPackage, QuotaTypeOK
      <3> QED BY <3>1 DEF PackageAgrees
    <2> QED BY <2>1, <2>2
  <1>9. ASSUME NEW pending \in BOOLEAN, NEW status, GiveBack(j, pending, status)
        PROVE  PackageAgrees(b)'
    <2>1. periodLedger' = periodLedger
      BY <1>9 DEF GiveBack
    <2>2. /\ assignment'[b].remaining = assignment[b].remaining
          /\ assignment'[b].status = assignment[b].status
      <3>1. \/ assignment' = assignment
            \/ \E a \in Assignments :
                 assignment' = [assignment EXCEPT ![a].reserved = AtLeastZero(@ - 1)]
        BY <1>9 DEF GiveBack
      <3> QED BY <1>2, <3>1 DEF QuotaTypeOK, AssignmentRow
    <2> QED BY <2>1, <2>2 DEF PackageAgrees
  <1> QED BY <1>3, <1>4, <1>5, <1>6, <1>7, <1>8, <1>9
          DEF ReserveQuota, ChargeReserved, RefundFailedJob, ReleaseForJob, DeleteJobQuota

\* Wallet and packages agree with the ledgers the user is shown, in whatever order the
\* bookings of jobs, the refreshes and the edits of administrators come (quota_plans.py).
THEOREM LedgersAgree == QuotaSpec => []LedgersMatch
  <1>1. QuotaTypeOK /\ LedgerInv /\ [QuotaNext]_quotaVars => LedgerInv'
    <2> SUFFICES ASSUME QuotaTypeOK, LedgerInv, [QuotaNext]_quotaVars PROVE LedgerInv'
      OBVIOUS
    <2>1. CASE JobNext
      BY <2>1, LedgerJobWallet, LedgerJobPackage DEF JobNext, LedgerInv, LedgersMatch
    <2>2. CASE UNCHANGED quotaVars
      BY <2>2, RowsUntouched DEF quotaVars, LedgerInv, LedgersMatch, WalletMatchesLedger,
                                 PackageMatchesLedger
    <2> QED BY <2>1, <2>2, LedgerWallet, LedgerPackage DEF QuotaNext
  <1>2. LedgerInv => LedgersMatch
    BY DEF LedgerInv
  <1> QED BY LedgerInit, <1>1, <1>2, QuotaTypeCorrect, PTL DEF QuotaSpec

--------------------------------------------------------------------------------
\* The books keep the promise of JobQuota.

Stage == [j \in Jobs |-> reservation[j].status]
Source == [j \in Jobs |-> reservation[j].source]

\* Changing the status column of a reservation moves the stage of its job alone.
LEMMA StageMoves ==
  ASSUME QuotaTypeOK, NEW j \in Jobs, NEW s,
         reservation' = [reservation EXCEPT ![j].status = s]
  PROVE  /\ Stage' = [Stage EXCEPT ![j] = s]
         /\ Source' = Source
  <1>1. reservation \in [Jobs -> ReservationRow]
    BY DEF QuotaTypeOK
  <1>2. \A i \in Jobs : reservation'[i].status = IF i = j THEN s ELSE reservation[i].status
    BY <1>1 DEF ReservationRow
  <1>3. \A i \in Jobs : reservation'[i].source = reservation[i].source
    BY <1>1 DEF ReservationRow
  <1> QED BY <1>2, <1>3 DEF Stage, Source

\* A new reservation sets the stage and the source of its job.
LEMMA StageStarts ==
  ASSUME QuotaTypeOK, NEW j \in Jobs, NEW a,
         reservation' = [reservation EXCEPT ![j] = [status |-> "reserved", source |-> a]]
  PROVE  /\ Stage' = [Stage EXCEPT ![j] = "reserved"]
         /\ Source' = [Source EXCEPT ![j] = a]
  BY DEF Stage, Source, QuotaTypeOK

\* The reservation, charge, release, refund or deletion of a job's unit is the step
\* of the promise it looks like.
LEMMA JobKeepsPromise ==
  ASSUME QuotaTypeOK, QuotaTypeOK', JobNext
  PROVE  Promise!Next \/ UNCHANGED Promise!jobQuotaVars
  <1>1. PICK j \in Jobs :
          \/ ReserveQuota(j) \/ ChargeReserved(j) \/ RefundFailedJob(j)
          \/ \E pending \in BOOLEAN : ReleaseForJob(j, pending) \/ DeleteJobQuota(j, pending)
    BY DEF JobNext
  <1>2. wallet \in WalletRow /\ reservation[j] \in ReservationRow
    BY DEF QuotaTypeOK
  <1>3. CASE ReserveQuota(j)
    <2>1. PICK s \in Sources :
            /\ reservation[j].status = "none" /\ wallet'.remaining = wallet.remaining
            /\ reservation' = [reservation EXCEPT ![j] = [status |-> "reserved", source |-> s]]
      <3>1. CASE ReservePersonal(j)
        BY <1>2, <3>1 DEF ReservePersonal, WalletRow, Sources
      <3>2. CASE \E a \in Assignments : ReservePackage(j, a)
        BY <3>2 DEF ReservePackage, Sources
      <3> QED BY <1>3, <3>1, <3>2 DEF ReserveQuota
    <2>2. Stage' = [Stage EXCEPT ![j] = "reserved"] /\ Source' = [Source EXCEPT ![j] = s]
      BY <2>1, StageStarts
    <2>3. Promise!Hold(j, s)
      BY <2>1, <2>2 DEF Promise!Hold, Promise!Move, Stage, Source
    <2> QED BY <2>3 DEF Promise!Next, Promise!Sources, Sources
  <1>4. CASE ChargeReserved(j)
    <2>1. /\ reservation[j].status = "reserved"
          /\ reservation' = [reservation EXCEPT ![j].status = "charged"]
          /\ wallet'.remaining = wallet.remaining
                                   - (IF reservation[j].source = "personal" THEN 1 ELSE 0)
      <3>1. CASE ChargePersonal(j)
        BY <1>2, <3>1 DEF ChargePersonal, PersonalHolds, WalletRow
      <3>2. CASE \E a \in Assignments : ChargePackage(j, a)
        BY <1>2, <3>2, SourceAssumption DEF ChargePackage, PackageHolds, WalletRow
      <3> QED BY <1>4, <3>1, <3>2 DEF ChargeReserved
    <2>2. Stage' = [Stage EXCEPT ![j] = "charged"] /\ Source' = Source
      BY <2>1, StageMoves
    <2>3. Promise!Charge(j)
      BY <2>1, <2>2 DEF Promise!Charge, Promise!Move, Promise!Price, Stage, Source
    <2> QED BY <2>3 DEF Promise!Next
  <1>5. CASE RefundFailedJob(j)
    <2>1. /\ reservation[j].status = "charged"
          /\ reservation' = [reservation EXCEPT ![j].status = "refunded"]
          /\ wallet'.remaining = wallet.remaining
                                   + (IF reservation[j].source = "personal" THEN 1 ELSE 0)
      <3>1. CASE RefundPersonal(j)
        BY <1>2, <3>1 DEF RefundPersonal, WalletRow
      <3>2. CASE \E a \in Assignments : RefundPackage(j, a)
        BY <1>2, <3>2, SourceAssumption DEF RefundPackage, WalletRow
      <3> QED BY <1>5, <3>1, <3>2 DEF RefundFailedJob
    <2>2. Stage' = [Stage EXCEPT ![j] = "refunded"] /\ Source' = Source
      BY <2>1, StageMoves
    <2>3. Promise!Refund(j)
      BY <2>1, <2>2 DEF Promise!Refund, Promise!Move, Promise!Price, Stage, Source
    <2> QED BY <2>3 DEF Promise!Next
  <1>6. ASSUME NEW pending \in BOOLEAN, NEW s, GiveBack(j, pending, s)
        PROVE  /\ reservation[j].status # "none"
               /\ Stage' = [Stage EXCEPT ![j] = s] /\ Source' = Source
               /\ wallet'.remaining = wallet.remaining
    <2>1. reservation[j].status # "none"
          /\ reservation' = [reservation EXCEPT ![j].status = s]
      BY <1>6 DEF GiveBack
    <2>2. wallet'.remaining = wallet.remaining
      BY <1>2, <1>6 DEF GiveBack, WalletRow
    <2> QED BY <2>1, <2>2, StageMoves
  <1>7. ASSUME NEW pending \in BOOLEAN, ReleaseForJob(j, pending)
        PROVE  Promise!Next \/ UNCHANGED Promise!jobQuotaVars
    <2>1. CASE reservation[j].status = "reserved"
      <3>1. GiveBack(j, pending, "released")
        BY <1>7, <2>1 DEF ReleaseForJob
      <3>2. Promise!Release(j)
        BY <2>1, <3>1, <1>6 DEF Promise!Release, Promise!Move, Stage, Source
      <3> QED BY <3>2 DEF Promise!Next
    <2>2. CASE reservation[j].status # "reserved"
      <3>1. GiveBack(j, pending, reservation[j].status)
        BY <1>7, <2>2 DEF ReleaseForJob
      <3>2. Stage' = Stage /\ Source' = Source /\ wallet'.remaining = wallet.remaining
        BY <3>1, <1>6 DEF Stage
      <3> QED BY <3>2 DEF Promise!jobQuotaVars, Stage, Source
    <2> QED BY <2>1, <2>2
  <1>8. ASSUME NEW pending \in BOOLEAN, DeleteJobQuota(j, pending)
        PROVE  Promise!Next
    <2>1. GiveBack(j, pending, "deleted")
      BY <1>8 DEF DeleteJobQuota
    <2>2. reservation[j].status \in Promise!Stages \ {"none"}
      BY <1>2, <2>1, <1>6 DEF Promise!Stages, ReservationRow, ReservationStatuses
    <2>3. Promise!Forget(j)
      BY <2>1, <2>2, <1>6 DEF Promise!Forget, Promise!Move, Stage, Source
    <2> QED BY <2>3 DEF Promise!Next
  <1> QED BY <1>1, <1>3, <1>4, <1>5, <1>7, <1>8

\* Packages and grants leave the jobs' units alone.
LEMMA BooksKeepPromise ==
  ASSUME QuotaTypeOK, QuotaTypeOK', WalletNext \/ PackageNext
  PROVE  Promise!Next
  <1>1. reservation' = reservation
    BY DEF WalletNext, GrantQuota, DeductQuota, PackageNext, RefreshDuePackages, PeriodEnds,
           BindCheck, BindInsert, Unbind, CustomRead, CustomWrite, TogglePlan, UpdatePlan
  <1>2. wallet'.remaining \in Int
    BY DEF QuotaTypeOK, WalletRow
  <1>3. Promise!Adjust
    BY <1>1, <1>2 DEF Promise!Adjust
  <1> QED BY <1>3 DEF Promise!Next

\* The books implement the promise: each job's unit is held, spent and given back at
\* most once and in that order, and the personal balance moves by exactly the units
\* charged and refunded (reserve_quota_for_job, charge_reserved_quota,
\* release_reserved_quota_for_job, refund_failed_job_quota, _delete_job).
THEOREM QuotaKeepsPromise == QuotaSpec => PromiseSpec
  <1>1. QuotaInit => Promise!Init
    BY DEF QuotaInit, Promise!Init
  <1>2. ASSUME QuotaTypeOK, QuotaTypeOK', [QuotaNext]_quotaVars
        PROVE  [Promise!Next]_Promise!jobQuotaVars
    <2>1. CASE JobNext
      BY <1>2, <2>1, JobKeepsPromise
    <2>2. CASE WalletNext \/ PackageNext
      BY <1>2, <2>2, BooksKeepPromise
    <2>3. CASE UNCHANGED quotaVars
      BY <2>3 DEF quotaVars, Promise!jobQuotaVars
    <2> QED BY <1>2, <2>1, <2>2, <2>3 DEF QuotaNext
  <1>3. QuotaSpec => []QuotaTypeOK
    BY QuotaTypeCorrect
  <1> QED BY <1>1, <1>2, <1>3, PTL DEF QuotaSpec, PromiseSpec, Promise!Spec

--------------------------------------------------------------------------------
\* The books under the pipeline.

\* Releasing, refunding, deleting and reserving as the handlers do it are job steps.
LEMMA QuotaCalls ==
  ASSUME NEW j \in Jobs
  PROVE  /\ \A row : ReleaseForJob(j, Pending(row)) => JobNext
         /\ \A row : DeleteJobQuota(j, Pending(row)) => JobNext
         /\ Refund(j) => JobNext \/ UNCHANGED quotaVars
         /\ ReserveQuota(j) \/ ChargeReserved(j) => JobNext
  <1>1. \A row : Pending(row) \in BOOLEAN
    BY DEF Pending
  <1>2. \A row : ReleaseForJob(j, Pending(row)) \/ DeleteJobQuota(j, Pending(row)) => JobNext
    BY <1>1 DEF JobNext
  <1>3. RefundFailedJob(j) \/ ReserveQuota(j) \/ ChargeReserved(j) => JobNext
    BY DEF JobNext
  <1> QED BY <1>2, <1>3 DEF Refund

LEMMA SubmitRefines ==
  ASSUME NEW j \in Jobs, SubmitNext(j)
  PROVE  [QuotaNext]_quotaVars
  <1>1. CASE CreateJob(j) \/ SubmitRejected(j)
    BY <1>1, QuotaCalls DEF CreateJob, SubmitRejected, QuotaNext
  <1>2. CASE SubmitStart(j) \/ PostAccepted(j) \/ SubmitBreaks(j) \/ SubmitLost(j)
    BY <1>2 DEF SubmitStart, PostAccepted, SubmitBreaks, SubmitLost
  <1>3. CASE \E retryable \in BOOLEAN : SubmitFails(j, retryable)
    <2>1. PICK retryable \in BOOLEAN : SubmitFails(j, retryable)
      BY <1>3
    <2>2. ReleaseForJob(j, Pending(sub[j].seen)) \/ UNCHANGED quotaVars
      BY <2>1 DEF SubmitFails
    <2> QED BY <2>2, QuotaCalls DEF QuotaNext
  <1>4. CASE SubmitCommit(j)
    <2>1. ChargeReserved(j) \/ UNCHANGED quotaVars
      BY <1>4 DEF SubmitCommit
    <2> QED BY <2>1, QuotaCalls DEF QuotaNext
  <1> QED BY <1>1, <1>2, <1>3, <1>4 DEF SubmitNext

LEMMA PollRefines ==
  ASSUME NEW p \in Pollers, NEW j \in Jobs, PollNext(p, j)
  PROVE  [QuotaNext]_quotaVars
  <1>1. CASE PollFailed(p, j) \/ PollRefused(p, j)
    BY <1>1, QuotaCalls DEF PollFailed, PollRefused, QuotaNext
  <1>2. CASE ~PollFailed(p, j) /\ ~PollRefused(p, j)
    BY <1>2 DEF PollNext, ProcessResumesDownload, PollStart, PollError, PollProcessing,
                PollFallback, PollCompleted, PollVoid
  <1> QED BY <1>1, <1>2

LEMMA DownloadRefines ==
  ASSUME NEW j \in Jobs, DownloadNext(j)
  PROVE  [QuotaNext]_quotaVars
  <1>1. CASE DownloadRefused(j)
    BY <1>1, QuotaCalls DEF DownloadRefused, QuotaNext
  <1>2. CASE DownloadError(j)
    <2>1. Refund(j) \/ UNCHANGED quotaVars
      BY <1>2 DEF DownloadError
    <2> QED BY <2>1, QuotaCalls DEF QuotaNext
  <1>3. CASE \/ ClaimFindsFile(j) \/ ClaimRestoresPolling(j) \/ ClaimExhausted(j)
             \/ ClaimWaits(j) \/ ClaimStarts(j)
    BY <1>3 DEF ClaimFindsFile, ClaimRestoresPolling, ClaimExhausted, ClaimWaits,
                ClaimStarts, Claim
  <1>4. CASE \/ DownloadSaved(j) \/ DownloadBooked(j) \/ DownloadDropped(j)
             \/ DownloadPartial(j) \/ DownloadNotReady(j) \/ DownloadBreaks(j)
    BY <1>4 DEF DownloadSaved, DownloadBooked, DownloadDropped, DownloadPartial,
                DownloadNotReady, DownloadBreaks
  <1> QED BY <1>1, <1>2, <1>3, <1>4 DEF DownloadNext

LEMMA ScanRefines ==
  ASSUME NEW j \in Jobs, ScanNext(j)
  PROVE  UNCHANGED quotaVars
  BY DEF ScanNext, ScanRead, ScanSkips, RecoverSubmitting, CompleteExisting,
         RecoverDownloading, ScanEnds

LEMMA ClickRefines ==
  ASSUME NEW j \in Jobs, ClickNext(j)
  PROVE  [QuotaNext]_quotaVars
  <1>1. CASE BulkDeleteWrite(j) \/ DeleteOne(j)
    <2>1. PICK row : DeleteJobQuota(j, Pending(row))
      BY <1>1 DEF BulkDeleteWrite, DeleteOne, Delete
    <2> QED BY <2>1, QuotaCalls DEF QuotaNext
  <1>2. CASE PauseRead(j) \/ RedownloadRead(j) \/ AdminResumeRead(j) \/ BulkDeleteRead(j)
    BY <1>2 DEF PauseRead, RedownloadRead, AdminResumeRead, BulkDeleteRead, OpRead
  <1>3. CASE \/ OpWrite(j) \/ OpVoid(j) \/ KickEnds(j)
             \/ UserResume(j) \/ AdminRedownload(j) \/ BatchRetryDownload(j)
    BY <1>3 DEF OpWrite, OpVoid, KickEnds, UserResume, AdminRedownload, BatchRetryDownload,
                LockedWrite
  <1> QED BY <1>1, <1>2, <1>3 DEF ClickNext

LEMMA StepRefines == [PipelineNext]_vars => [QuotaNext]_quotaVars
  <1> SUFFICES ASSUME [PipelineNext]_vars PROVE [QuotaNext]_quotaVars OBVIOUS
  <1>1. ASSUME NEW j \in Jobs, SubmitNext(j) PROVE [QuotaNext]_quotaVars
    BY <1>1, SubmitRefines
  <1>2. ASSUME NEW j \in Jobs, NEW p \in Pollers, PollNext(p, j) PROVE [QuotaNext]_quotaVars
    BY <1>2, PollRefines
  <1>3. ASSUME NEW j \in Jobs, DownloadNext(j) PROVE [QuotaNext]_quotaVars
    BY <1>3, DownloadRefines
  <1>4. ASSUME NEW j \in Jobs, ScanNext(j) PROVE [QuotaNext]_quotaVars
    BY <1>4, ScanRefines
  <1>5. ASSUME NEW j \in Jobs, ClickNext(j) PROVE [QuotaNext]_quotaVars
    BY <1>5, ClickRefines
  <1>6. ASSUME NEW j \in Jobs, UpstreamNext(j) PROVE [QuotaNext]_quotaVars
    BY <1>6 DEF UpstreamNext, UpstreamFinishes
  <1>7. CASE WorkerCrash \/ WorkerStart
    BY <1>7 DEF WorkerCrash, WorkerStart
  <1>8. CASE BooksNext
    BY <1>8 DEF BooksNext, QuotaNext
  <1>9. CASE UNCHANGED vars
    BY <1>9 DEF vars
  <1> QED BY <1>1, <1>2, <1>3, <1>4, <1>5, <1>6, <1>7, <1>8, <1>9 DEF PipelineNext

\* The pipeline moves the quota books only as services/quota_plans.py and jobs.py
\* allow, so it is a refinement of Quota.
THEOREM PipelineRefinesQuota == PipelineSpec => QuotaSpec
  <1>1. PipelineInit => QuotaInit
    BY DEF PipelineInit
  <1> QED BY <1>1, StepRefines, PTL DEF PipelineSpec, QuotaSpec

\* Whatever submission, recovery, downloads and clicks do, the wallet's reserved units
\* are those of the jobs that hold one, and the balance covers them all.
THEOREM PipelineCoversWallet == PipelineSpec => []WalletCovers
  BY PipelineRefinesQuota, WalletCovered, PTL

\* And it keeps the promise of JobQuota.
THEOREM PipelineKeepsPromise == PipelineSpec => PromiseSpec
  BY PipelineRefinesQuota, QuotaKeepsPromise, PTL

--------------------------------------------------------------------------------
\* Rows, and what becomes of them when they are stored or flushed.

\* The columns of a row left by a session that writes new over a row it read as seen.
LEMMA FlushedRow ==
  ASSUME NEW row \in JobRow, NEW seen \in JobRow, NEW new \in JobRow
  PROVE  /\ Flush(row, seen, new) \in JobRow
         /\ Flush(row, seen, new).status
              = IF new.status = seen.status THEN row.status ELSE new.status
         /\ Flush(row, seen, new).remote
              = IF new.remote = seen.remote THEN row.remote ELSE new.remote
  <1>1. DOMAIN row = {"status", "remote", "submits", "downloads", "full"}
    BY DEF JobRow
  <1>2. /\ new.status \in Statuses /\ row.status \in Statuses
        /\ new.remote \in Tasks \cup {NoTask} /\ row.remote \in Tasks \cup {NoTask}
        /\ new.submits \in 0..MaxSubmit /\ row.submits \in 0..MaxSubmit
        /\ new.downloads \in 0..MaxDownloads /\ row.downloads \in 0..MaxDownloads
        /\ new.full \in BOOLEAN /\ row.full \in BOOLEAN
    BY DEF JobRow
  <1>3. Flush(row, seen, new)
          = [status |-> IF new.status = seen.status THEN row.status ELSE new.status,
             remote |-> IF new.remote = seen.remote THEN row.remote ELSE new.remote,
             submits |-> IF new.submits = seen.submits THEN row.submits ELSE new.submits,
             downloads |-> IF new.downloads = seen.downloads THEN row.downloads
                                                             ELSE new.downloads,
             full |-> IF new.full = seen.full THEN row.full ELSE new.full]
    BY <1>1 DEF Flush
  <1>4. Flush(row, seen, new) \in JobRow
    BY <1>2, <1>3 DEF JobRow
  <1> QED BY <1>3, <1>4

\* Overwriting columns of a row.
LEMMA RowEdited ==
  ASSUME NEW row \in JobRow, NEW s \in Statuses, NEW n \in 0..MaxDownloads,
         NEW m \in 0..MaxSubmit, NEW b \in BOOLEAN, NEW k \in Tasks
  PROVE  /\ [row EXCEPT !.status = s] \in JobRow
         /\ [row EXCEPT !.status = s, !.submits = m] \in JobRow
         /\ [row EXCEPT !.status = s, !.full = b] \in JobRow
         /\ [row EXCEPT !.status = s, !.downloads = n] \in JobRow
         /\ [row EXCEPT !.status = s, !.downloads = n, !.full = b] \in JobRow
         /\ [row EXCEPT !.status = s, !.remote = k, !.full = b] \in JobRow
  BY DEF JobRow

\* What the type invariant says of the columns and threads of one job.
LEMMA TypedAt ==
  ASSUME PipelineTypeOK, NEW j \in Jobs
  PROVE  /\ job[j] \in JobRow
         /\ job[j].status \in Statuses /\ job[j].remote \in Tasks \cup {NoTask}
         /\ job[j].submits \in 0..MaxSubmit /\ job[j].downloads \in 0..MaxDownloads
         /\ job[j].full \in BOOLEAN
         /\ sub[j] # Idle => /\ sub[j].pc \in {"posting", "accepted"} /\ sub[j].seen \in JobRow
                             /\ sub[j].pc = "accepted" => sub[j].task \in Tasks
         /\ \A p \in Pollers : poll[p][j] # Idle => poll[p][j].pc = "asking"
                                                      /\ poll[p][j].seen \in JobRow
         /\ dl[j] # Idle => dl[j].pc \in {"transferring", "saved"} /\ dl[j].task \in Tasks
         /\ op[j] # Idle => /\ op[j].pc \in {"scan", "pause", "redownload", "resume", "delete"}
                            /\ op[j].seen \in JobRow
                            /\ op[j].pc # "scan" => op[j].new \in JobRow
  <1>1. job[j] \in JobRow
    BY DEF PipelineTypeOK
  <1>2. sub[j] # Idle => /\ sub[j].pc \in {"posting", "accepted"} /\ sub[j].seen \in JobRow
                         /\ sub[j].pc = "accepted" => sub[j].task \in Tasks
    BY DEF PipelineTypeOK, SubmitThread
  <1>3. ASSUME NEW p \in Pollers, poll[p][j] # Idle
        PROVE  poll[p][j].pc = "asking" /\ poll[p][j].seen \in JobRow
    BY <1>3 DEF PipelineTypeOK, Poll
  <1>4. dl[j] # Idle => dl[j].pc \in {"transferring", "saved"} /\ dl[j].task \in Tasks
    BY DEF PipelineTypeOK, DownloadThread
  <1>5. op[j] # Idle => /\ op[j].pc \in {"scan", "pause", "redownload", "resume", "delete"}
                        /\ op[j].seen \in JobRow
                        /\ op[j].pc # "scan" => op[j].new \in JobRow
    BY DEF PipelineTypeOK, Operation
  <1>6. /\ job[j].status \in Statuses /\ job[j].remote \in Tasks \cup {NoTask}
        /\ job[j].submits \in 0..MaxSubmit /\ job[j].downloads \in 0..MaxDownloads
        /\ job[j].full \in BOOLEAN
    BY <1>1 DEF JobRow
  <1> QED BY <1>1, <1>2, <1>3, <1>4, <1>5, <1>6

\* Storing a row of job j.
LEMMA RowStored ==
  ASSUME PipelineTypeOK, NEW j \in Jobs, NEW row \in JobRow, job' = [job EXCEPT ![j] = row]
  PROVE  /\ job' \in [Jobs -> JobRow] /\ job'[j] = row
         /\ \A i \in Jobs \ {j} : job'[i] = job[i]
  BY DEF PipelineTypeOK

\* Flushing a row of job j.
LEMMA RowWritten ==
  ASSUME PipelineTypeOK, NEW j \in Jobs, NEW seen \in JobRow, NEW new \in JobRow,
         Write(j, seen, new)
  PROVE  /\ job' \in [Jobs -> JobRow]
         /\ \A i \in Jobs \ {j} : job'[i] = job[i]
         /\ job'[j].status = IF Exists(j) /\ new.status # seen.status THEN new.status
                                                                      ELSE job[j].status
         /\ job'[j].remote = IF Exists(j) /\ new.remote # seen.remote THEN new.remote
                                                                      ELSE job[j].remote
         /\ ~Exists(j) => job'[j] = job[j]
  <1> DEFINE row == IF Exists(j) THEN Flush(job[j], seen, new) ELSE job[j]
  <1>1. job[j] \in JobRow
    BY TypedAt
  <1>2. row \in JobRow
    BY <1>1, FlushedRow
  <1>3. job' = [job EXCEPT ![j] = row]
    BY DEF Write
  <1>4. /\ row.status = IF Exists(j) /\ new.status # seen.status THEN new.status ELSE job[j].status
        /\ row.remote = IF Exists(j) /\ new.remote # seen.remote THEN new.remote ELSE job[j].remote
        /\ ~Exists(j) => row = job[j]
    BY <1>1, FlushedRow
  <1> HIDE DEF row
  <1>5. job' \in [Jobs -> JobRow] /\ job'[j] = row /\ \A i \in Jobs \ {j} : job'[i] = job[i]
    BY <1>2, <1>3, RowStored
  <1> QED BY <1>4, <1>5

--------------------------------------------------------------------------------
\* Types of the rows and of what the threads remember of them.

\* The statuses of a row that may still be without an upstream task.
Unstarted == Absent \cup {"queued", "submitting", "failed"}

HasTask(j) == job[j].remote # NoTask

\* A row past its submission names an upstream task, and the task exists.
TaskNamed(j) ==
  /\ job[j].status \notin Unstarted => HasTask(j)
  /\ HasTask(j) => task[j][job[j].remote] # "none"
  /\ sub[j].pc = "accepted" => task[j][sub[j].task] # "none"

\* Nothing a thread may still write over the row takes the task away again.
TaskKept(j) ==
  /\ sub[j] # Idle /\ sub[j].seen.remote # NoTask => HasTask(j)
  /\ \A p \in Pollers : poll[p][j] # Idle => HasTask(j)
  /\ op[j].pc = "scan" /\ op[j].seen.status \in ResultStatuses => HasTask(j)
  /\ op[j].pc \in {"pause", "redownload", "resume"}
       => HasTask(j) /\ op[j].new.remote = op[j].seen.remote

TypeInv == PipelineTypeOK /\ \A j \in Jobs : TaskNamed(j) /\ TaskKept(j)

\* A step that keeps the task of job j and starts no thread for it.
LEMMA TaskStays ==
  ASSUME TypeInv, NEW j \in Jobs,
         job'[j].remote = job[j].remote,
         job'[j].status \notin Unstarted => HasTask(j),
         \A k \in Tasks : task[j][k] # "none" => task'[j][k] # "none",
         sub'[j] \in {sub[j], Idle}, op'[j] \in {op[j], Idle},
         \A p \in Pollers : poll'[p][j] \in {poll[p][j], Idle}
  PROVE  TaskNamed(j)' /\ TaskKept(j)'
  <1>1. /\ job[j].remote \in Tasks \cup {NoTask}
        /\ sub[j].pc = "accepted" => sub[j].task \in Tasks
    BY TypedAt DEF TypeInv, Idle
  <1>2. TaskNamed(j) /\ TaskKept(j)
    BY DEF TypeInv
  <1>3. HasTask(j)' <=> HasTask(j)
    BY DEF HasTask
  <1>4. TaskNamed(j)'
    BY <1>1, <1>2, <1>3 DEF TaskNamed, HasTask, Idle
  <1>5. TaskKept(j)'
    BY <1>2, <1>3 DEF TaskKept, Idle
  <1> QED BY <1>4, <1>5

\* What the steps of a job leave alone of another one.
Same(i) ==
  /\ job'[i] = job[i] /\ events'[i] = events[i]
  /\ record'[i] = record[i] /\ files'[i] = files[i] /\ task'[i] = task[i]
  /\ sub'[i] = sub[i] /\ dl'[i] = dl[i] /\ op'[i] = op[i]
  /\ \A p \in Pollers : poll'[p][i] = poll[p][i]
  /\ reservation'[i] = reservation[i]

\* The quota books of other jobs are left alone.
LEMMA UnitsSame ==
  ASSUME QuotaTypeOK, NEW j \in Jobs, NEW i \in Jobs \ {j},
         \/ ReserveQuota(j) \/ ChargeReserved(j) \/ Refund(j) \/ UNCHANGED quotaVars
         \/ \E row : ReleaseForJob(j, Pending(row)) \/ DeleteJobQuota(j, Pending(row))
  PROVE  reservation'[i] = reservation[i]
  BY DEF QuotaTypeOK, ReserveQuota, ReservePersonal, ReservePackage, ChargeReserved,
         ChargePersonal, ChargePackage, Refund, RefundFailedJob, RefundPersonal, RefundPackage,
         ReleaseForJob, DeleteJobQuota, GiveBack, quotaVars

\* A flush of job j leaves other rows alone.
LEMMA WriteSame ==
  ASSUME NEW j \in Jobs, NEW i \in Jobs \ {j}, job \in [Jobs -> JobRow],
         NEW seen, NEW new, Write(j, seen, new)
  PROVE  job'[i] = job[i]
  BY DEF Write

\* What SubmitNext, PollNext, DownloadNext, ScanNext, ClickNext and UpstreamNext of a job
\* leave alone of another.
LEMMA SubmitSame ==
  ASSUME PipelineTypeOK, QuotaTypeOK, NEW j \in Jobs, NEW i \in Jobs \ {j}, SubmitNext(j)
  PROVE  Same(i)
  <1> USE DEF PipelineTypeOK, Same, rowVars, outputVars, threadVars
  <1>1. CASE CreateJob(j)
    <2>1. reservation'[i] = reservation[i]
      BY <1>1, UnitsSame DEF CreateJob
    <2> QED BY <1>1, <2>1 DEF CreateJob
  <1>2. CASE SubmitStart(j)
    BY <1>2 DEF SubmitStart, quotaVars
  <1>3. CASE SubmitRejected(j)
    <2>1. reservation'[i] = reservation[i]
      BY <1>3, UnitsSame DEF SubmitRejected
    <2> QED BY <1>3, <2>1 DEF SubmitRejected
  <1>4. CASE PostAccepted(j)
    BY <1>4 DEF PostAccepted, quotaVars
  <1>5. ASSUME NEW retryable \in BOOLEAN, SubmitFails(j, retryable) PROVE Same(i)
    <2>1. job'[i] = job[i]
      BY <1>5, WriteSame DEF SubmitFails
    <2>2. reservation'[i] = reservation[i]
      <3>1. ReleaseForJob(j, Pending(sub[j].seen)) \/ UNCHANGED quotaVars
        BY <1>5 DEF SubmitFails
      <3> QED BY <3>1, UnitsSame
    <2> QED BY <1>5, <2>1, <2>2 DEF SubmitFails
  <1>6. CASE SubmitCommit(j)
    <2>1. job'[i] = job[i]
      BY <1>6, WriteSame DEF SubmitCommit
    <2>2. reservation'[i] = reservation[i]
      <3>1. ChargeReserved(j) \/ UNCHANGED quotaVars
        BY <1>6 DEF SubmitCommit
      <3> QED BY <3>1, UnitsSame
    <2> QED BY <1>6, <2>1, <2>2 DEF SubmitCommit
  <1>7. CASE SubmitBreaks(j)
    BY <1>7 DEF SubmitBreaks, quotaVars
  <1>8. CASE SubmitLost(j)
    BY <1>8 DEF SubmitLost, quotaVars
  <1> QED BY <1>1, <1>2, <1>3, <1>4, <1>5, <1>6, <1>7, <1>8 DEF SubmitNext

LEMMA PollSame ==
  ASSUME PipelineTypeOK, QuotaTypeOK, NEW p \in Pollers, NEW j \in Jobs, NEW i \in Jobs \ {j},
         PollNext(p, j)
  PROVE  Same(i)
  <1> USE DEF PipelineTypeOK, Same, rowVars, outputVars, threadVars
  <1>1. CASE ProcessResumesDownload(p, j)
    BY <1>1 DEF ProcessResumesDownload, quotaVars, AfterStart
  <1>2. CASE PollStart(p, j)
    BY <1>2 DEF PollStart, quotaVars, AfterStart
  <1>3. CASE PollError(p, j)
    BY <1>3 DEF PollError, PollEnds, quotaVars
  <1>4. CASE PollProcessing(p, j)
    <2>1. job'[i] = job[i]
      BY <1>4, WriteSame DEF PollProcessing
    <2> QED BY <1>4, <2>1 DEF PollProcessing, PollEnds, quotaVars
  <1>5. CASE PollFallback(p, j)
    <2>1. job'[i] = job[i]
      BY <1>5, WriteSame DEF PollFallback
    <2> QED BY <1>5, <2>1 DEF PollFallback, PollEnds, quotaVars
  <1>6. CASE PollCompleted(p, j)
    <2>1. job'[i] = job[i]
      BY <1>6, WriteSame DEF PollCompleted
    <2> QED BY <1>6, <2>1 DEF PollCompleted, PollEnds, quotaVars
  <1>7. CASE PollFailed(p, j)
    <2>1. job'[i] = job[i]
      BY <1>7, WriteSame DEF PollFailed
    <2>2. reservation'[i] = reservation[i]
      BY <1>7, UnitsSame DEF PollFailed
    <2> QED BY <1>7, <2>1, <2>2 DEF PollFailed, PollEnds
  <1>8. CASE PollVoid(p, j)
    BY <1>8 DEF PollVoid, PollEnds, quotaVars
  <1>9. CASE PollRefused(p, j)
    <2>1. job'[i] = job[i]
      BY <1>9, WriteSame DEF PollRefused
    <2>2. reservation'[i] = reservation[i]
      BY <1>9, UnitsSame DEF PollRefused
    <2> QED BY <1>9, <2>1, <2>2 DEF PollRefused, PollEnds
  <1> QED BY <1>1, <1>2, <1>3, <1>4, <1>5, <1>6, <1>7, <1>8, <1>9 DEF PollNext

LEMMA DownloadSame ==
  ASSUME PipelineTypeOK, QuotaTypeOK, NEW j \in Jobs, NEW i \in Jobs \ {j}, DownloadNext(j)
  PROVE  Same(i)
  <1> USE DEF PipelineTypeOK, Same, rowVars, outputVars, threadVars
  <1>1. CASE ClaimFindsFile(j)
    BY <1>1 DEF ClaimFindsFile, Complete, quotaVars
  <1>2. CASE ClaimRestoresPolling(j) \/ ClaimExhausted(j) \/ ClaimWaits(j)
    BY <1>2 DEF ClaimRestoresPolling, ClaimExhausted, ClaimWaits, Claim, quotaVars
  <1>3. CASE ClaimStarts(j)
    <2>1. job'[i] = job[i]
      BY <1>3 DEF ClaimStarts
    <2> QED BY <1>3, <2>1 DEF ClaimStarts, quotaVars
  <1>4. CASE DownloadSaved(j)
    BY <1>4 DEF DownloadSaved, quotaVars
  <1>5. CASE DownloadBooked(j)
    BY <1>5 DEF DownloadBooked, Result, Complete, quotaVars
  <1>6. CASE DownloadDropped(j)
    BY <1>6 DEF DownloadDropped, Result, quotaVars
  <1>7. CASE DownloadPartial(j)
    BY <1>7 DEF DownloadPartial, Failure, Result, quotaVars
  <1>8. CASE DownloadNotReady(j)
    BY <1>8 DEF DownloadNotReady, Failure, Result, quotaVars
  <1>9. CASE DownloadRefused(j)
    <2>1. reservation'[i] = reservation[i]
      BY <1>9, UnitsSame DEF DownloadRefused
    <2> QED BY <1>9, <2>1 DEF DownloadRefused, Failure, Result
  <1>10. CASE DownloadError(j)
    <2>1. PICK status : Failure(j, status, job[j].downloads)
      BY <1>10 DEF DownloadError
    <2>2. reservation'[i] = reservation[i]
      <3>1. Refund(j) \/ UNCHANGED quotaVars
        BY <1>10 DEF DownloadError
      <3> QED BY <3>1, UnitsSame
    <2>3. events'[i] = events[i]
      BY <1>10 DEF DownloadError
    <2> QED BY <2>1, <2>2, <2>3 DEF Failure, Result
  <1>11. CASE DownloadBreaks(j)
    BY <1>11 DEF DownloadBreaks, quotaVars
  <1> QED BY <1>1, <1>2, <1>3, <1>4, <1>5, <1>6, <1>7, <1>8, <1>9, <1>10, <1>11 DEF DownloadNext

LEMMA ScanSame ==
  ASSUME PipelineTypeOK, QuotaTypeOK, NEW j \in Jobs, NEW i \in Jobs \ {j}, ScanNext(j)
  PROVE  Same(i)
  <1> USE DEF PipelineTypeOK, Same, rowVars, outputVars, threadVars
  <1>1. CASE ScanRead(j)
    BY <1>1 DEF ScanRead, quotaVars
  <1>2. CASE ScanSkips(j)
    BY <1>2 DEF ScanSkips, ScanEnds, quotaVars
  <1>3. CASE RecoverSubmitting(j) \/ CompleteExisting(j) \/ RecoverDownloading(j)
    <2>1. job'[i] = job[i]
      BY <1>3, WriteSame DEF RecoverSubmitting, CompleteExisting, RecoverDownloading
    <2> QED BY <1>3, <2>1 DEF RecoverSubmitting, CompleteExisting, RecoverDownloading, ScanEnds,
                             quotaVars
  <1> QED BY <1>1, <1>2, <1>3 DEF ScanNext

LEMMA ClickSame ==
  ASSUME PipelineTypeOK, QuotaTypeOK, NEW j \in Jobs, NEW i \in Jobs \ {j}, ClickNext(j)
  PROVE  Same(i)
  <1> USE DEF PipelineTypeOK, Same, rowVars, outputVars, threadVars
  <1>1. CASE PauseRead(j) \/ RedownloadRead(j) \/ AdminResumeRead(j) \/ BulkDeleteRead(j)
    <2>1. PICK pc, new : OpRead(j, pc, new)
      BY <1>1 DEF PauseRead, RedownloadRead, AdminResumeRead, BulkDeleteRead
    <2> QED BY <2>1 DEF OpRead, quotaVars
  <1>2. CASE OpWrite(j)
    <2>1. job'[i] = job[i]
      BY <1>2, WriteSame DEF OpWrite
    <2> QED BY <1>2, <2>1 DEF OpWrite, quotaVars
  <1>3. CASE OpVoid(j) \/ KickEnds(j)
    BY <1>3 DEF OpVoid, KickEnds, quotaVars
  <1>4. CASE BulkDeleteWrite(j) \/ DeleteOne(j)
    <2>1. PICK row : Delete(j, row)
      BY <1>4 DEF BulkDeleteWrite, DeleteOne
    <2>2. reservation'[i] = reservation[i]
      BY <2>1, UnitsSame DEF Delete
    <2>3. /\ job'[i] = job[i] /\ events'[i] = events[i] /\ record'[i] = record[i]
          /\ files'[i] = files[i]
      BY <2>1 DEF Delete
    <2> QED BY <1>4, <2>2, <2>3 DEF BulkDeleteWrite, DeleteOne
  <1>5. CASE UserResume(j) \/ AdminRedownload(j) \/ BatchRetryDownload(j)
    <2>1. PICK new, kick : LockedWrite(j, new, kick)
      BY <1>5 DEF UserResume, AdminRedownload, BatchRetryDownload
    <2> QED BY <2>1 DEF LockedWrite, quotaVars
  <1> QED BY <1>1, <1>2, <1>3, <1>4, <1>5 DEF ClickNext

LEMMA UpstreamSame ==
  ASSUME PipelineTypeOK, NEW j \in Jobs, NEW i \in Jobs \ {j}, UpstreamNext(j)
  PROVE  Same(i)
  BY DEF PipelineTypeOK, Same, rowVars, outputVars, threadVars, UpstreamNext, UpstreamFinishes,
         quotaVars

--------------------------------------------------------------------------------
\* One lemma per kind of thread: what it stores has the columns' types, a row past its
\* submission names its task, and no thread is left that could take it away.
LEMMA SubmitTyped ==
  ASSUME TypeInv, NEW j \in Jobs, SubmitNext(j)
  PROVE  PipelineTypeOK' /\ TaskNamed(j)' /\ TaskKept(j)'
  <1> DEFINE Goal == PipelineTypeOK' /\ TaskNamed(j)' /\ TaskKept(j)'
  <1>0. /\ PipelineTypeOK /\ TaskNamed(j) /\ TaskKept(j)
        /\ job[j] \in JobRow /\ job[j].submits \in 0..MaxSubmit
    BY TypedAt DEF TypeInv
  <1> USE DEF rowVars, outputVars, threadVars
  <1>1. CASE CreateJob(j) \/ SubmitRejected(j)
    <2>1. PICK s \in {"queued", "failed"} : job' = [job EXCEPT ![j] = [job[j] EXCEPT !.status = s]]
      BY <1>1 DEF CreateJob, SubmitRejected
    <2>2. s \in Statuses /\ s \in Unstarted
      BY DEF Statuses, LiveStatuses, EndStatuses, Unstarted
    <2>3. [job[j] EXCEPT !.status = s] \in JobRow /\ [job[j] EXCEPT !.status = s].status = s
          /\ [job[j] EXCEPT !.status = s].remote = job[j].remote
      BY <1>0, <2>2, RowEdited DEF JobRow
    <2>4. job' \in [Jobs -> JobRow] /\ job'[j].status = s /\ job'[j].remote = job[j].remote
      BY <1>0, <2>1, <2>3, RowStored
    <2>5. UNCHANGED <<events, outputVars, task, threadVars, kicked, up, faults, clicks>>
      BY <1>1 DEF CreateJob, SubmitRejected
    <2>6. TaskNamed(j)' /\ TaskKept(j)'
      BY <2>2, <2>4, <2>5, TaskStays
    <2>7. PipelineTypeOK'
      BY <1>0, <2>4, <2>5 DEF PipelineTypeOK
    <2> QED BY <2>6, <2>7
  <1>2. CASE SubmitStart(j)
    <2> DEFINE started == [job[j] EXCEPT !.status = "submitting",
                                         !.submits = Saturated(job[j].submits, MaxSubmit)]
    <2>1. Saturated(job[j].submits, MaxSubmit) \in 0..MaxSubmit
      BY <1>0, PipelineAssumption DEF Saturated, AtMost
    <2>2. "submitting" \in Statuses /\ "submitting" \in Unstarted
      BY DEF Statuses, LiveStatuses, Unstarted
    <2>3. started \in JobRow /\ started.status = "submitting" /\ started.remote = job[j].remote
      <3> HIDE DEF Saturated
      <3>1. started \in JobRow
        BY <1>0, <2>1, <2>2, RowEdited DEF JobRow
      <3> QED BY <1>0, <3>1 DEF JobRow
    <2>4. /\ job' = [job EXCEPT ![j] = started]
          /\ sub' = [sub EXCEPT ![j] = [pc |-> "posting", seen |-> started]]
          /\ UNCHANGED <<events, outputVars, task, poll, dl, op, kicked, up, faults, clicks>>
      BY <1>2 DEF SubmitStart
    <2> HIDE DEF started
    <2>5. job' \in [Jobs -> JobRow] /\ job'[j] = started
      BY <1>0, <2>3, <2>4, RowStored
    <2>6. sub' \in [Jobs -> SubmitThread] /\ sub'[j] = [pc |-> "posting", seen |-> started]
      BY <1>0, <2>3, <2>4 DEF PipelineTypeOK, SubmitThread
    <2>7. PipelineTypeOK'
      BY <1>0, <2>4, <2>5, <2>6 DEF PipelineTypeOK
    <2>8. HasTask(j)' <=> HasTask(j)
      BY <2>3, <2>5 DEF HasTask
    <2>9. TaskNamed(j)'
      BY <1>0, <2>2, <2>3, <2>4, <2>5, <2>6, <2>8 DEF TaskNamed, HasTask
    <2>10. sub'[j].seen.remote = job[j].remote
      BY <2>3, <2>6
    <2>11. TaskKept(j)'
      BY <1>0, <2>4, <2>8, <2>10 DEF TaskKept, HasTask
    <2> QED BY <2>7, <2>9, <2>11
  <1>3. CASE PostAccepted(j)
    <2>1. PICK k \in Tasks :
            /\ task' = [task EXCEPT ![j][k] = "running"] \/ (task[j][k] # "none" /\ UNCHANGED task)
            /\ sub' = [sub EXCEPT ![j] = [pc |-> "accepted", seen |-> @.seen, task |-> k]]
      BY <1>3 DEF PostAccepted
    <2>2. /\ sub[j] # Idle
          /\ UNCHANGED <<rowVars, outputVars, poll, dl, op, kicked, up, faults, clicks>>
      BY <1>3 DEF PostAccepted, Idle
    <2>3. sub[j].seen \in JobRow
      BY <1>0, <2>2, TypedAt
    <2>4. /\ sub' \in [Jobs -> SubmitThread]
          /\ sub'[j] = [pc |-> "accepted", seen |-> sub[j].seen, task |-> k]
      BY <1>0, <2>1, <2>3 DEF PipelineTypeOK, SubmitThread
    <2>5. /\ task' \in [Jobs -> [Tasks -> {"none", "running", "done", "failed"}]]
          /\ task'[j][k] # "none"
          /\ \A i \in Tasks : task[j][i] # "none" => task'[j][i] # "none"
      <3>1. CASE task' = [task EXCEPT ![j][k] = "running"]
        BY <1>0, <3>1 DEF PipelineTypeOK
      <3>2. CASE task[j][k] # "none" /\ UNCHANGED task
        BY <1>0, <3>2 DEF PipelineTypeOK
      <3> QED BY <2>1, <3>1, <3>2
    <2>6. PipelineTypeOK'
      BY <1>0, <2>2, <2>4, <2>5 DEF PipelineTypeOK
    <2>7. HasTask(j)' <=> HasTask(j)
      BY <2>2 DEF HasTask
    <2>8. job[j].remote \in Tasks \cup {NoTask}
      BY <1>0, TypedAt
    <2>9. TaskNamed(j)'
      BY <1>0, <2>2, <2>4, <2>5, <2>7, <2>8 DEF TaskNamed, HasTask
    <2>10. TaskKept(j)'
      BY <1>0, <2>2, <2>4, <2>7 DEF TaskKept
    <2> QED BY <2>6, <2>9, <2>10
  <1>4. ASSUME NEW retryable \in BOOLEAN, SubmitFails(j, retryable) PROVE Goal
    <2>1. sub[j] # Idle
      BY <1>4 DEF SubmitFails, Idle
    <2>2. sub[j].seen \in JobRow
      BY <1>0, <2>1, TypedAt
    <2>3. PICK s \in {"queued", "failed"} : Write(j, sub[j].seen, [sub[j].seen EXCEPT !.status = s])
      BY <1>4 DEF SubmitFails
    <2>4. s \in Statuses /\ s \in Unstarted
      BY DEF Statuses, LiveStatuses, EndStatuses, Unstarted
    <2>5. /\ [sub[j].seen EXCEPT !.status = s] \in JobRow
          /\ [sub[j].seen EXCEPT !.status = s].status = s
          /\ [sub[j].seen EXCEPT !.status = s].remote = sub[j].seen.remote
      BY <2>2, <2>4, RowEdited DEF JobRow
    <2>6. /\ job' \in [Jobs -> JobRow] /\ job'[j].status \in {s, job[j].status}
          /\ job'[j].remote = job[j].remote
      BY <1>0, <2>2, <2>3, <2>5, RowWritten
    <2>7. sub' = [sub EXCEPT ![j] = Idle]
          /\ UNCHANGED <<events, outputVars, task, poll, dl, op, kicked, up, faults, clicks>>
      BY <1>4 DEF SubmitFails
    <2>8. sub' \in [Jobs -> SubmitThread] /\ sub'[j] = Idle
      BY <1>0, <2>7 DEF PipelineTypeOK, SubmitThread
    <2>9. TaskNamed(j)' /\ TaskKept(j)'
      BY <1>0, <2>4, <2>6, <2>7, <2>8, TaskStays DEF TaskNamed
    <2>10. PipelineTypeOK'
      BY <1>0, <2>6, <2>7, <2>8 DEF PipelineTypeOK
    <2> QED BY <2>9, <2>10
  <1>5. CASE SubmitCommit(j)
    <2>1. sub[j] # Idle /\ sub[j].pc = "accepted"
      BY <1>5 DEF SubmitCommit, Idle
    <2>2. sub[j].seen \in JobRow /\ sub[j].task \in Tasks
      BY <1>0, <2>1, TypedAt
    <2>3. PICK s \in {"submitted", "failed"} :
            Write(j, sub[j].seen, [sub[j].seen EXCEPT !.status = s, !.remote = sub[j].task,
                                                      !.full = FALSE])
      BY <1>5 DEF SubmitCommit
    <2> DEFINE new == [sub[j].seen EXCEPT !.status = s, !.remote = sub[j].task, !.full = FALSE]
    <2>4. s \in Statuses
      BY DEF Statuses, LiveStatuses, PollableStatuses, EndStatuses
    <2>5. new \in JobRow /\ new.status = s /\ new.remote = sub[j].task
      BY <2>2, <2>4, RowEdited DEF JobRow
    <2>6. /\ job' \in [Jobs -> JobRow]
          /\ job'[j].status = IF Exists(j) /\ s # sub[j].seen.status THEN s ELSE job[j].status
          /\ job'[j].remote = IF Exists(j) /\ sub[j].task # sub[j].seen.remote
                              THEN sub[j].task ELSE job[j].remote
          /\ ~Exists(j) => job'[j] = job[j]
      <3>1. Write(j, sub[j].seen, new)
        BY <2>3
      <3> HIDE DEF new
      <3> QED BY <1>0, <2>2, <2>5, <3>1, RowWritten
    <2>7. sub' = [sub EXCEPT ![j] = Idle]
          /\ UNCHANGED <<events, outputVars, task, poll, dl, op, kicked, up, faults, clicks>>
      BY <1>5 DEF SubmitCommit
    <2>8. sub' \in [Jobs -> SubmitThread] /\ sub'[j] = Idle
      BY <1>0, <2>7 DEF PipelineTypeOK, SubmitThread
    <2>9. PipelineTypeOK'
      BY <1>0, <2>6, <2>7, <2>8 DEF PipelineTypeOK
    <2>10. sub[j].task # NoTask
      BY <2>2 DEF Tasks, NoTask
    <2>11. /\ Exists(j) => HasTask(j)'
           /\ HasTask(j) => HasTask(j)'
           /\ job'[j].remote \in {job[j].remote, sub[j].task}
      BY <1>0, <2>1, <2>6, <2>10 DEF HasTask, TaskKept
    <2>12. TaskNamed(j)'
      <3>1. job'[j].status \notin Unstarted => HasTask(j)'
        BY <1>0, <2>6, <2>11 DEF TaskNamed
      <3>2. HasTask(j)' => task'[j][job'[j].remote] # "none"
        BY <1>0, <2>1, <2>7, <2>10, <2>11 DEF TaskNamed, HasTask
      <3> QED BY <2>8, <3>1, <3>2 DEF TaskNamed, Idle
    <2>13. TaskKept(j)'
      BY <1>0, <2>7, <2>8, <2>11 DEF TaskKept
    <2> QED BY <2>9, <2>12, <2>13
  <1>6. CASE SubmitBreaks(j) \/ SubmitLost(j)
    <2>1. PICK s \in {"queued", job[j].status} :
            job' = [job EXCEPT ![j] = [job[j] EXCEPT !.status = s]]
      <3>1. CASE SubmitBreaks(j)
        BY <3>1 DEF SubmitBreaks
      <3>2. CASE SubmitLost(j)
        <4>1. job = [job EXCEPT ![j] = [job[j] EXCEPT !.status = job[j].status]]
          BY <1>0 DEF PipelineTypeOK, JobRow
        <4>2. job' = job
          BY <3>2 DEF SubmitLost
        <4> QED BY <4>1, <4>2
      <3> QED BY <1>6, <3>1, <3>2
    <2>2. s \in Statuses /\ (s \notin Unstarted => HasTask(j))
      BY <1>0 DEF Statuses, LiveStatuses, Unstarted, TaskNamed, JobRow
    <2>3. [job[j] EXCEPT !.status = s] \in JobRow /\ [job[j] EXCEPT !.status = s].status = s
          /\ [job[j] EXCEPT !.status = s].remote = job[j].remote
      BY <1>0, <2>2, RowEdited DEF JobRow
    <2>4. job' \in [Jobs -> JobRow] /\ job'[j].status = s /\ job'[j].remote = job[j].remote
      BY <1>0, <2>1, <2>3, RowStored
    <2>5. /\ sub' = [sub EXCEPT ![j] = Idle] /\ faults < MaxFaults /\ faults' = faults + 1
          /\ UNCHANGED <<events, outputVars, task, poll, dl, op, kicked, up, clicks>>
      BY <1>6 DEF SubmitBreaks, SubmitLost
    <2>6. sub' \in [Jobs -> SubmitThread] /\ sub'[j] = Idle /\ faults' \in 0..MaxFaults
      BY <1>0, <2>5, PipelineAssumption DEF PipelineTypeOK, SubmitThread
    <2>7. TaskNamed(j)' /\ TaskKept(j)'
      BY <2>2, <2>4, <2>5, <2>6, TaskStays
    <2>8. PipelineTypeOK'
      BY <1>0, <2>4, <2>5, <2>6 DEF PipelineTypeOK
    <2> QED BY <2>7, <2>8
  <1> QED BY <1>1, <1>2, <1>3, <1>4, <1>5, <1>6 DEF SubmitNext

\* The result of a flush that leaves the task alone and sets no early status.
LEMMA WriteTyped ==
  ASSUME TypeInv, NEW j \in Jobs, NEW seen \in JobRow, NEW new \in JobRow,
         Write(j, seen, new), new.remote = seen.remote, HasTask(j)
  PROVE  /\ job' \in [Jobs -> JobRow]
         /\ job'[j].remote = job[j].remote
         /\ job'[j].status \notin Unstarted => HasTask(j)
  BY RowWritten DEF TypeInv

LEMMA PollTyped ==
  ASSUME TypeInv, NEW j \in Jobs, NEW p \in Pollers, PollNext(p, j)
  PROVE  PipelineTypeOK' /\ TaskNamed(j)' /\ TaskKept(j)'
  <1> DEFINE Goal == PipelineTypeOK' /\ TaskNamed(j)' /\ TaskKept(j)'
  <1>0. PipelineTypeOK /\ TaskNamed(j) /\ TaskKept(j) /\ job[j] \in JobRow
    BY TypedAt DEF TypeInv
  <1> USE DEF rowVars, outputVars, threadVars
  <1>1. CASE ProcessResumesDownload(p, j)
    <2>1. HasTask(j)
      BY <1>0, <1>1 DEF ProcessResumesDownload, MayProcess, PollableStatuses, TaskNamed,
                        Unstarted, Absent
    <2>2. "remote_completed" \in Statuses
      BY DEF Statuses, LiveStatuses, ResultStatuses, DownloadableStatuses
    <2>3. /\ [job[j] EXCEPT !.status = "remote_completed"] \in JobRow
          /\ [job[j] EXCEPT !.status = "remote_completed"].remote = job[j].remote
      BY <1>0, <2>2, RowEdited DEF JobRow
    <2>4. /\ job' = [job EXCEPT ![j] = [job[j] EXCEPT !.status = "remote_completed"]]
          /\ kicked' = AfterStart(p, j)
          /\ UNCHANGED <<events, outputVars, task, threadVars, up, faults, clicks>>
      BY <1>1 DEF ProcessResumesDownload
    <2>5. job' \in [Jobs -> JobRow] /\ job'[j].remote = job[j].remote
      BY <1>0, <2>3, <2>4, RowStored
    <2>6. kicked' \in [Jobs -> BOOLEAN]
      BY <1>0, <2>4 DEF AfterStart, PipelineTypeOK
    <2>7. PipelineTypeOK'
      BY <1>0, <2>4, <2>5, <2>6 DEF PipelineTypeOK
    <2> QED BY <2>1, <2>4, <2>5, <2>7, TaskStays
  <1>2. CASE PollStart(p, j)
    <2>1. HasTask(j)
      BY <1>0, <1>2 DEF PollStart, MayProcess, PollableStatuses, TaskNamed, Unstarted, Absent
    <2>2. job[j].remote \in Tasks
      BY <1>0, <2>1, TypedAt DEF HasTask
    <2>3. task[j][job[j].remote] \in {"running", "done", "failed"}
      BY <1>0, <2>1, <2>2 DEF TaskNamed, PipelineTypeOK
    <2>4. PICK held \in BOOLEAN :
            poll' = [poll EXCEPT ![p][j] = [pc |-> "asking", seen |-> job[j], held |-> held,
                                            was |-> task[j][job[j].remote]]]
      BY <1>2 DEF PollStart
    <2>5. [pc |-> "asking", seen |-> job[j], held |-> held, was |-> task[j][job[j].remote]] \in Poll
      BY <1>0, <2>3 DEF Poll
    <2>6. poll' \in [Pollers -> [Jobs -> Poll]]
      BY <1>0, <2>4, <2>5 DEF PipelineTypeOK
    <2>7. /\ kicked' = AfterStart(p, j)
          /\ UNCHANGED <<rowVars, outputVars, task, sub, dl, op, up, faults, clicks>>
      BY <1>2 DEF PollStart
    <2>8. kicked' \in [Jobs -> BOOLEAN]
      BY <1>0, <2>7 DEF AfterStart, PipelineTypeOK
    <2>9. PipelineTypeOK'
      BY <1>0, <2>6, <2>7, <2>8 DEF PipelineTypeOK
    <2> QED BY <1>0, <2>1, <2>7, <2>9 DEF TaskNamed, TaskKept, HasTask
  <1>3. ASSUME PollEnds(p, j), UNCHANGED job, events' \in [Jobs -> SUBSET {"remote_completed",
                                                           "content_fallback", "download_error"}]
        PROVE  Goal
    <2>1. /\ poll' = [poll EXCEPT ![p][j] = Idle]
          /\ UNCHANGED <<outputVars, task, sub, dl, op, kicked, up, faults, clicks>>
      BY <1>3 DEF PollEnds
    <2>2. /\ poll' \in [Pollers -> [Jobs -> Poll]]
          /\ \A q \in Pollers : poll'[q][j] \in {poll[q][j], Idle}
      BY <1>0, <2>1 DEF PipelineTypeOK, Poll
    <2>3. PipelineTypeOK'
      BY <1>0, <1>3, <2>1, <2>2 DEF PipelineTypeOK
    <2> QED BY <1>0, <1>3, <2>1, <2>2, <2>3, TaskStays DEF TaskNamed
  <1>4. ASSUME NEW s \in Statuses, NEW b \in BOOLEAN, PollEnds(p, j),
               \/ Write(j, poll[p][j].seen, [poll[p][j].seen EXCEPT !.status = s])
               \/ Write(j, poll[p][j].seen, [poll[p][j].seen EXCEPT !.status = s, !.full = b]),
               events' \in [Jobs -> SUBSET {"remote_completed", "content_fallback",
                                            "download_error"}]
        PROVE  Goal
    <2>1. poll[p][j] # Idle
      BY <1>4 DEF PollEnds, Idle
    <2>2. HasTask(j) /\ poll[p][j].seen \in JobRow
      BY <1>0, <2>1, TypedAt DEF TaskKept
    <2>3. PICK new \in JobRow : /\ Write(j, poll[p][j].seen, new)
                                /\ new.remote = poll[p][j].seen.remote
      <3> DEFINE left == [poll[p][j].seen EXCEPT !.status = s]
                 both == [poll[p][j].seen EXCEPT !.status = s, !.full = b]
      <3>1. left \in JobRow /\ both \in JobRow
        BY <2>2 DEF JobRow
      <3>2. left.remote = poll[p][j].seen.remote /\ both.remote = poll[p][j].seen.remote
        BY <2>2 DEF JobRow
      <3>3. Write(j, poll[p][j].seen, left) \/ Write(j, poll[p][j].seen, both)
        BY <1>4
      <3> HIDE DEF left, both
      <3> QED BY <3>1, <3>2, <3>3
    <2>4. /\ job' \in [Jobs -> JobRow] /\ job'[j].remote = job[j].remote
      BY <2>2, <2>3, WriteTyped
    <2>5. /\ poll' = [poll EXCEPT ![p][j] = Idle]
          /\ UNCHANGED <<outputVars, task, sub, dl, op, kicked, up, faults, clicks>>
      BY <1>4 DEF PollEnds
    <2>6. /\ poll' \in [Pollers -> [Jobs -> Poll]]
          /\ \A q \in Pollers : poll'[q][j] \in {poll[q][j], Idle}
      BY <1>0, <2>5 DEF PipelineTypeOK, Poll
    <2>7. PipelineTypeOK'
      BY <1>0, <1>4, <2>4, <2>5, <2>6 DEF PipelineTypeOK
    <2> QED BY <2>2, <2>4, <2>5, <2>6, <2>7, TaskStays
  <1>5. CASE PollError(p, j) \/ PollVoid(p, j)
    BY <1>0, <1>3, <1>5 DEF PollError, PollVoid, PipelineTypeOK
  <1>6. {"polling", "remote_completed", "failed"} \subseteq Statuses
    BY DEF Statuses, LiveStatuses, PollableStatuses, ResultStatuses, DownloadableStatuses,
           EndStatuses
  <1>7. CASE PollProcessing(p, j)
    <2>1. PollEnds(p, j) /\ UNCHANGED events /\ poll[p][j] # Idle
      BY <1>7 DEF PollProcessing, PollEnds, Idle
    <2>2. PICK full \in BOOLEAN :
            Write(j, poll[p][j].seen, [poll[p][j].seen EXCEPT !.status = "polling",
                                          !.full = poll[p][j].seen.full \/ full])
      BY <1>7 DEF PollProcessing
    <2>3. (poll[p][j].seen.full \/ full) \in BOOLEAN
      OBVIOUS
    <2>4. events' \in [Jobs -> SUBSET {"remote_completed", "content_fallback", "download_error"}]
      BY <1>0, <2>1 DEF PipelineTypeOK
    <2> QED BY <1>4, <1>6, <2>1, <2>2, <2>3, <2>4
  <1>8. CASE PollFailed(p, j)
    <2>1. PollEnds(p, j) /\ UNCHANGED events /\ poll[p][j] # Idle
      BY <1>8 DEF PollFailed, PollEnds, Idle
    <2>2. PICK full \in BOOLEAN :
            Write(j, poll[p][j].seen, [poll[p][j].seen EXCEPT !.status = "failed",
                                          !.full = poll[p][j].seen.full \/ full])
      BY <1>8 DEF PollFailed
    <2>3. (poll[p][j].seen.full \/ full) \in BOOLEAN
      OBVIOUS
    <2>4. events' \in [Jobs -> SUBSET {"remote_completed", "content_fallback", "download_error"}]
      BY <1>0, <2>1 DEF PipelineTypeOK
    <2> QED BY <1>4, <1>6, <2>1, <2>2, <2>3, <2>4
  <1>9. CASE PollFallback(p, j) \/ PollCompleted(p, j)
    <2>1. PollEnds(p, j)
      BY <1>9 DEF PollFallback, PollCompleted
    <2>2. events' \in [Jobs -> SUBSET {"remote_completed", "content_fallback", "download_error"}]
      BY <1>0, <1>9 DEF PollFallback, PollCompleted, PipelineTypeOK
    <2>3. \/ Write(j, poll[p][j].seen, [poll[p][j].seen EXCEPT !.status = "remote_completed"])
          \/ Write(j, poll[p][j].seen, [poll[p][j].seen EXCEPT !.status = "remote_completed",
                                                               !.full = TRUE])
      BY <1>9 DEF PollFallback, PollCompleted
    <2> QED BY <1>4, <1>6, <2>1, <2>2, <2>3
  <1>10. CASE PollRefused(p, j)
    <2>1. /\ PollEnds(p, j) /\ UNCHANGED events
          /\ Write(j, poll[p][j].seen, [poll[p][j].seen EXCEPT !.status = "failed"])
      BY <1>10 DEF PollRefused
    <2>2. events' \in [Jobs -> SUBSET {"remote_completed", "content_fallback", "download_error"}]
      BY <1>0, <2>1 DEF PipelineTypeOK
    <2> QED BY <1>4, <1>6, <2>1, <2>2
  <1> QED BY <1>1, <1>2, <1>5, <1>7, <1>8, <1>9, <1>10 DEF PollNext

\* A step that gives the row of job j another status and perhaps other counters.
LEMMA RowMoved ==
  ASSUME TypeInv, NEW j \in Jobs, NEW row \in JobRow, job' = [job EXCEPT ![j] = row],
         row.remote = job[j].remote, row.status \notin Unstarted => HasTask(j),
         UNCHANGED <<task, sub, poll>>, op'[j] \in {op[j], Idle}
  PROVE  /\ job' \in [Jobs -> JobRow] /\ job'[j] = row
         /\ TaskNamed(j)' /\ TaskKept(j)'
  <1>1. job' \in [Jobs -> JobRow] /\ job'[j] = row
    BY RowStored DEF TypeInv
  <1>2. TaskNamed(j)' /\ TaskKept(j)'
    BY <1>1, TaskStays
  <1> QED BY <1>1, <1>2

\* The statuses of a job that is under way or over.
LEMMA LateStatuses ==
  /\ {"remote_completed", "polling", "download_waiting", "downloading", "download_failed",
      "completed", "interrupted", "failed", "queued", "deleted"} \subseteq Statuses
  /\ (DownloadableStatuses \cup ResultStatuses \cup PollableStatuses) \cap Unstarted = {}
  BY DEF Statuses, LiveStatuses, EndStatuses, Absent, ResultStatuses, DownloadableStatuses,
         PollableStatuses, Unstarted

LEMMA DownloadTyped ==
  ASSUME TypeInv, NEW j \in Jobs, DownloadNext(j)
  PROVE  PipelineTypeOK' /\ TaskNamed(j)' /\ TaskKept(j)'
  <1> DEFINE Goal == PipelineTypeOK' /\ TaskNamed(j)' /\ TaskKept(j)'
             EventTypes == {"remote_completed", "content_fallback", "download_error"}
  <1>0. /\ PipelineTypeOK /\ TaskNamed(j) /\ TaskKept(j) /\ job[j] \in JobRow
        /\ job[j].downloads \in 0..MaxDownloads /\ job[j].remote \in Tasks \cup {NoTask}
        /\ events \in [Jobs -> SUBSET EventTypes]
    BY TypedAt DEF TypeInv, PipelineTypeOK
  <1>a. job[j].status \in DownloadableStatuses \cup ResultStatuses => HasTask(j)
    BY <1>0, LateStatuses DEF TaskNamed
  <1> USE DEF rowVars, outputVars, threadVars
  <1>1. ASSUME NEW row \in JobRow, job' = [job EXCEPT ![j] = row], row.remote = job[j].remote,
               HasTask(j),
               events' \in [Jobs -> SUBSET EventTypes],
               dl' \in [Jobs -> DownloadThread], record' \in [Jobs -> Tasks \cup {NoTask}],
               UNCHANGED <<files, task, sub, poll, op, kicked, up, faults, clicks>>
        PROVE  Goal
    <2>1. job' \in [Jobs -> JobRow] /\ TaskNamed(j)' /\ TaskKept(j)'
      BY <1>1, RowMoved
    <2> QED BY <1>0, <1>1, <2>1 DEF PipelineTypeOK
  <1>2. ASSUME NEW s \in Statuses, Claim(j, s) PROVE Goal
    <2> DEFINE row == [job[j] EXCEPT !.status = s]
    <2>1. row \in JobRow /\ row.remote = job[j].remote
      BY <1>0 DEF JobRow
    <2>2. /\ job' = [job EXCEPT ![j] = row] /\ HasTask(j)
          /\ UNCHANGED <<events, outputVars, task, threadVars, kicked, up, faults, clicks>>
      BY <1>a, <1>2 DEF Claim, Claimable
    <2> HIDE DEF row
    <2> QED BY <1>0, <1>1, <2>1, <2>2 DEF PipelineTypeOK
  <1>3. CASE ClaimRestoresPolling(j) \/ ClaimExhausted(j) \/ ClaimWaits(j)
    BY <1>2, <1>3, LateStatuses DEF ClaimRestoresPolling, ClaimExhausted, ClaimWaits
  <1>4. ASSUME Complete(j),
               UNCHANGED <<events, files, task, sub, poll, op, kicked, up, faults, clicks>>,
               dl' \in [Jobs -> DownloadThread], HasTask(j)
        PROVE  Goal
    <2> DEFINE row == [job[j] EXCEPT !.status = "completed", !.full = TRUE]
    <2>1. row \in JobRow /\ row.remote = job[j].remote
      BY <1>0, LateStatuses DEF JobRow
    <2>2. job' = [job EXCEPT ![j] = row]
      BY <1>4 DEF Complete
    <2>3. record' \in [Jobs -> Tasks \cup {NoTask}]
      BY <1>0, <1>4 DEF Complete, PipelineTypeOK
    <2> HIDE DEF row
    <2> QED BY <1>0, <1>1, <1>4, <2>1, <2>2, <2>3
  <1>5. CASE ClaimFindsFile(j)
    BY <1>0, <1>a, <1>4, <1>5 DEF ClaimFindsFile, Claimable, PipelineTypeOK
  <1>6. CASE ClaimStarts(j)
    <2> DEFINE row == [job[j] EXCEPT !.status = "downloading", !.downloads = job[j].downloads + 1]
    <2>1. HasTask(j) /\ job[j].downloads + 1 \in 0..MaxDownloads /\ job[j].remote \in Tasks
      BY <1>0, <1>a, <1>6, PipelineAssumption DEF ClaimStarts, Claimable, BudgetLeft, HasTask
    <2>2. row \in JobRow /\ row.remote = job[j].remote
      <3>1. "downloading" \in Statuses
        BY LateStatuses
      <3> QED BY <1>0, <2>1, <3>1 DEF JobRow
    <2>3. job' = [job EXCEPT ![j] = row]
      BY <1>0, <1>6 DEF ClaimStarts, PipelineTypeOK
    <2>4. dl' \in [Jobs -> DownloadThread]
      BY <1>0, <1>6, <2>1 DEF ClaimStarts, PipelineTypeOK, DownloadThread
    <2>5. /\ events' \in [Jobs -> SUBSET EventTypes]
          /\ UNCHANGED <<outputVars, task, sub, poll, op, kicked, up, faults, clicks>>
      BY <1>0, <1>6 DEF ClaimStarts
    <2> HIDE DEF row
    <2> QED BY <1>0, <1>1, <2>1, <2>2, <2>3, <2>4, <2>5 DEF PipelineTypeOK
  <1>7. ASSUME NEW pc, Result(j, pc)
        PROVE  dl' \in [Jobs -> DownloadThread]
    BY <1>0, <1>7 DEF Result, PipelineTypeOK, DownloadThread
  <1>8. ASSUME UNCHANGED <<rowVars, record, task, sub, poll, op, kicked, up, clicks>>,
               files' \in [Jobs -> SUBSET Tasks], dl' \in [Jobs -> DownloadThread],
               faults' \in 0..MaxFaults
        PROVE  Goal
    <2>1. PipelineTypeOK'
      BY <1>0, <1>8 DEF PipelineTypeOK
    <2> QED BY <1>0, <1>8, <2>1, TaskStays DEF TaskNamed
  <1>9. CASE DownloadSaved(j)
    <2>1. dl[j].task \in Tasks /\ dl[j] # Idle
      BY <1>0, <1>9, TypedAt DEF DownloadSaved, Idle
    <2>2. [dl[j] EXCEPT !.pc = "saved"] \in DownloadThread
      BY <1>0, <2>1 DEF PipelineTypeOK, DownloadThread
    <2>3. dl' \in [Jobs -> DownloadThread]
      BY <1>0, <1>9, <2>2 DEF DownloadSaved, PipelineTypeOK
    <2>4. files' \in [Jobs -> SUBSET Tasks]
      BY <1>0, <1>9, <2>1 DEF DownloadSaved, PipelineTypeOK
    <2> QED BY <1>0, <1>8, <1>9, <2>3, <2>4 DEF DownloadSaved, PipelineTypeOK
  <1>10. CASE DownloadDropped(j)
    BY <1>0, <1>7, <1>8, <1>10 DEF DownloadDropped, Result, PipelineTypeOK
  <1>11. CASE DownloadBreaks(j)
    <2>1. dl' \in [Jobs -> DownloadThread] /\ faults' \in 0..MaxFaults
      BY <1>0, <1>11, PipelineAssumption DEF DownloadBreaks, PipelineTypeOK, DownloadThread
    <2> QED BY <1>0, <1>8, <1>11, <2>1 DEF DownloadBreaks, PipelineTypeOK
  <1>12. CASE DownloadBooked(j)
    BY <1>a, <1>4, <1>7, <1>12 DEF DownloadBooked, Result, ResultApplies
  <1>13. ASSUME NEW s \in Statuses, NEW n \in 0..MaxDownloads, Failure(j, s, n),
                events' \in [Jobs -> SUBSET EventTypes]
         PROVE  Goal
    <2> DEFINE row == [job[j] EXCEPT !.status = s, !.downloads = n]
    <2>1. row \in JobRow /\ row.remote = job[j].remote
      BY <1>0 DEF JobRow
    <2>2. job' = [job EXCEPT ![j] = row]
      BY <1>0, <1>13 DEF Failure, PipelineTypeOK
    <2>3. /\ HasTask(j) /\ dl' \in [Jobs -> DownloadThread]
          /\ UNCHANGED <<record, files, task, sub, poll, op, kicked, up, faults, clicks>>
      BY <1>a, <1>7, <1>13 DEF Failure, Result, ResultApplies
    <2> HIDE DEF row
    <2> QED BY <1>0, <1>1, <1>13, <2>1, <2>2, <2>3 DEF PipelineTypeOK
  <1>14. AtLeastZero(job[j].downloads - 1) \in 0..MaxDownloads
    BY <1>0, PipelineAssumption DEF AtLeastZero
  <1>15. CASE DownloadPartial(j) \/ DownloadNotReady(j) \/ DownloadRefused(j)
    BY <1>0, <1>13, <1>14, <1>15, LateStatuses
       DEF DownloadPartial, DownloadNotReady, DownloadRefused
  <1>16. CASE DownloadError(j)
    <2>1. events' \in [Jobs -> SUBSET EventTypes]
      BY <1>0, <1>16 DEF DownloadError
    <2>2. \E s \in {"download_waiting", "download_failed"} : Failure(j, s, job[j].downloads)
      BY <1>16 DEF DownloadError
    <2> QED BY <1>0, <1>13, <2>1, <2>2, LateStatuses
  <1> QED BY <1>3, <1>5, <1>6, <1>9, <1>10, <1>11, <1>12, <1>15, <1>16 DEF DownloadNext

LEMMA ScanTyped ==
  ASSUME TypeInv, NEW j \in Jobs, ScanNext(j)
  PROVE  PipelineTypeOK' /\ TaskNamed(j)' /\ TaskKept(j)'
  <1>0. PipelineTypeOK /\ TaskNamed(j) /\ TaskKept(j) /\ job[j] \in JobRow
    BY TypedAt DEF TypeInv
  <1> USE DEF rowVars, outputVars
  <1>1. CASE ScanRead(j)
    <2>1. op' \in [Jobs -> Operation] /\ op'[j] = [pc |-> "scan", seen |-> job[j]]
      BY <1>0, <1>1 DEF ScanRead, PipelineTypeOK, Operation
    <2>2. UNCHANGED <<rowVars, outputVars, task, sub, poll, dl, kicked, up, faults, clicks>>
      BY <1>1 DEF ScanRead
    <2>3. PipelineTypeOK'
      BY <1>0, <2>1, <2>2 DEF PipelineTypeOK
    <2>4. job[j].status \in ResultStatuses => HasTask(j)
      BY <1>0, LateStatuses DEF TaskNamed
    <2> QED BY <1>0, <2>1, <2>2, <2>3, <2>4 DEF TaskNamed, TaskKept, HasTask
  <1>2. ASSUME ScanEnds(j)
        PROVE  /\ op' \in [Jobs -> Operation] /\ op'[j] = Idle
               /\ op[j] # Idle /\ op[j].seen \in JobRow
               /\ UNCHANGED <<events, files, task, sub, poll, dl, kicked, up, faults, clicks>>
    BY <1>0, <1>2, TypedAt DEF ScanEnds, PipelineTypeOK, Operation, Idle
  <1>3. CASE ScanSkips(j)
    <2>1. ScanEnds(j) /\ UNCHANGED <<job, record>>
      BY <1>3 DEF ScanSkips
    <2>2. PipelineTypeOK'
      BY <1>0, <1>2, <2>1 DEF PipelineTypeOK
    <2> QED BY <1>0, <1>2, <2>1, <2>2, TaskStays DEF TaskNamed
  <1>4. ASSUME NEW new \in JobRow, ScanEnds(j), Write(j, op[j].seen, new),
               new.remote = op[j].seen.remote, new.status \in Unstarted \/ HasTask(j),
               record' \in [Jobs -> Tasks \cup {NoTask}]
        PROVE  PipelineTypeOK' /\ TaskNamed(j)' /\ TaskKept(j)'
    <2>1. /\ job' \in [Jobs -> JobRow] /\ job'[j].remote = job[j].remote
          /\ job'[j].status \in {job[j].status, new.status}
      BY <1>0, <1>2, <1>4, RowWritten
    <2>2. PipelineTypeOK'
      BY <1>0, <1>2, <1>4, <2>1 DEF PipelineTypeOK
    <2> QED BY <1>0, <1>2, <1>4, <2>1, <2>2, TaskStays DEF TaskNamed
  <1>5. CASE RecoverSubmitting(j)
    <2> DEFINE new == [op[j].seen EXCEPT !.status = "queued"]
    <2>1. ScanEnds(j) /\ Write(j, op[j].seen, new) /\ UNCHANGED record
      BY <1>5 DEF RecoverSubmitting
    <2>2. new \in JobRow /\ new.remote = op[j].seen.remote /\ new.status \in Unstarted
      BY <1>2, <2>1, LateStatuses DEF JobRow, Unstarted
    <2> HIDE DEF new
    <2> QED BY <1>0, <1>4, <2>1, <2>2 DEF PipelineTypeOK
  <1>6. CASE CompleteExisting(j)
    <2> DEFINE new == [op[j].seen EXCEPT !.status = "completed", !.full = TRUE]
    <2>1. /\ ScanEnds(j) /\ Write(j, op[j].seen, new)
          /\ record' = [record EXCEPT ![j] = op[j].seen.remote]
          /\ op[j].seen.status \in ResultStatuses
      BY <1>6 DEF CompleteExisting
    <2>2. new \in JobRow /\ new.remote = op[j].seen.remote
      BY <1>2, <2>1, LateStatuses DEF JobRow
    <2>3. HasTask(j)
      BY <1>0, <2>1 DEF TaskKept, ScanEnds
    <2>4. record' \in [Jobs -> Tasks \cup {NoTask}]
      BY <1>0, <1>2, <2>1 DEF PipelineTypeOK, JobRow
    <2> HIDE DEF new
    <2> QED BY <1>4, <2>1, <2>2, <2>3, <2>4
  <1>7. CASE RecoverDownloading(j)
    <2> DEFINE new == [op[j].seen EXCEPT !.status = "remote_completed",
                                         !.downloads = AtLeastZero(op[j].seen.downloads - 1)]
    <2>1. /\ ScanEnds(j) /\ Write(j, op[j].seen, new) /\ UNCHANGED record
          /\ op[j].seen.status = "downloading"
      BY <1>7 DEF RecoverDownloading
    <2>2. /\ op[j].seen \in JobRow
          /\ AtLeastZero(op[j].seen.downloads - 1) \in 0..MaxDownloads
      BY <1>2, <2>1, PipelineAssumption DEF JobRow, AtLeastZero
    <2>3. new \in JobRow /\ new.remote = op[j].seen.remote
      <3>1. "remote_completed" \in Statuses
        BY LateStatuses
      <3> HIDE DEF AtLeastZero
      <3> QED BY <2>2, <3>1 DEF JobRow
    <2>4. HasTask(j)
      BY <1>0, <2>1 DEF TaskKept, ScanEnds, ResultStatuses
    <2> HIDE DEF new
    <2> QED BY <1>0, <1>4, <2>1, <2>3, <2>4 DEF PipelineTypeOK
  <1> QED BY <1>1, <1>3, <1>5, <1>6, <1>7 DEF ScanNext

\* The rows the resume and redownload routes leave.
LEMMA ResumedRows ==
  ASSUME TypeInv, NEW j \in Jobs
  PROVE  /\ [job[j] EXCEPT !.status = "interrupted"] \in JobRow
         /\ [job[j] EXCEPT !.status = "interrupted"].remote = job[j].remote
         /\ [job[j] EXCEPT !.status = "interrupted"].status = "interrupted"
         /\ Resumed(j) \in JobRow /\ Resumed(j).remote = job[j].remote
         /\ Resumed(j).status \in {"polling", "remote_completed"}
         /\ Redownloaded(j) \in JobRow /\ Redownloaded(j).remote = job[j].remote
         /\ Redownloaded(j).status \in {"polling", "remote_completed"}
         /\ [job[j] EXCEPT !.status = "remote_completed", !.downloads = 0] \in JobRow
         /\ [job[j] EXCEPT !.status = "remote_completed", !.downloads = 0, !.full = TRUE] \in JobRow
  <1>1. job[j] \in JobRow
    BY TypedAt DEF TypeInv
  <1>2. 0 \in 0..MaxDownloads
    BY PipelineAssumption
  <1>3. ASSUME NEW s \in {"interrupted", "polling", "remote_completed"}
        PROVE  /\ [job[j] EXCEPT !.status = s] \in JobRow
               /\ [job[j] EXCEPT !.status = s].remote = job[j].remote
               /\ [job[j] EXCEPT !.status = s].status = s
               /\ [job[j] EXCEPT !.status = s, !.downloads = 0] \in JobRow
               /\ [job[j] EXCEPT !.status = s, !.downloads = 0].remote = job[j].remote
               /\ [job[j] EXCEPT !.status = s, !.downloads = 0].status = s
               /\ [job[j] EXCEPT !.status = s, !.downloads = 0, !.full = TRUE] \in JobRow
               /\ [job[j] EXCEPT !.status = s, !.downloads = 0, !.full = TRUE].remote
                    = job[j].remote
               /\ [job[j] EXCEPT !.status = s, !.downloads = 0, !.full = TRUE].status = s
    <2>1. s \in Statuses
      BY LateStatuses
    <2> QED BY <1>1, <1>2, <2>1 DEF JobRow
  <1>4. /\ Resumed(j) \in JobRow /\ Resumed(j).remote = job[j].remote
        /\ Resumed(j).status \in {"polling", "remote_completed"}
    BY <1>3 DEF Resumed
  <1>5. /\ Redownloaded(j) \in JobRow /\ Redownloaded(j).remote = job[j].remote
        /\ Redownloaded(j).status \in {"polling", "remote_completed"}
    BY <1>3 DEF Redownloaded
  <1> QED BY <1>3, <1>4, <1>5

\* Whoever may be paused, resumed or downloaded again has an upstream task.
LEMMA ClicksNeedTask ==
  ASSUME NEW j \in Jobs, CanRedownload(j) \/ CanResume(j) \/ CanPause(j)
  PROVE  HasTask(j)
  BY DEF CanRedownload, CanResume, CanPause, HasTask

\* A click counts, and a route that reads now and writes later keeps both rows.
LEMMA OpReads ==
  ASSUME TypeInv, NEW j \in Jobs, NEW pc \in {"pause", "redownload", "resume", "delete"},
         NEW new \in JobRow, OpRead(j, pc, new)
  PROVE  /\ op'[j] = [pc |-> pc, seen |-> job[j], new |-> new]
         /\ op' \in [Jobs -> Operation] /\ clicks' \in 0..MaxClicks
         /\ UNCHANGED <<quotaVars, rowVars, outputVars, task, sub, poll, dl, kicked, up, faults>>
  <1>1. [pc |-> pc, seen |-> job[j], new |-> new] \in Operation
    BY TypedAt DEF TypeInv, Operation
  <1> QED BY <1>1, PipelineAssumption DEF TypeInv, OpRead, Click, PipelineTypeOK

LEMMA ClickTyped ==
  ASSUME TypeInv, NEW j \in Jobs, ClickNext(j)
  PROVE  PipelineTypeOK' /\ TaskNamed(j)' /\ TaskKept(j)'
  <1> DEFINE Goal == PipelineTypeOK' /\ TaskNamed(j)' /\ TaskKept(j)'
  <1>0. PipelineTypeOK /\ TaskNamed(j) /\ TaskKept(j) /\ job[j] \in JobRow
    BY TypedAt DEF TypeInv
  <1> USE DEF rowVars, outputVars, threadVars
  <1>1. ASSUME NEW pc \in {"pause", "redownload", "resume", "delete"}, NEW new \in JobRow,
               OpRead(j, pc, new), pc # "delete" => HasTask(j) /\ new.remote = job[j].remote
        PROVE  Goal
    <2>1. /\ op'[j] = [pc |-> pc, seen |-> job[j], new |-> new]
          /\ op' \in [Jobs -> Operation] /\ clicks' \in 0..MaxClicks
          /\ UNCHANGED <<quotaVars, rowVars, outputVars, task, sub, poll, dl, kicked, up, faults>>
      BY <1>1, OpReads
    <2>2. PipelineTypeOK'
      BY <1>0, <2>1 DEF PipelineTypeOK
    <2>3. op'[j].pc = pc /\ op'[j].seen = job[j] /\ op'[j].new = new
      BY <2>1
    <2>4. TaskNamed(j)'
      BY <1>0, <2>1 DEF TaskNamed, HasTask
    <2>5. TaskKept(j)'
      BY <1>0, <1>1, <2>1, <2>3 DEF TaskKept, HasTask
    <2> QED BY <2>2, <2>4, <2>5
  <1>2. CASE PauseRead(j) \/ RedownloadRead(j) \/ AdminResumeRead(j) \/ BulkDeleteRead(j)
    <2>1. CASE PauseRead(j)
      BY <1>1, <2>1, ResumedRows, ClicksNeedTask DEF PauseRead
    <2>2. CASE RedownloadRead(j)
      BY <1>1, <2>2, ResumedRows, ClicksNeedTask DEF RedownloadRead
    <2>3. CASE AdminResumeRead(j)
      BY <1>1, <2>3, ResumedRows, ClicksNeedTask DEF AdminResumeRead
    <2>4. CASE BulkDeleteRead(j)
      BY <1>0, <1>1, <2>4 DEF BulkDeleteRead
    <2> QED BY <1>2, <2>1, <2>2, <2>3, <2>4
  <1>3. ASSUME op' = [op EXCEPT ![j] = Idle]
        PROVE  op' \in [Jobs -> Operation] /\ op'[j] = Idle
    BY <1>0, <1>3 DEF PipelineTypeOK, Operation
  <1>4. CASE OpWrite(j)
    <2>1. /\ op[j].pc \in {"pause", "redownload", "resume"} /\ op' = [op EXCEPT ![j] = Idle]
          /\ Write(j, op[j].seen, op[j].new)
          /\ UNCHANGED <<quotaVars, events, outputVars, task, sub, poll, dl, up, faults, clicks>>
      BY <1>4 DEF OpWrite
    <2>2. /\ op[j].seen \in JobRow /\ op[j].new \in JobRow
          /\ HasTask(j) /\ op[j].new.remote = op[j].seen.remote
      BY <1>0, <2>1, TypedAt DEF Idle, TaskKept
    <2>3. job' \in [Jobs -> JobRow] /\ job'[j].remote = job[j].remote
      BY <2>1, <2>2, WriteTyped
    <2>4. kicked' \in [Jobs -> BOOLEAN]
      <3>1. PICK b \in BOOLEAN : kicked' = [kicked EXCEPT ![j] = b]
        BY <1>0, <1>4, Zenon DEF OpWrite
      <3> QED BY <1>0, <3>1 DEF PipelineTypeOK
    <2>5. PipelineTypeOK'
      BY <1>0, <1>3, <2>1, <2>3, <2>4 DEF PipelineTypeOK
    <2> QED BY <1>3, <2>1, <2>2, <2>3, <2>5, TaskStays
  <1>5. CASE OpVoid(j) \/ KickEnds(j)
    <2>1. op' \in [Jobs -> Operation] /\ op'[j] \in {op[j], Idle}
      BY <1>0, <1>3, <1>5 DEF OpVoid, KickEnds, PipelineTypeOK
    <2>2. kicked' \in [Jobs -> BOOLEAN]
      BY <1>0, <1>5 DEF OpVoid, KickEnds, PipelineTypeOK
    <2>3. UNCHANGED <<rowVars, outputVars, task, sub, poll, dl, up, faults, clicks>>
      BY <1>5 DEF OpVoid, KickEnds
    <2>4. PipelineTypeOK'
      BY <1>0, <2>1, <2>2, <2>3 DEF PipelineTypeOK
    <2> QED BY <1>0, <2>1, <2>3, <2>4, TaskStays DEF TaskNamed
  <1>6. ASSUME NEW row, Delete(j, row), op' \in [Jobs -> Operation], op'[j] \in {op[j], Idle},
               clicks' \in 0..MaxClicks, UNCHANGED <<task, sub, poll, dl, kicked, up, faults>>
        PROVE  Goal
    <2> DEFINE new == [job[j] EXCEPT !.status = "deleted"]
    <2>1. new \in JobRow /\ new.remote = job[j].remote /\ new.status \in Unstarted
      BY <1>0, LateStatuses DEF JobRow, Unstarted, Absent
    <2>2. job' = [job EXCEPT ![j] = new]
      BY <1>6 DEF Delete
    <2>3. /\ events' \in [Jobs -> SUBSET {"remote_completed", "content_fallback",
                                          "download_error"}]
          /\ record' \in [Jobs -> Tasks \cup {NoTask}] /\ files' \in [Jobs -> SUBSET Tasks]
      BY <1>0, <1>6 DEF Delete, PipelineTypeOK
    <2> HIDE DEF new
    <2>4. job' \in [Jobs -> JobRow] /\ TaskNamed(j)' /\ TaskKept(j)'
      BY <1>6, <2>1, <2>2, RowMoved
    <2> QED BY <1>0, <1>6, <2>3, <2>4 DEF PipelineTypeOK
  <1>7. CASE BulkDeleteWrite(j)
    BY <1>0, <1>3, <1>6, <1>7 DEF BulkDeleteWrite, PipelineTypeOK
  <1>8. Click(j) => clicks' \in 0..MaxClicks
    BY <1>0, PipelineAssumption DEF Click, PipelineTypeOK
  <1>9. CASE DeleteOne(j)
    BY <1>0, <1>6, <1>8, <1>9 DEF DeleteOne, PipelineTypeOK
  <1>10. ASSUME NEW new \in JobRow, NEW kick \in BOOLEAN, LockedWrite(j, new, kick),
                new.remote = job[j].remote, HasTask(j)
         PROVE  Goal
    <2>1. job' \in [Jobs -> JobRow] /\ TaskNamed(j)' /\ TaskKept(j)'
      BY <1>10, RowMoved DEF LockedWrite
    <2>2. kicked' \in [Jobs -> BOOLEAN]
      <3>1. PICK b \in BOOLEAN : kicked' = [kicked EXCEPT ![j] = b]
        BY <1>0, <1>10, Zenon DEF LockedWrite
      <3> QED BY <1>0, <3>1 DEF PipelineTypeOK
    <2> QED BY <1>0, <1>8, <1>10, <2>1, <2>2 DEF LockedWrite, PipelineTypeOK
  <1>11. CASE UserResume(j)
    BY <1>10, <1>11, ResumedRows, ClicksNeedTask DEF UserResume
  <1>12. CASE AdminRedownload(j)
    <2> DEFINE new == [job[j] EXCEPT !.status = "remote_completed", !.downloads = 0, !.full = TRUE]
    <2>1. new \in JobRow /\ new.remote = job[j].remote
      BY <1>0, ResumedRows DEF JobRow
    <2>2. LockedWrite(j, new, TRUE) /\ HasTask(j)
      BY <1>12, ClicksNeedTask DEF AdminRedownload
    <2> HIDE DEF new
    <2> QED BY <1>10, <2>1, <2>2
  <1>13. CASE BatchRetryDownload(j)
    <2> DEFINE new == [job[j] EXCEPT !.status = "remote_completed", !.downloads = 0]
    <2>1. new \in JobRow /\ new.remote = job[j].remote
      BY <1>0, ResumedRows DEF JobRow
    <2>2. LockedWrite(j, new, FALSE) /\ HasTask(j)
      BY <1>13 DEF BatchRetryDownload, HasTask
    <2> HIDE DEF new
    <2> QED BY <1>10, <2>1, <2>2
  <1> QED BY <1>2, <1>4, <1>5, <1>7, <1>9, <1>11, <1>12, <1>13 DEF ClickNext

LEMMA UpstreamTyped ==
  ASSUME TypeInv, NEW j \in Jobs, UpstreamNext(j)
  PROVE  PipelineTypeOK' /\ TaskNamed(j)' /\ TaskKept(j)'
  <1>0. PipelineTypeOK /\ TaskNamed(j)
    BY DEF TypeInv
  <1>1. PICK k \in Tasks, outcome \in {"done", "failed"} : UpstreamFinishes(j, k, outcome)
    BY DEF UpstreamNext
  <1>2. /\ task' = [task EXCEPT ![j][k] = outcome]
        /\ UNCHANGED <<rowVars, outputVars, threadVars, kicked, up, faults, clicks>>
    BY <1>1 DEF UpstreamFinishes
  <1>3. /\ task' \in [Jobs -> [Tasks -> {"none", "running", "done", "failed"}]]
        /\ \A i \in Tasks : task[j][i] # "none" => task'[j][i] # "none"
    BY <1>0, <1>2 DEF PipelineTypeOK
  <1> USE DEF rowVars, outputVars, threadVars
  <1>4. PipelineTypeOK'
    BY <1>0, <1>2, <1>3 DEF PipelineTypeOK
  <1> QED BY <1>0, <1>2, <1>3, <1>4, TaskStays DEF TaskNamed

\* The row a restarted worker leaves.
LEMMA RecoveredRow ==
  ASSUME NEW row \in JobRow
  PROVE  /\ Recovered(row) \in JobRow /\ Recovered(row).remote = row.remote
         /\ \/ Recovered(row) = row
            \/ /\ row.status = "submitting" /\ row.remote = NoTask
               /\ Recovered(row).status = "queued"
            \/ /\ row.status = "downloading" /\ row.remote # NoTask
               /\ Recovered(row).status = "remote_completed"
            \/ /\ \/ row.status = "submitting" /\ row.remote # NoTask
                  \/ row.status = "downloading" /\ row.remote = NoTask
               /\ Recovered(row).status = "interrupted"
  <1>1. ASSUME NEW s \in {"queued", "remote_completed", "interrupted"}
        PROVE  /\ [row EXCEPT !.status = s] \in JobRow
               /\ [row EXCEPT !.status = s].remote = row.remote
               /\ [row EXCEPT !.status = s].status = s
    <2>1. s \in Statuses
      BY LateStatuses
    <2> QED BY <2>1 DEF JobRow
  <1>2. CASE row.status \notin {"submitting", "downloading"}
    BY <1>2 DEF Recovered
  <1>3. CASE row.status = "submitting" /\ row.remote = NoTask
    <2>1. Recovered(row) = [row EXCEPT !.status = "queued"]
      BY <1>3 DEF Recovered
    <2> QED BY <1>1, <1>3, <2>1
  <1>4. CASE row.status = "downloading" /\ row.remote # NoTask
    <2>1. Recovered(row) = [row EXCEPT !.status = "remote_completed"]
      BY <1>4 DEF Recovered
    <2> QED BY <1>1, <1>4, <2>1
  <1>5. CASE \/ row.status = "submitting" /\ row.remote # NoTask
             \/ row.status = "downloading" /\ row.remote = NoTask
    <2>1. Recovered(row) = [row EXCEPT !.status = "interrupted"]
      BY <1>5 DEF Recovered
    <2> QED BY <1>1, <1>5, <2>1
  <1> QED BY <1>2, <1>3, <1>4, <1>5

\* A crash forgets the threads, a restart repairs the rows they left.
LEMMA WorkerTyped == TypeInv /\ (WorkerCrash \/ WorkerStart) => TypeInv'
  <1> SUFFICES ASSUME TypeInv, WorkerCrash \/ WorkerStart PROVE TypeInv' OBVIOUS
  <1>0. PipelineTypeOK /\ \A j \in Jobs : TaskNamed(j) /\ TaskKept(j)
    BY DEF TypeInv
  <1> USE DEF rowVars, outputVars, threadVars
  <1>1. CASE WorkerCrash
    <2>1. /\ faults' \in 0..MaxFaults /\ up' \in BOOLEAN
          /\ sub' \in [Jobs -> SubmitThread] /\ dl' \in [Jobs -> DownloadThread]
      <3>1. faults' \in 0..MaxFaults
        BY <1>0, <1>1, PipelineAssumption DEF WorkerCrash, PipelineTypeOK
      <3>2. sub' \in [Jobs -> SubmitThread] /\ dl' \in [Jobs -> DownloadThread]
        BY <1>1 DEF WorkerCrash, SubmitThread, DownloadThread
      <3> QED BY <1>1, <3>1, <3>2 DEF WorkerCrash
    <2>2. poll' \in [Pollers -> [Jobs -> Poll]]
      BY <1>0, <1>1 DEF WorkerCrash, PipelineTypeOK, Poll
    <2>3. op' \in [Jobs -> Operation]
      BY <1>0, <1>1 DEF WorkerCrash, PipelineTypeOK, Operation
    <2>4. UNCHANGED <<job, events, record, files, task, kicked, clicks>>
      BY <1>1 DEF WorkerCrash
    <2>5. PipelineTypeOK'
      BY <1>0, <2>1, <2>2, <2>3, <2>4 DEF PipelineTypeOK
    <2>6. ASSUME NEW j \in Jobs PROVE TaskNamed(j)' /\ TaskKept(j)'
      <3>1. /\ sub'[j] = Idle /\ op'[j] \in {op[j], Idle}
            /\ \A p \in Pollers : poll'[p][j] \in {poll[p][j], Idle}
        BY <1>0, <1>1 DEF WorkerCrash, PipelineTypeOK
      <3> QED BY <1>0, <2>4, <3>1, TaskStays DEF TaskNamed
    <2> QED BY <2>5, <2>6 DEF TypeInv
  <1>2. CASE WorkerStart
    <2>1. /\ job' = [j \in Jobs |-> Recovered(job[j])] /\ up' \in BOOLEAN
          /\ UNCHANGED <<events, outputVars, task, threadVars, kicked, faults, clicks>>
      BY <1>2 DEF WorkerStart
    <2>2. job' \in [Jobs -> JobRow]
      BY <1>0, <2>1, RecoveredRow DEF PipelineTypeOK
    <2>3. PipelineTypeOK'
      BY <1>0, <2>1, <2>2 DEF PipelineTypeOK
    <2>4. ASSUME NEW j \in Jobs PROVE TaskNamed(j)' /\ TaskKept(j)'
      <3>1. /\ job'[j].remote = job[j].remote
            /\ job'[j].status \notin Unstarted => HasTask(j)
        <4>1. job[j] \in JobRow /\ job'[j] = Recovered(job[j]) /\ TaskNamed(j)
          BY <1>0, <2>1, TypedAt
        <4> QED BY <4>1, RecoveredRow DEF TaskNamed, HasTask, Unstarted, Absent
      <3> QED BY <2>1, <3>1, TaskStays
    <2> QED BY <2>3, <2>4 DEF TypeInv
  <1> QED BY <1>1, <1>2

LEMMA PipelineTypeInit == PipelineInit => TypeInv
  <1> SUFFICES ASSUME PipelineInit PROVE TypeInv OBVIOUS
  <1>1. NewRow \in JobRow
    BY PipelineAssumption DEF NewRow, JobRow, Statuses, Absent
  <1>2. PipelineTypeOK
    <2> USE DEF PipelineInit
    <2>1. job \in [Jobs -> JobRow] /\ events \in [Jobs -> SUBSET {"remote_completed",
                                                   "content_fallback", "download_error"}]
      BY <1>1
    <2>2. /\ record \in [Jobs -> Tasks \cup {NoTask}] /\ files \in [Jobs -> SUBSET Tasks]
          /\ task \in [Jobs -> [Tasks -> {"none", "running", "done", "failed"}]]
      OBVIOUS
    <2>3. /\ sub \in [Jobs -> SubmitThread] /\ dl \in [Jobs -> DownloadThread]
          /\ poll \in [Pollers -> [Jobs -> Poll]] /\ op \in [Jobs -> Operation]
      BY DEF SubmitThread, DownloadThread, Poll, Operation
    <2>4. kicked \in [Jobs -> BOOLEAN] /\ up \in BOOLEAN /\ faults \in 0..MaxFaults
          /\ clicks \in 0..MaxClicks
      BY PipelineAssumption
    <2> QED BY <2>1, <2>2, <2>3, <2>4 DEF PipelineTypeOK
  <1>3. ASSUME NEW j \in Jobs PROVE TaskNamed(j) /\ TaskKept(j)
    <2>1. job[j].status = "none" /\ job[j].remote = NoTask
      BY DEF PipelineInit, NewRow
    <2>2. sub[j] = Idle /\ op[j] = Idle /\ \A p \in Pollers : poll[p][j] = Idle
      BY DEF PipelineInit
    <2> QED BY <2>1, <2>2 DEF TaskNamed, TaskKept, HasTask, Unstarted, Absent, Idle
  <1> QED BY <1>2, <1>3 DEF TypeInv

\* Nothing that the rules of TypeInv look at changes.
LEMMA TypeInvSame ==
  ASSUME TypeInv, UNCHANGED pipelineVars
  PROVE  TypeInv'
  BY DEF TypeInv, pipelineVars, PipelineTypeOK, TaskNamed, TaskKept, HasTask

LEMMA PipelineTypeStep == TypeInv /\ QuotaTypeOK /\ [PipelineNext]_vars => TypeInv'
  <1> SUFFICES ASSUME TypeInv, QuotaTypeOK, [PipelineNext]_vars PROVE TypeInv' OBVIOUS
  <1>0. PipelineTypeOK
    BY DEF TypeInv
  <1>1. ASSUME NEW j \in Jobs, PipelineTypeOK', TaskNamed(j)', TaskKept(j)',
               \A i \in Jobs \ {j} : Same(i)
        PROVE  TypeInv'
    <2>1. ASSUME NEW i \in Jobs \ {j} PROVE TaskNamed(i)' /\ TaskKept(i)'
      <3>1. Same(i) /\ TaskNamed(i) /\ TaskKept(i)
        BY <1>1 DEF TypeInv
      <3> QED BY <3>1 DEF Same, TaskNamed, TaskKept, HasTask
    <2> QED BY <1>1, <2>1 DEF TypeInv
  <1>2. ASSUME NEW j \in Jobs, SubmitNext(j) PROVE TypeInv'
    BY <1>0, <1>1, <1>2, SubmitTyped, SubmitSame
  <1>3. ASSUME NEW j \in Jobs, NEW p \in Pollers, PollNext(p, j) PROVE TypeInv'
    BY <1>0, <1>1, <1>3, PollTyped, PollSame
  <1>4. ASSUME NEW j \in Jobs, DownloadNext(j) PROVE TypeInv'
    BY <1>0, <1>1, <1>4, DownloadTyped, DownloadSame
  <1>5. ASSUME NEW j \in Jobs, ScanNext(j) PROVE TypeInv'
    BY <1>0, <1>1, <1>5, ScanTyped, ScanSame
  <1>6. ASSUME NEW j \in Jobs, ClickNext(j) PROVE TypeInv'
    BY <1>0, <1>1, <1>6, ClickTyped, ClickSame
  <1>7. ASSUME NEW j \in Jobs, UpstreamNext(j) PROVE TypeInv'
    BY <1>0, <1>1, <1>7, UpstreamTyped, UpstreamSame
  <1>8. CASE WorkerCrash \/ WorkerStart
    BY <1>8, WorkerTyped
  <1>9. CASE BooksNext \/ UNCHANGED vars
    BY <1>9, TypeInvSame DEF BooksNext, vars
  <1> QED BY <1>2, <1>3, <1>4, <1>5, <1>6, <1>7, <1>8, <1>9 DEF PipelineNext

\* The columns any thread writes back stay readable for all others, whatever rows they
\* were merged with: a status check never lacks its task, and no chain of retries,
\* recoveries and restarts takes download_attempts past the retry list.
THEOREM PipelineTypeCorrect == PipelineSpec => []PipelineTypeOK
  <1>1. PipelineSpec => []QuotaTypeOK
    BY PipelineRefinesQuota, QuotaTypeCorrect, PTL
  <1>2. TypeInv => PipelineTypeOK
    BY DEF TypeInv
  <1> QED BY <1>1, <1>2, PipelineTypeInit, PipelineTypeStep, PTL DEF PipelineSpec

--------------------------------------------------------------------------------
\* The invariant.

\* The row of a job fits its quota unit. The upstream task is stored once, and the job
\* does not go back behind its submission.
RowFits(j) ==
  /\ HasTask(j) => job[j].status \notin {"none", "queued", "submitting"}
  /\ job[j].status \in Absent => reservation[j].status = job[j].status
  /\ Exists(j) /\ HasTask(j) => reservation[j].status \in {"charged", "refunded"}
  /\ Exists(j) /\ ~HasTask(j)
       => reservation[j].status = IF job[j].status \in {"queued", "submitting"} THEN "reserved"
                                                                          ELSE "released"
  /\ job[j].status = "failed" /\ HasTask(j) => reservation[j].status = "refunded"

\* The files of a job are videos of finished tasks. The one its row records is that of its
\* own task, and no download has given up on it; a completed job has one.
FilesFit(j) ==
  /\ \A k \in files[j] : task[j][k] = "done"
  /\ record[j] # NoTask => /\ Exists(j) /\ record[j] = job[j].remote /\ record[j] \in files[j]
                           /\ job[j].status # "download_failed"
  /\ job[j].status = "completed" => record[j] # NoTask

\* A submit thread still works on the row it remembers, unless that was deleted.
SubFits(j) ==
  sub[j] # Idle =>
    /\ up
    /\ \/ job[j].status = "deleted"
       \/ job[j] = sub[j].seen /\ job[j].status = "submitting" /\ ~HasTask(j)

\* A status check asks for the task of the row, and a final answer stays true.
PollFits(p, j) ==
  poll[p][j] # Idle =>
    /\ HasTask(j) /\ poll[p][j].seen.remote = job[j].remote
    /\ poll[p][j].seen.status \in PollableStatuses
    /\ poll[p][j].was # "running" => task[j][job[j].remote] = poll[p][j].was

\* A recovery scan holds a submission nobody works on, or a row with its task.
ScanFits(j) ==
  op[j].pc = "scan" =>
    /\ up
    /\ \/ /\ StaleSubmitting(op[j].seen)
          /\ job[j].status = "deleted" \/ (sub[j] = Idle /\ job[j] = op[j].seen)
       \/ op[j].seen.status \in ResultStatuses /\ HasTask(j) /\ op[j].seen.remote = job[j].remote

\* A route waits with a job that was there, or that has its task.
ClickFits(j) ==
  /\ op[j].pc = "delete" => job[j].status # "none"
  /\ op[j].pc \in {"pause", "redownload", "resume"} =>
       /\ HasTask(j) /\ op[j].seen.remote = job[j].remote /\ op[j].new.remote = job[j].remote
       /\ op[j].new.status \in {"interrupted", "polling", "remote_completed"}

\* A download transfers the video of the row's task; it is not on disk before, and
\* stays there after, unless the job is deleted.
DlFits(j) ==
  dl[j] # Idle =>
    /\ HasTask(j) /\ dl[j].task = job[j].remote
    /\ dl[j].pc = "transferring" => dl[j].task \notin files[j]
    /\ dl[j].pc = "saved" => dl[j].task \in files[j] \/ job[j].status = "deleted"

ThreadsFit(j) ==
  SubFits(j) /\ ScanFits(j) /\ ClickFits(j) /\ DlFits(j) /\ \A p \in Pollers : PollFits(p, j)

JobFits(j) == RowFits(j) /\ FilesFit(j) /\ ThreadsFit(j)

\* What each booking does to the unit of its job, and when a release takes another's.
LEMMA UnitMoves ==
  ASSUME QuotaTypeOK, NEW j \in Jobs
  PROVE  /\ ReserveQuota(j) => reservation'[j].status = "reserved" /\ UNCHANGED misreleased
         /\ ChargeReserved(j) => reservation'[j].status = "charged" /\ UNCHANGED misreleased
         /\ Refund(j) => /\ UNCHANGED misreleased
                         /\ reservation'[j].status = IF reservation[j].status = "charged"
                                                     THEN "refunded" ELSE reservation[j].status
         /\ \A pending :
              ReleaseForJob(j, pending) =>
                /\ reservation'[j].status = IF reservation[j].status = "reserved"
                                            THEN "released" ELSE reservation[j].status
                /\ reservation[j].status = "reserved" \/ ~pending => UNCHANGED misreleased
         /\ \A pending :
              DeleteJobQuota(j, pending) =>
                /\ reservation[j].status # "none" /\ reservation'[j].status = "deleted"
                /\ reservation[j].status = "reserved" \/ ~pending => UNCHANGED misreleased
  <1>0. reservation \in [Jobs -> ReservationRow]
    BY DEF QuotaTypeOK
  <1>1. ASSUME NEW s, reservation' = [reservation EXCEPT ![j].status = s]
        PROVE  reservation'[j].status = s
    BY <1>0, <1>1 DEF ReservationRow
  <1>2. ReserveQuota(j) => reservation'[j].status = "reserved" /\ UNCHANGED misreleased
    <2>1. ASSUME NEW s,
                 reservation' = [reservation EXCEPT ![j] = [status |-> "reserved", source |-> s]]
          PROVE  reservation'[j].status = "reserved"
      BY <1>0, <2>1
    <2> QED BY <2>1 DEF ReserveQuota, ReservePersonal, ReservePackage
  <1>3. ChargeReserved(j) => reservation'[j].status = "charged" /\ UNCHANGED misreleased
    BY <1>1 DEF ChargeReserved, ChargePersonal, ChargePackage
  <1>4. RefundFailedJob(j) => reservation'[j].status = "refunded" /\ UNCHANGED misreleased
    BY <1>1 DEF RefundFailedJob, RefundPersonal, RefundPackage
  <1>5. Refund(j) => /\ UNCHANGED misreleased
                     /\ reservation'[j].status = IF reservation[j].status = "charged"
                                                 THEN "refunded" ELSE reservation[j].status
    BY <1>4 DEF Refund, quotaVars
  <1>6. ASSUME NEW pending, NEW s, GiveBack(j, pending, s)
        PROVE  /\ reservation[j].status # "none" /\ reservation'[j].status = s
               /\ reservation[j].status = "reserved" \/ ~pending => UNCHANGED misreleased
    BY <1>1, <1>6 DEF GiveBack
  <1>7. ASSUME NEW pending, ReleaseForJob(j, pending)
        PROVE  /\ reservation'[j].status = IF reservation[j].status = "reserved"
                                           THEN "released" ELSE reservation[j].status
               /\ reservation[j].status = "reserved" \/ ~pending => UNCHANGED misreleased
    BY <1>6, <1>7 DEF ReleaseForJob
  <1>8. ASSUME NEW pending, DeleteJobQuota(j, pending)
        PROVE  /\ reservation[j].status # "none" /\ reservation'[j].status = "deleted"
               /\ reservation[j].status = "reserved" \/ ~pending => UNCHANGED misreleased
    BY <1>6, <1>8 DEF DeleteJobQuota
  <1> QED BY <1>2, <1>3, <1>5, <1>7, <1>8

\* A job with its task is moved on, and its unit and files are left alone.
MovesOn(j) ==
  /\ HasTask(j) /\ job'[j].remote = job[j].remote
  /\ job'[j].status \in {job[j].status, "polling", "remote_completed", "interrupted",
                         "download_waiting", "downloading"}
  /\ job[j].status = "deleted" => job'[j].status = "deleted"

\* Moving a job on keeps its row fitting its unit and its files.
LEMMA RowMovesOn ==
  ASSUME NEW j \in Jobs, RowFits(j), FilesFit(j), MovesOn(j),
         reservation'[j].status = reservation[j].status, UNCHANGED <<record, files, task>>
  PROVE  RowFits(j)' /\ FilesFit(j)'
  <1>1. RowFits(j)'
    BY DEF RowFits, MovesOn, HasTask, Exists, Absent
  <1>2. FilesFit(j)'
    BY DEF RowFits, FilesFit, MovesOn, HasTask, Exists, Absent
  <1> QED BY <1>1, <1>2

\* How a step may move the row of job j under the threads that remember it.
JobMoves(j) ==
  /\ HasTask(j) => job'[j].remote = job[j].remote
  /\ job[j].status # "none" => job'[j].status # "none"
  /\ job[j].status = "deleted" => job'[j].status = "deleted"
  /\ \A k \in Tasks : task[j][k] \in {"done", "failed"} => task'[j][k] = task[j][k]
  /\ up' = up

\* Such a step leaves a submission that is under way, or that was lost, as it is.
JobHeld(j) ==
  job[j].status = "submitting" /\ ~HasTask(j) => job'[j] = job[j] \/ job'[j].status = "deleted"

\* Threads that a step does not touch, or ends, still fit.
LEMMA ThreadsStay ==
  ASSUME TypeInv, NEW j \in Jobs, ThreadsFit(j), JobMoves(j)
  PROVE  /\ sub'[j] = Idle => SubFits(j)'
         /\ sub'[j] = sub[j] /\ JobHeld(j) => SubFits(j)'
         /\ op'[j] = Idle => ScanFits(j)' /\ ClickFits(j)'
         /\ op'[j] = op[j] => ClickFits(j)'
         /\ op'[j] = op[j] /\ JobHeld(j) /\ sub'[j] \in {sub[j], Idle} => ScanFits(j)'
         /\ dl'[j] = Idle => DlFits(j)'
         /\ dl'[j] = dl[j] /\ files'[j] = files[j] => DlFits(j)'
         /\ dl'[j] = dl[j] /\ files'[j] \subseteq files[j] /\ job'[j].status = "deleted"
              => DlFits(j)'
         /\ \A p \in Pollers : poll'[p][j] \in {poll[p][j], Idle} => PollFits(p, j)'
  <1>0. /\ SubFits(j) /\ ScanFits(j) /\ ClickFits(j) /\ DlFits(j)
        /\ \A p \in Pollers : PollFits(p, j)
    BY DEF ThreadsFit
  <1>1. job[j].remote \in Tasks \cup {NoTask}
    BY TypedAt DEF TypeInv
  <1>2. HasTask(j) => HasTask(j)'
    BY DEF JobMoves, HasTask
  <1>3. /\ sub'[j] = Idle => SubFits(j)'
        /\ sub'[j] = sub[j] /\ JobHeld(j) => SubFits(j)'
    BY <1>0 DEF SubFits, JobMoves, JobHeld, HasTask
  <1>4. op'[j] = Idle => ScanFits(j)' /\ ClickFits(j)'
    BY DEF ScanFits, ClickFits, Idle
  <1>5. op'[j] = op[j] => ClickFits(j)'
    BY <1>0, <1>2 DEF ClickFits, JobMoves
  <1>6. op'[j] = op[j] /\ JobHeld(j) /\ sub'[j] \in {sub[j], Idle} => ScanFits(j)'
    BY <1>0, <1>2 DEF ScanFits, JobMoves, JobHeld, HasTask, StaleSubmitting
  <1>7. /\ dl'[j] = Idle => DlFits(j)'
        /\ dl'[j] = dl[j] /\ files'[j] = files[j] => DlFits(j)'
        /\ dl'[j] = dl[j] /\ files'[j] \subseteq files[j] /\ job'[j].status = "deleted"
             => DlFits(j)'
    BY <1>0, <1>2 DEF DlFits, JobMoves
  <1>8. ASSUME NEW p \in Pollers, poll'[p][j] \in {poll[p][j], Idle}, poll'[p][j] # Idle
        PROVE  PollFits(p, j)'
    <2>1. poll'[p][j] = poll[p][j] /\ HasTask(j) /\ job'[j].remote = job[j].remote
      BY <1>0, <1>8 DEF PollFits, JobMoves
    <2>2. poll[p][j].was \in {"running", "done", "failed"}
      BY <1>8, <2>1 DEF TypeInv, PipelineTypeOK, Poll
    <2>3. job[j].remote \in Tasks
      BY <1>1, <2>1 DEF HasTask
    <2> QED BY <1>0, <1>2, <2>1, <2>2, <2>3 DEF PollFits, JobMoves
  <1>9. \A p \in Pollers : poll'[p][j] \in {poll[p][j], Idle} => PollFits(p, j)'
    BY <1>8 DEF PollFits
  <1> QED BY <1>3, <1>4, <1>5, <1>6, <1>7, <1>9

\* Job j is made a failed one, or paid back.
Undone(j) ==
  \/ job'[j].status = "failed" /\ job[j].status # "failed"
  \/ reservation'[j].status = "refunded" /\ reservation[j].status = "charged"

\* Only a job without a booked video is undone, and no other job pays for it.
PaysRightly(j) ==
  misreleased' = misreleased /\ (Undone(j) => record[j] = NoTask)

\* A step of another kind of thread that moves a job with a task on.
LEMMA FitsMovedOn ==
  ASSUME TypeInv, NEW j \in Jobs, JobFits(j), MovesOn(j), UNCHANGED quotaVars,
         UNCHANGED <<record, files, task, up>>,
         sub'[j] = sub[j], op'[j] \in {op[j], Idle}, dl'[j] \in {dl[j], Idle},
         \A p \in Pollers : poll'[p][j] \in {poll[p][j], Idle}
  PROVE  JobFits(j)' /\ PaysRightly(j)
  <1>1. RowFits(j) /\ FilesFit(j) /\ ThreadsFit(j)
    BY DEF JobFits
  <1>2. RowFits(j)' /\ FilesFit(j)'
    BY <1>1, RowMovesOn DEF quotaVars
  <1>3. JobMoves(j) /\ JobHeld(j)
    BY <1>1 DEF MovesOn, JobMoves, JobHeld, RowFits, HasTask
  <1>4. ThreadsFit(j)'
    BY <1>1, <1>3, ThreadsStay DEF ThreadsFit
  <1> QED BY <1>2, <1>4 DEF JobFits, PaysRightly, Undone, MovesOn, quotaVars

--------------------------------------------------------------------------------
\* One lemma per kind of thread: what it does to its job leaves row, unit, files and the
\* other threads fitting each other.
LEMMA SubmitFits ==
  ASSUME ~LateAnswers, TypeInv, QuotaTypeOK, NEW j \in Jobs, JobFits(j), SubmitNext(j)
  PROVE  JobFits(j)' /\ PaysRightly(j)
  <1> DEFINE Goal == JobFits(j)' /\ PaysRightly(j)
  <1>0. /\ RowFits(j) /\ FilesFit(j) /\ ThreadsFit(j) /\ PipelineTypeOK
        /\ SubFits(j) /\ ScanFits(j) /\ job[j] \in JobRow
    BY TypedAt DEF JobFits, ThreadsFit, TypeInv
  <1> USE DEF rowVars, outputVars, threadVars
  <1>1. CASE CreateJob(j) \/ SubmitRejected(j)
    <2>1. PICK s \in {"queued", "failed"} :
            /\ job' = [job EXCEPT ![j] = [job[j] EXCEPT !.status = s]]
            /\ UNCHANGED <<events, outputVars, task, threadVars, kicked, up, faults, clicks>>
            /\ \/ s = "queued" /\ job[j].status = "none" /\ ReserveQuota(j)
               \/ s = "failed" /\ job[j].status = "queued" /\ ReleaseForJob(j, Pending(job[j]))
      BY <1>1 DEF CreateJob, SubmitRejected
    <2>2. job'[j].status = s /\ job'[j].remote = job[j].remote
      BY <1>0, <2>1 DEF PipelineTypeOK, JobRow
    <2>3. /\ ~HasTask(j) /\ ~HasTask(j)' /\ record[j] = NoTask
          /\ reservation[j].status = IF s = "queued" THEN "none" ELSE "reserved"
      BY <1>0, <2>1, <2>2 DEF RowFits, FilesFit, HasTask, Exists, Absent
    <2>4. /\ reservation'[j].status = IF s = "queued" THEN "reserved" ELSE "released"
          /\ misreleased' = misreleased
      BY <2>1, <2>3, UnitMoves
    <2>5. RowFits(j)' /\ FilesFit(j)'
      BY <1>0, <2>1, <2>2, <2>3, <2>4 DEF RowFits, FilesFit, Exists, Absent
    <2>6. JobMoves(j) /\ JobHeld(j)
      BY <2>1, <2>2, <2>3 DEF JobMoves, JobHeld
    <2>7. ThreadsFit(j)'
      BY <1>0, <2>1, <2>6, ThreadsStay DEF ThreadsFit
    <2> QED BY <2>3, <2>4, <2>5, <2>7 DEF JobFits, PaysRightly, Undone
  <1>2. CASE SubmitStart(j)
    <2> DEFINE started == [job[j] EXCEPT !.status = "submitting",
                                         !.submits = Saturated(job[j].submits, MaxSubmit)]
    <2>1. /\ job' = [job EXCEPT ![j] = started]
          /\ sub' = [sub EXCEPT ![j] = [pc |-> "posting", seen |-> started]]
          /\ up /\ job[j].status = "queued"
          /\ UNCHANGED <<quotaVars, events, outputVars, task, poll, dl, op, kicked, up,
                         faults, clicks>>
      BY <1>2 DEF SubmitStart
    <2>2. started.status = "submitting" /\ started.remote = job[j].remote
      <3> HIDE DEF Saturated
      <3> QED BY <1>0 DEF JobRow
    <2> HIDE DEF started
    <2>3. job'[j] = started /\ sub'[j] = [pc |-> "posting", seen |-> started]
      BY <1>0, <2>1 DEF PipelineTypeOK
    <2>4. ~HasTask(j) /\ ~HasTask(j)' /\ reservation[j].status = "reserved"
      BY <1>0, <2>1, <2>2, <2>3 DEF RowFits, HasTask, Exists, Absent
    <2>5. RowFits(j)' /\ FilesFit(j)'
      BY <1>0, <2>1, <2>2, <2>3, <2>4 DEF RowFits, FilesFit, Exists, Absent, quotaVars, HasTask
    <2>6. JobMoves(j) /\ JobHeld(j)
      BY <2>1, <2>2, <2>3, <2>4 DEF JobMoves, JobHeld
    <2>7. SubFits(j)'
      BY <2>1, <2>2, <2>3, <2>4 DEF SubFits
    <2>8. ScanFits(j)'
      BY <1>0, <2>1, <2>4 DEF ScanFits, StaleSubmitting
    <2>9. ThreadsFit(j)'
      BY <1>0, <2>1, <2>6, <2>7, <2>8, ThreadsStay DEF ThreadsFit
    <2> QED BY <2>1, <2>2, <2>3, <2>5, <2>9 DEF JobFits, PaysRightly, Undone, quotaVars
  <1>3. CASE PostAccepted(j)
    <2>1. PICK k \in Tasks :
            /\ \/ /\ \A i \in Tasks : task[j][i] = "none" <=> i >= k
                  /\ task' = [task EXCEPT ![j][k] = "running"]
               \/ UNCHANGED task
            /\ sub' = [sub EXCEPT ![j] = [pc |-> "accepted", seen |-> @.seen, task |-> k]]
      BY <1>3 DEF PostAccepted
    <2>2. /\ sub[j].pc = "posting"
          /\ UNCHANGED <<quotaVars, rowVars, outputVars, poll, dl, op, kicked, up, faults, clicks>>
      BY <1>3 DEF PostAccepted
    <2>3. /\ sub[j] # Idle /\ sub'[j].seen = sub[j].seen /\ sub'[j] # Idle
      BY <1>0, <2>1, <2>2 DEF PipelineTypeOK, Idle
    <2>4. \A i \in Tasks : task[j][i] \in {"done", "failed"} => task'[j][i] = task[j][i]
      <3>1. CASE UNCHANGED task
        BY <3>1
      <3>2. CASE /\ \A i \in Tasks : task[j][i] = "none" <=> i >= k
                 /\ task' = [task EXCEPT ![j][k] = "running"]
        <4>1. k >= k
          BY DEF Tasks
        <4>2. task[j][k] = "none"
          BY <3>2, <4>1
        <4>3. \A i \in Tasks \ {k} : task'[j][i] = task[j][i]
          BY <1>0, <3>2 DEF PipelineTypeOK
        <4> QED BY <4>2, <4>3
      <3> QED BY <2>1, <3>1, <3>2
    <2>5. RowFits(j)'
      BY <1>0, <2>2 DEF RowFits, HasTask, Exists, quotaVars
    <2>6. FilesFit(j)'
      <3>1. files[j] \subseteq Tasks
        BY <1>0 DEF PipelineTypeOK
      <3> QED BY <1>0, <2>2, <2>4, <3>1 DEF FilesFit, Exists
    <2>7. JobMoves(j) /\ JobHeld(j)
      BY <2>2, <2>4 DEF JobMoves, JobHeld
    <2>8. SubFits(j)'
      BY <1>0, <2>2, <2>3 DEF SubFits, HasTask
    <2>9. ScanFits(j)'
      BY <1>0, <2>2, <2>3 DEF ScanFits, HasTask, StaleSubmitting, SubFits
    <2>10. ThreadsFit(j)'
      BY <1>0, <2>2, <2>7, <2>8, <2>9, ThreadsStay DEF ThreadsFit
    <2> QED BY <2>2, <2>5, <2>6, <2>10 DEF JobFits, PaysRightly, Undone, quotaVars
  <1>4. ASSUME sub[j] # Idle PROVE job[j].status = "deleted" \/ op[j].pc # "scan"
    BY <1>0, <1>4 DEF SubFits, ScanFits
  <1>5. ASSUME sub[j] # Idle, sub'[j] = Idle, JobMoves(j), JobHeld(j) \/ job[j].status # "deleted",
               UNCHANGED <<poll, dl, op, files>>
        PROVE  ThreadsFit(j)'
    <2>1. ScanFits(j)'
      <3>1. CASE op[j].pc = "scan"
        BY <1>0, <1>4, <1>5, <3>1, ThreadsStay DEF JobHeld, JobMoves
      <3>2. CASE op[j].pc # "scan"
        BY <1>5, <3>2 DEF ScanFits
      <3> QED BY <3>1, <3>2
    <2> QED BY <1>0, <1>5, <2>1, ThreadsStay DEF ThreadsFit
  <1>6. ASSUME NEW retryable \in BOOLEAN, SubmitFails(j, retryable) PROVE Goal
    <2>1. PICK s \in {"queued", "failed"} :
            /\ Write(j, sub[j].seen, [sub[j].seen EXCEPT !.status = s])
            /\ IF s = "queued" \/ ~Exists(j) THEN UNCHANGED quotaVars
                                             ELSE ReleaseForJob(j, Pending(sub[j].seen))
      BY <1>6 DEF SubmitFails
    <2>2. /\ sub[j] # Idle /\ sub' = [sub EXCEPT ![j] = Idle]
          /\ UNCHANGED <<events, outputVars, task, poll, dl, op, kicked, up, faults, clicks>>
      BY <1>6 DEF SubmitFails, Idle
    <2>3. sub[j].seen \in JobRow /\ sub'[j] = Idle
      BY <1>0, <2>2, TypedAt DEF PipelineTypeOK
    <2> DEFINE new == [sub[j].seen EXCEPT !.status = s]
    <2>4. new \in JobRow /\ new.status = s /\ new.remote = sub[j].seen.remote
      <3>1. s \in Statuses
        BY LateStatuses
      <3> QED BY <2>3, <3>1 DEF JobRow
    <2>5. /\ job'[j].status = IF Exists(j) /\ s # sub[j].seen.status THEN s ELSE job[j].status
          /\ job'[j].remote = job[j].remote
          /\ ~Exists(j) => job'[j] = job[j]
      <3>1. Write(j, sub[j].seen, new)
        BY <2>1
      <3> HIDE DEF new
      <3> QED BY <1>0, <2>3, <2>4, <3>1, RowWritten
    <2>6. CASE job[j].status = "deleted"
      <3>1. ~Exists(j) /\ job'[j] = job[j] /\ UNCHANGED quotaVars
        BY <2>1, <2>5, <2>6 DEF Exists, Absent
      <3>2. RowFits(j)' /\ FilesFit(j)'
        BY <1>0, <2>2, <3>1 DEF RowFits, FilesFit, HasTask, Exists, quotaVars
      <3>3. JobMoves(j) /\ JobHeld(j)
        BY <2>2, <3>1 DEF JobMoves, JobHeld
      <3> QED BY <1>5, <2>2, <2>3, <3>1, <3>2, <3>3 DEF JobFits, PaysRightly, Undone, quotaVars
    <2>7. CASE job[j] = sub[j].seen /\ job[j].status = "submitting" /\ ~HasTask(j)
      <3>1. Exists(j) /\ Pending(sub[j].seen) /\ reservation[j].status = "reserved"
            /\ record[j] = NoTask
        BY <1>0, <2>7 DEF Exists, Absent, Pending, RowFits, FilesFit, HasTask
      <3>2. job'[j].status = s /\ ~HasTask(j)'
        BY <2>5, <2>7, <3>1 DEF HasTask
      <3>3. /\ reservation'[j].status = IF s = "queued" THEN "reserved" ELSE "released"
            /\ misreleased' = misreleased
        BY <2>1, <3>1, UnitMoves DEF quotaVars
      <3>4. RowFits(j)' /\ FilesFit(j)'
        BY <1>0, <2>2, <3>1, <3>2, <3>3 DEF RowFits, FilesFit, Exists, Absent
      <3>5. JobMoves(j)
        BY <2>2, <2>7, <3>2 DEF JobMoves
      <3> QED BY <1>5, <2>2, <2>3, <2>7, <3>1, <3>3, <3>4, <3>5 DEF JobFits, PaysRightly, Undone
    <2> QED BY <1>0, <2>2, <2>6, <2>7 DEF SubFits
  <1>7. CASE SubmitCommit(j)
    <2>1. /\ sub[j] # Idle /\ sub[j].pc = "accepted" /\ sub' = [sub EXCEPT ![j] = Idle]
          /\ UNCHANGED <<events, outputVars, task, poll, dl, op, kicked, up, faults, clicks>>
      BY <1>7 DEF SubmitCommit, Idle
    <2>2. sub[j].seen \in JobRow /\ sub[j].task \in Tasks /\ sub'[j] = Idle
      BY <1>0, <2>1, TypedAt DEF PipelineTypeOK
    <2>3. PICK s \in {"submitted", "failed"} :
            /\ Write(j, sub[j].seen, [sub[j].seen EXCEPT !.status = s, !.remote = sub[j].task,
                                                         !.full = FALSE])
            /\ s = "submitted" <=> reservation[j].status \in {"reserved", "charged"}
            /\ IF reservation[j].status = "reserved" THEN ChargeReserved(j) ELSE UNCHANGED quotaVars
      BY <1>7 DEF SubmitCommit
    <2> DEFINE new == [sub[j].seen EXCEPT !.status = s, !.remote = sub[j].task, !.full = FALSE]
    <2>4. new \in JobRow /\ new.status = s /\ new.remote = sub[j].task
      <3>1. s \in Statuses
        BY LateStatuses DEF Statuses, LiveStatuses, PollableStatuses
      <3> QED BY <2>2, <3>1 DEF JobRow
    <2>5. /\ job'[j].status = IF Exists(j) /\ s # sub[j].seen.status THEN s ELSE job[j].status
          /\ job'[j].remote = IF Exists(j) /\ sub[j].task # sub[j].seen.remote
                              THEN sub[j].task ELSE job[j].remote
          /\ ~Exists(j) => job'[j] = job[j]
      <3>1. Write(j, sub[j].seen, new)
        BY <2>3
      <3> HIDE DEF new
      <3> QED BY <1>0, <2>2, <2>4, <3>1, RowWritten
    <2>6. CASE job[j].status = "deleted"
      <3>1. /\ ~Exists(j) /\ job'[j] = job[j] /\ UNCHANGED quotaVars
        BY <1>0, <2>3, <2>5, <2>6 DEF Exists, Absent, RowFits
      <3>2. RowFits(j)' /\ FilesFit(j)'
        BY <1>0, <2>1, <3>1 DEF RowFits, FilesFit, HasTask, Exists, quotaVars
      <3>3. JobMoves(j) /\ JobHeld(j)
        BY <2>1, <3>1 DEF JobMoves, JobHeld
      <3> QED BY <1>5, <2>1, <2>2, <3>1, <3>2, <3>3 DEF JobFits, PaysRightly, Undone, quotaVars
    <2>7. CASE job[j] = sub[j].seen /\ job[j].status = "submitting" /\ ~HasTask(j)
      <3>1. Exists(j) /\ reservation[j].status = "reserved" /\ record[j] = NoTask
        BY <1>0, <2>7 DEF Exists, Absent, RowFits, FilesFit, HasTask
      <3>2. job'[j].status = "submitted" /\ job'[j].remote = sub[j].task /\ HasTask(j)'
        BY <2>2, <2>3, <2>5, <2>7, <3>1 DEF HasTask, Tasks, NoTask
      <3>3. reservation'[j].status = "charged" /\ misreleased' = misreleased
        BY <2>3, <3>1, UnitMoves
      <3>4. RowFits(j)' /\ FilesFit(j)'
        BY <1>0, <2>1, <3>1, <3>2, <3>3 DEF RowFits, FilesFit, Exists, Absent
      <3>5. JobMoves(j)
        BY <2>1, <2>7, <3>2 DEF JobMoves
      <3> QED BY <1>5, <2>1, <2>2, <2>7, <3>1, <3>3, <3>4, <3>5 DEF JobFits, PaysRightly, Undone
    <2> QED BY <1>0, <2>1, <2>6, <2>7 DEF SubFits
  <1>8. CASE SubmitBreaks(j) \/ SubmitLost(j)
    <2>1. /\ sub[j] # Idle /\ sub' = [sub EXCEPT ![j] = Idle]
          /\ UNCHANGED <<quotaVars, events, outputVars, task, poll, dl, op, kicked, up, clicks>>
      BY <1>8 DEF SubmitBreaks, SubmitLost
    <2>2. /\ job'[j].remote = job[j].remote
          /\ job'[j].status = job[j].status
               \/ (job[j].status = "submitting" /\ job'[j].status = "queued")
      BY <1>0, <1>8 DEF SubmitBreaks, SubmitLost, PipelineTypeOK, JobRow
    <2>3. sub'[j] = Idle
      BY <1>0, <2>1 DEF PipelineTypeOK
    <2>4. RowFits(j)' /\ FilesFit(j)'
      BY <1>0, <2>1, <2>2 DEF RowFits, FilesFit, HasTask, Exists, Absent, quotaVars
    <2>5. JobMoves(j) /\ (JobHeld(j) \/ job[j].status # "deleted")
      BY <2>1, <2>2 DEF JobMoves, JobHeld
    <2> QED BY <1>5, <2>1, <2>2, <2>3, <2>4, <2>5 DEF JobFits, PaysRightly, Undone, quotaVars
  <1> QED BY <1>1, <1>2, <1>3, <1>6, <1>7, <1>8 DEF SubmitNext

\* A step that only ends threads.
LEMMA FitsAtRest ==
  ASSUME TypeInv, NEW j \in Jobs, JobFits(j), UNCHANGED quotaVars, job'[j] = job[j],
         UNCHANGED <<record, files, task, up>>,
         sub'[j] \in {sub[j], Idle}, op'[j] \in {op[j], Idle}, dl'[j] \in {dl[j], Idle},
         \A p \in Pollers : poll'[p][j] \in {poll[p][j], Idle}
  PROVE  JobFits(j)' /\ PaysRightly(j)
  <1>1. RowFits(j) /\ FilesFit(j) /\ ThreadsFit(j)
    BY DEF JobFits
  <1>2. RowFits(j)' /\ FilesFit(j)'
    BY <1>1 DEF RowFits, FilesFit, HasTask, Exists, quotaVars
  <1>3. JobMoves(j) /\ JobHeld(j)
    BY DEF JobMoves, JobHeld
  <1>4. ThreadsFit(j)'
    BY <1>1, <1>3, ThreadsStay DEF ThreadsFit
  <1> QED BY <1>2, <1>4 DEF JobFits, PaysRightly, Undone, quotaVars

\* No video has been booked while the task is not done, or its file is not there.
LEMMA NotBooked ==
  ASSUME NEW j \in Jobs, JobFits(j),
         task[j][job[j].remote] # "done" \/ job[j].remote \notin files[j]
  PROVE  record[j] = NoTask
  BY DEF JobFits, FilesFit

\* A job with a task fails, a download of it only without a booked video; what failed
\* upstream is paid back.
LEMMA FitsFailed ==
  ASSUME TypeInv, NEW j \in Jobs, JobFits(j), Exists(j), HasTask(j),
         record[j] = NoTask \/ job'[j].status = "failed",
         job'[j].remote = job[j].remote, job'[j].status \in {"failed", "download_failed"},
         job'[j].status = "failed" => reservation'[j].status = "refunded",
         reservation'[j].status \in {reservation[j].status, "refunded"},
         misreleased' = misreleased, UNCHANGED <<record, files, task, up>>,
         sub'[j] = sub[j], op'[j] = op[j], dl'[j] \in {dl[j], Idle},
         \A p \in Pollers : poll'[p][j] \in {poll[p][j], Idle}
  PROVE  JobFits(j)' /\ (record[j] = NoTask => PaysRightly(j))
  <1>1. RowFits(j) /\ FilesFit(j) /\ ThreadsFit(j)
    BY DEF JobFits
  <1>2. RowFits(j)'
    BY <1>1 DEF RowFits, HasTask, Exists, Absent
  <1>3. FilesFit(j)'
    BY <1>1 DEF FilesFit, Exists, Absent
  <1>4. JobMoves(j) /\ JobHeld(j)
    BY DEF JobMoves, JobHeld, Exists, Absent
  <1>5. ThreadsFit(j)'
    BY <1>1, <1>4, ThreadsStay DEF ThreadsFit
  <1> QED BY <1>2, <1>3, <1>5 DEF JobFits, PaysRightly, Undone

\* A job is completed with the video of its task on disk and in its record.
LEMMA FitsCompleted ==
  ASSUME TypeInv, NEW j \in Jobs, JobFits(j), Exists(j), HasTask(j), job[j].remote \in files[j],
         job'[j].remote = job[j].remote, job'[j].status = "completed",
         record'[j] = job[j].remote, UNCHANGED quotaVars, UNCHANGED <<files, task, up>>,
         sub'[j] = sub[j], op'[j] \in {op[j], Idle}, dl'[j] \in {dl[j], Idle},
         \A p \in Pollers : poll'[p][j] \in {poll[p][j], Idle}
  PROVE  JobFits(j)' /\ PaysRightly(j)
  <1>1. RowFits(j) /\ FilesFit(j) /\ ThreadsFit(j)
    BY DEF JobFits
  <1>2. RowFits(j)'
    BY <1>1 DEF RowFits, HasTask, Exists, Absent, quotaVars
  <1>3. FilesFit(j)'
    BY <1>1 DEF FilesFit, HasTask, Exists, Absent
  <1>4. JobMoves(j) /\ JobHeld(j)
    BY DEF JobMoves, JobHeld, Exists, Absent
  <1>5. ThreadsFit(j)'
    BY <1>1, <1>4, ThreadsStay DEF ThreadsFit
  <1> QED BY <1>2, <1>3, <1>5 DEF JobFits, PaysRightly, Undone, quotaVars

\* A job that is watched or downloaded has its task and was not deleted.
LEMMA Pollable ==
  ASSUME TypeInv, NEW j \in Jobs
  PROVE  job[j].status \in PollableStatuses \cup ResultStatuses => HasTask(j) /\ Exists(j)
  BY DEF TypeInv, TaskNamed, Unstarted, Exists, Absent, PollableStatuses, ResultStatuses,
         DownloadableStatuses

LEMMA PollJobFits ==
  ASSUME TypeInv, QuotaTypeOK, NEW p \in Pollers, NEW j \in Jobs, JobFits(j), PollNext(p, j)
  PROVE  JobFits(j)' /\ (PaysRightly(j) \/ (PollRefused(p, j) /\ misreleased' = misreleased))
  <1> DEFINE Goal == JobFits(j)' /\ PaysRightly(j)
             seen == poll[p][j].seen
  <1>0. /\ RowFits(j) /\ FilesFit(j) /\ ThreadsFit(j) /\ PipelineTypeOK /\ PollFits(p, j)
        /\ job[j] \in JobRow
    BY TypedAt DEF JobFits, ThreadsFit, TypeInv
  <1> USE DEF rowVars, outputVars, threadVars
  <1>1. CASE ProcessResumesDownload(p, j)
    <2>1. /\ HasTask(j) /\ Exists(j) /\ job' = [job EXCEPT ![j].status = "remote_completed"]
          /\ UNCHANGED <<quotaVars, outputVars, task, threadVars, up>>
      BY <1>1, Pollable DEF ProcessResumesDownload, MayProcess
    <2>2. job'[j].status = "remote_completed" /\ job'[j].remote = job[j].remote
      BY <1>0, <2>1 DEF PipelineTypeOK, JobRow
    <2>3. MovesOn(j)
      BY <2>1, <2>2 DEF MovesOn, Exists, Absent
    <2> QED BY <2>1, <2>3, FitsMovedOn
  <1>2. CASE PollStart(p, j)
    <2>1. /\ HasTask(j) /\ job[j].status \in PollableStatuses
          /\ UNCHANGED <<quotaVars, rowVars, outputVars, task, sub, dl, op, up>>
      BY <1>2, Pollable DEF PollStart, MayProcess
    <2>2. PICK held \in BOOLEAN :
            poll' = [poll EXCEPT ![p][j] = [pc |-> "asking", seen |-> job[j], held |-> held,
                                            was |-> task[j][job[j].remote]]]
      BY <1>2 DEF PollStart
    <2>3. /\ poll'[p][j].seen = job[j] /\ poll'[p][j].was = task[j][job[j].remote]
          /\ \A q \in Pollers \ {p} : poll'[q][j] = poll[q][j]
      BY <1>0, <2>2 DEF PipelineTypeOK
    <2>4. PollFits(p, j)'
      BY <2>1, <2>3 DEF PollFits, HasTask
    <2>5. RowFits(j)' /\ FilesFit(j)'
      BY <1>0, <2>1 DEF RowFits, FilesFit, HasTask, Exists, quotaVars
    <2>6. JobMoves(j) /\ JobHeld(j)
      BY <2>1 DEF JobMoves, JobHeld
    <2>7. ThreadsFit(j)'
      BY <1>0, <2>1, <2>3, <2>4, <2>6, ThreadsStay DEF ThreadsFit
    <2> QED BY <2>1, <2>5, <2>7 DEF JobFits, PaysRightly, Undone, quotaVars
  <1>3. ASSUME PollEnds(p, j)
        PROVE  /\ poll[p][j] # Idle /\ HasTask(j) /\ seen \in JobRow
               /\ seen.status \in PollableStatuses /\ seen.remote = job[j].remote
               /\ UNCHANGED <<record, files, task, sub, dl, op, up>>
               /\ \A q \in Pollers : poll'[q][j] \in {poll[q][j], Idle}
    <2>1. poll[p][j] # Idle
      BY <1>3 DEF PollEnds, Idle
    <2>2. \A q \in Pollers : poll'[q][j] \in {poll[q][j], Idle}
      BY <1>0, <1>3 DEF PollEnds, PipelineTypeOK
    <2> QED BY <1>0, <1>3, <2>1, <2>2, TypedAt DEF PollEnds, PollFits
  <1>4. CASE PollError(p, j) \/ PollVoid(p, j)
    <2>1. PollEnds(p, j) /\ UNCHANGED quotaVars /\ job' = job
      BY <1>4 DEF PollError, PollVoid
    <2> QED BY <1>3, <2>1, FitsAtRest
  <1>5. ASSUME PollEnds(p, j), NEW new \in JobRow, Write(j, seen, new), new.remote = seen.remote
        PROVE  /\ job'[j].remote = job[j].remote
               /\ job'[j].status = IF Exists(j) /\ new.status # seen.status THEN new.status
                                                                       ELSE job[j].status
    BY <1>0, <1>3, <1>5, RowWritten
  <1>6. ASSUME PollEnds(p, j), NEW s \in {"polling", "remote_completed"}, NEW b \in BOOLEAN,
               \/ Write(j, seen, [seen EXCEPT !.status = s])
               \/ Write(j, seen, [seen EXCEPT !.status = s, !.full = b]),
               UNCHANGED quotaVars
        PROVE  Goal
    <2> DEFINE left == [seen EXCEPT !.status = s]
               both == [seen EXCEPT !.status = s, !.full = b]
    <2>1. /\ left \in JobRow /\ left.remote = seen.remote /\ left.status = s
          /\ both \in JobRow /\ both.remote = seen.remote /\ both.status = s
      <3>1. s \in Statuses
        BY LateStatuses
      <3> QED BY <1>3, <1>6, <3>1 DEF JobRow
    <2>2. Write(j, seen, left) \/ Write(j, seen, both)
      BY <1>6
    <2> HIDE DEF left, both, seen
    <2>3. MovesOn(j)
      BY <1>3, <1>5, <1>6, <2>1, <2>2 DEF MovesOn, Exists, Absent
    <2> QED BY <1>3, <1>6, <2>3, FitsMovedOn
  <1>7. CASE PollProcessing(p, j)
    <2>1. PollEnds(p, j) /\ UNCHANGED quotaVars
      BY <1>7 DEF PollProcessing
    <2>2. PICK full \in BOOLEAN :
            Write(j, seen, [seen EXCEPT !.status = "polling", !.full = seen.full \/ full])
      BY <1>7 DEF PollProcessing
    <2>3. (seen.full \/ full) \in BOOLEAN
      OBVIOUS
    <2> QED BY <1>6, <2>1, <2>2, <2>3
  <1>8. CASE PollFallback(p, j) \/ PollCompleted(p, j)
    <2>1. PollEnds(p, j) /\ UNCHANGED quotaVars
      BY <1>8 DEF PollFallback, PollCompleted
    <2>2. \/ Write(j, seen, [seen EXCEPT !.status = "remote_completed"])
          \/ Write(j, seen, [seen EXCEPT !.status = "remote_completed", !.full = TRUE])
      BY <1>8 DEF PollFallback, PollCompleted
    <2> QED BY <1>6, <2>1, <2>2
  <1>9. CASE PollFailed(p, j)
    <2>1. /\ PollEnds(p, j) /\ Exists(j) /\ Refund(j) /\ "failed" \in Answers(p, j)
      BY <1>9 DEF PollFailed
    <2>2. PICK full \in BOOLEAN :
            Write(j, seen, [seen EXCEPT !.status = "failed", !.full = seen.full \/ full])
      BY <1>9 DEF PollFailed
    <2> DEFINE new == [seen EXCEPT !.status = "failed", !.full = seen.full \/ full]
    <2>3. new \in JobRow /\ new.remote = seen.remote /\ new.status = "failed"
      <3>1. (seen.full \/ full) \in BOOLEAN
        OBVIOUS
      <3> DEFINE b == seen.full \/ full
      <3> HIDE DEF b
      <3>2. [seen EXCEPT !.status = "failed", !.full = b] \in JobRow
            /\ [seen EXCEPT !.status = "failed", !.full = b].remote = seen.remote
            /\ [seen EXCEPT !.status = "failed", !.full = b].status = "failed"
        BY <1>3, <2>1, <3>1, LateStatuses DEF JobRow, b
      <3> QED BY <3>2 DEF b
    <2>4. Write(j, seen, new)
      BY <2>2
    <2> HIDE DEF new
    <2>5. job'[j].remote = job[j].remote /\ job'[j].status = "failed"
      BY <1>3, <1>5, <2>1, <2>3, <2>4 DEF PollableStatuses
    <2>6. record[j] = NoTask
      <3>1. task[j][job[j].remote] = "failed"
        BY <1>0, <1>3, <2>1 DEF Answers, PollFits
      <3> QED BY <3>1, NotBooked
    <2>7. reservation'[j].status = "refunded" /\ misreleased' = misreleased
      BY <1>0, <1>3, <2>1, UnitMoves DEF RowFits
    <2> QED BY <1>3, <2>1, <2>5, <2>6, <2>7, FitsFailed
  <1>10. CASE PollRefused(p, j)
    <2> DEFINE new == [seen EXCEPT !.status = "failed"]
    <2>1. PollEnds(p, j) /\ Exists(j) /\ Refund(j) /\ Write(j, seen, new)
      BY <1>10 DEF PollRefused
    <2>2. new \in JobRow /\ new.remote = seen.remote /\ new.status = "failed"
      BY <1>3, <2>1, LateStatuses DEF JobRow
    <2> HIDE DEF new
    <2>3. job'[j].remote = job[j].remote /\ job'[j].status = "failed"
      BY <1>3, <1>5, <2>1, <2>2 DEF PollableStatuses
    <2>4. reservation'[j].status = "refunded" /\ misreleased' = misreleased
      BY <1>0, <1>3, <2>1, UnitMoves DEF RowFits
    <2> QED BY <1>3, <1>10, <2>1, <2>3, <2>4, FitsFailed
  <1> QED BY <1>1, <1>2, <1>4, <1>7, <1>8, <1>9, <1>10 DEF PollNext

LEMMA DownloadFits ==
  ASSUME TypeInv, QuotaTypeOK, NEW j \in Jobs, JobFits(j), DownloadNext(j)
  PROVE  JobFits(j)' /\ PaysRightly(j)
  <1> DEFINE Goal == JobFits(j)' /\ PaysRightly(j)
  <1>0. /\ RowFits(j) /\ FilesFit(j) /\ ThreadsFit(j) /\ DlFits(j) /\ PipelineTypeOK
        /\ job[j] \in JobRow
    BY TypedAt DEF JobFits, ThreadsFit, TypeInv
  <1>a. job[j].status \in DownloadableStatuses \cup ResultStatuses => HasTask(j) /\ Exists(j)
    BY Pollable DEF ResultStatuses
  <1> USE DEF rowVars, outputVars, threadVars
  <1>1. ASSUME NEW s \in {"polling", "download_waiting"}, Claim(j, s) PROVE Goal
    <2>1. /\ HasTask(j) /\ Exists(j) /\ job' = [job EXCEPT ![j].status = s]
          /\ UNCHANGED <<quotaVars, outputVars, task, threadVars, up>>
      BY <1>a, <1>1 DEF Claim, Claimable
    <2>2. job'[j].status = s /\ job'[j].remote = job[j].remote
      BY <1>0, <2>1 DEF PipelineTypeOK, JobRow
    <2>3. MovesOn(j)
      BY <2>1, <2>2 DEF MovesOn, Exists, Absent
    <2> QED BY <2>1, <2>3, FitsMovedOn
  <1>2. CASE ClaimRestoresPolling(j) \/ ClaimWaits(j)
    BY <1>1, <1>2 DEF ClaimRestoresPolling, ClaimWaits
  <1>3. CASE ClaimExhausted(j)
    <2>1. /\ HasTask(j) /\ Exists(j) /\ job' = [job EXCEPT ![j].status = "download_failed"]
          /\ ~OnDisk(j) /\ UNCHANGED <<quotaVars, outputVars, task, threadVars, up>>
      BY <1>a, <1>3 DEF ClaimExhausted, Claim, Claimable
    <2>2. job'[j].status = "download_failed" /\ job'[j].remote = job[j].remote
      BY <1>0, <2>1 DEF PipelineTypeOK, JobRow
    <2>3. record[j] = NoTask
      BY <2>1, NotBooked DEF OnDisk
    <2> QED BY <2>1, <2>2, <2>3, FitsFailed DEF quotaVars
  <1>4. ASSUME Complete(j), HasTask(j), Exists(j), job[j].remote \in files[j],
               UNCHANGED <<quotaVars, files, task, sub, poll, op, up>>, dl'[j] \in {dl[j], Idle}
        PROVE  Goal
    <2>1. /\ job'[j].status = "completed" /\ job'[j].remote = job[j].remote
          /\ record'[j] = job[j].remote
      BY <1>0, <1>4 DEF Complete, PipelineTypeOK, JobRow
    <2> QED BY <1>4, <2>1, FitsCompleted
  <1>5. CASE ClaimFindsFile(j)
    BY <1>a, <1>4, <1>5 DEF ClaimFindsFile, Claimable, OnDisk
  <1>6. CASE ClaimStarts(j)
    <2>1. /\ HasTask(j) /\ Exists(j) /\ ~OnDisk(j)
          /\ job' = [job EXCEPT ![j].status = "downloading", ![j].downloads = @ + 1]
          /\ dl' = [dl EXCEPT ![j] = [pc |-> "transferring", task |-> job[j].remote]]
          /\ UNCHANGED <<quotaVars, outputVars, task, sub, poll, op, up>>
      BY <1>a, <1>6 DEF ClaimStarts, Claimable
    <2>2. job'[j].status = "downloading" /\ job'[j].remote = job[j].remote
      BY <1>0, <2>1 DEF PipelineTypeOK, JobRow
    <2>3. dl'[j] = [pc |-> "transferring", task |-> job[j].remote]
      BY <1>0, <2>1 DEF PipelineTypeOK
    <2>4. MovesOn(j)
      BY <2>1, <2>2 DEF MovesOn, Exists, Absent
    <2>5. RowFits(j)' /\ FilesFit(j)'
      BY <1>0, <2>1, <2>4, RowMovesOn DEF quotaVars
    <2>6. JobMoves(j) /\ JobHeld(j)
      BY <2>1, <2>2 DEF JobMoves, JobHeld, Exists, Absent
    <2>7. DlFits(j)'
      BY <2>1, <2>2, <2>3 DEF DlFits, HasTask, OnDisk
    <2>8. ThreadsFit(j)'
      BY <1>0, <2>1, <2>6, <2>7, ThreadsStay DEF ThreadsFit
    <2> QED BY <2>1, <2>2, <2>5, <2>8 DEF JobFits, PaysRightly, Undone, quotaVars
  <1>7. CASE DownloadSaved(j)
    <2>1. /\ dl[j] # Idle /\ task[j][dl[j].task] = "done" /\ dl' = [dl EXCEPT ![j].pc = "saved"]
          /\ files' = [files EXCEPT ![j] = @ \cup {dl[j].task}]
          /\ UNCHANGED <<quotaVars, rowVars, record, task, sub, poll, op, up>>
      BY <1>7 DEF DownloadSaved, Idle
    <2>2. dl'[j].pc = "saved" /\ dl'[j].task = dl[j].task
      BY <1>0, <2>1 DEF PipelineTypeOK, DownloadThread
    <2>3. files'[j] = files[j] \cup {dl[j].task}
      BY <1>0, <2>1 DEF PipelineTypeOK
    <2>4. RowFits(j)'
      BY <1>0, <2>1 DEF RowFits, HasTask, Exists, quotaVars
    <2>5. FilesFit(j)'
      BY <1>0, <2>1, <2>3 DEF FilesFit, Exists
    <2>6. JobMoves(j) /\ JobHeld(j)
      BY <2>1 DEF JobMoves, JobHeld
    <2>7. DlFits(j)'
      BY <1>0, <2>1, <2>2, <2>3 DEF DlFits, HasTask
    <2>8. ThreadsFit(j)'
      BY <1>0, <2>1, <2>6, <2>7, ThreadsStay DEF ThreadsFit
    <2> QED BY <2>1, <2>4, <2>5, <2>8 DEF JobFits, PaysRightly, Undone, quotaVars
  <1>8. ASSUME NEW pc, Result(j, pc)
        PROVE  /\ dl[j].pc = pc /\ dl'[j] = Idle
               /\ UNCHANGED <<files, task, sub, poll, op, up>>
    BY <1>0, <1>8 DEF Result, PipelineTypeOK
  <1>9. CASE DownloadBooked(j)
    <2>1. /\ Complete(j) /\ HasTask(j) /\ Exists(j) /\ job[j].remote = dl[j].task
          /\ dl[j].pc = "saved" /\ dl'[j] = Idle
          /\ UNCHANGED <<quotaVars, files, task, sub, poll, op, up>>
      BY <1>a, <1>8, <1>9 DEF DownloadBooked, ResultApplies
    <2>2. job[j].remote \in files[j]
      BY <1>0, <2>1 DEF DlFits, Idle, Exists, Absent
    <2> QED BY <1>4, <2>1, <2>2
  <1>10. CASE DownloadDropped(j)
    BY <1>8, <1>10, FitsAtRest DEF DownloadDropped
  <1>11. CASE DownloadBreaks(j)
    BY <1>0, <1>11, FitsAtRest DEF DownloadBreaks, PipelineTypeOK
  <1>12. ASSUME NEW s, NEW n, Failure(j, s, n)
         PROVE  /\ HasTask(j) /\ Exists(j) /\ dl'[j] = Idle /\ dl[j].pc = "transferring"
                /\ job[j].remote = dl[j].task
                /\ job'[j].status = s /\ job'[j].remote = job[j].remote
                /\ UNCHANGED <<record, files, task, sub, poll, op, up>>
    <2>1. job'[j].status = s /\ job'[j].remote = job[j].remote
      BY <1>0, <1>12 DEF Failure, PipelineTypeOK, JobRow
    <2> QED BY <1>a, <1>8, <1>12, <2>1 DEF Failure, ResultApplies
  <1>13. ASSUME NEW s \in {"polling", "download_waiting"}, NEW n, Failure(j, s, n),
                UNCHANGED quotaVars
         PROVE  Goal
    <2>1. MovesOn(j)
      BY <1>12, <1>13 DEF MovesOn, Exists, Absent
    <2> QED BY <1>12, <1>13, <2>1, FitsMovedOn
  <1>14. CASE DownloadPartial(j) \/ DownloadNotReady(j)
    BY <1>13, <1>14 DEF DownloadPartial, DownloadNotReady
  <1>15. ASSUME NEW s \in {"failed", "download_failed"}, NEW n, Failure(j, s, n), Refund(j)
         PROVE  Goal
    <2>1. record[j] = NoTask
      <3>1. job[j].remote \notin files[j]
        BY <1>0, <1>12, <1>15 DEF DlFits, Idle
      <3> QED BY <3>1, NotBooked
    <2>2. reservation'[j].status = "refunded" /\ misreleased' = misreleased
      BY <1>0, <1>12, <1>15, UnitMoves DEF RowFits
    <2> QED BY <1>12, <1>15, <2>1, <2>2, FitsFailed
  <1>16. CASE DownloadRefused(j)
    BY <1>15, <1>16 DEF DownloadRefused
  <1>17. CASE DownloadError(j)
    BY <1>13, <1>15, <1>17 DEF DownloadError
  <1> QED BY <1>2, <1>3, <1>5, <1>6, <1>7, <1>9, <1>10, <1>11, <1>14, <1>16, <1>17
          DEF DownloadNext

LEMMA ScanJobFits ==
  ASSUME ~LateAnswers, TypeInv, NEW j \in Jobs, JobFits(j), ScanNext(j)
  PROVE  JobFits(j)' /\ PaysRightly(j)
  <1>0. /\ RowFits(j) /\ FilesFit(j) /\ ThreadsFit(j) /\ ScanFits(j) /\ PipelineTypeOK
        /\ job[j] \in JobRow
    BY TypedAt DEF JobFits, ThreadsFit, TypeInv
  <1>a. UNCHANGED quotaVars
    BY ScanRefines
  <1> USE DEF rowVars, outputVars
  <1>1. CASE ScanRead(j)
    <2>1. /\ up /\ op' = [op EXCEPT ![j] = [pc |-> "scan", seen |-> job[j]]]
          /\ \/ StaleSubmitting(job[j]) /\ sub[j] = Idle
             \/ job[j].status \in ResultStatuses
          /\ UNCHANGED <<rowVars, outputVars, task, sub, poll, dl, kicked, up>>
      BY <1>1 DEF ScanRead
    <2>2. op'[j] = [pc |-> "scan", seen |-> job[j]]
      BY <1>0, <2>1 DEF PipelineTypeOK
    <2>3. RowFits(j)' /\ FilesFit(j)'
      BY <1>0, <1>a, <2>1 DEF RowFits, FilesFit, HasTask, Exists, quotaVars
    <2>4. JobMoves(j) /\ JobHeld(j)
      BY <2>1 DEF JobMoves, JobHeld
    <2>5. ScanFits(j)'
      BY <2>1, <2>2, Pollable DEF ScanFits, StaleSubmitting, HasTask
    <2>6. ClickFits(j)'
      BY <2>2 DEF ClickFits
    <2>7. ThreadsFit(j)'
      BY <1>0, <2>1, <2>4, <2>5, <2>6, ThreadsStay DEF ThreadsFit
    <2> QED BY <1>a, <2>1, <2>3, <2>7 DEF JobFits, PaysRightly, Undone, quotaVars
  <1>2. ASSUME ScanEnds(j)
        PROVE  /\ op[j].pc = "scan" /\ op[j].seen \in JobRow /\ op'[j] = Idle
               /\ UNCHANGED <<files, task, sub, poll, dl, up>>
    BY <1>0, <1>2, TypedAt DEF ScanEnds, PipelineTypeOK, Idle
  <1>3. CASE ScanSkips(j)
    BY <1>a, <1>2, <1>3, FitsAtRest DEF ScanSkips
  <1>4. CASE RecoverSubmitting(j)
    <2> DEFINE new == [op[j].seen EXCEPT !.status = "queued"]
    <2>1. /\ ScanEnds(j) /\ Write(j, op[j].seen, new) /\ UNCHANGED record
          /\ StaleSubmitting(op[j].seen)
      BY <1>4 DEF RecoverSubmitting
    <2>2. new \in JobRow /\ new.remote = op[j].seen.remote /\ new.status = "queued"
      BY <1>2, <2>1, LateStatuses DEF JobRow
    <2> HIDE DEF new
    <2>3. /\ job'[j].remote = job[j].remote
          /\ ~Exists(j) => job'[j] = job[j]
          /\ job'[j].status = IF Exists(j) THEN "queued" ELSE job[j].status
      BY <1>0, <1>2, <2>1, <2>2, RowWritten DEF StaleSubmitting
    <2>4. CASE job[j].status = "deleted"
      <3>1. job'[j] = job[j]
        BY <2>3, <2>4 DEF Exists, Absent
      <3> QED BY <1>a, <1>2, <2>1, <3>1, FitsAtRest
    <2>5. CASE sub[j] = Idle /\ job[j] = op[j].seen
      <3>1. job[j].status = "submitting" /\ ~HasTask(j) /\ Exists(j)
        BY <2>1, <2>5 DEF StaleSubmitting, HasTask, Exists, Absent
      <3>2. job'[j].status = "queued" /\ ~HasTask(j)'
        BY <2>3, <3>1 DEF HasTask
      <3>3. RowFits(j)' /\ FilesFit(j)'
        BY <1>0, <1>a, <1>2, <2>1, <3>1, <3>2 DEF RowFits, FilesFit, Exists, Absent, HasTask,
                                                  quotaVars
      <3>4. JobMoves(j)
        BY <1>2, <2>1, <3>1, <3>2 DEF JobMoves
      <3>5. ThreadsFit(j)'
        BY <1>0, <1>2, <2>1, <2>5, <3>4, ThreadsStay DEF ThreadsFit
      <3> QED BY <1>a, <2>1, <3>2, <3>3, <3>5 DEF JobFits, PaysRightly, Undone, quotaVars
    <2>6. op[j].seen.status \notin ResultStatuses
      BY <2>1 DEF StaleSubmitting, ResultStatuses, DownloadableStatuses
    <2> QED BY <1>0, <1>2, <2>1, <2>4, <2>5, <2>6 DEF ScanFits
  <1>5. ASSUME ScanEnds(j), op[j].seen.status \in ResultStatuses
        PROVE  HasTask(j) /\ op[j].seen.remote = job[j].remote
    BY <1>0, <1>2, <1>5 DEF ScanFits, StaleSubmitting, ResultStatuses, DownloadableStatuses
  <1>6. CASE CompleteExisting(j)
    <2> DEFINE new == [op[j].seen EXCEPT !.status = "completed", !.full = TRUE]
    <2>1. /\ ScanEnds(j) /\ Exists(j) /\ Write(j, op[j].seen, new)
          /\ record' = [record EXCEPT ![j] = op[j].seen.remote]
          /\ op[j].seen.status \in ResultStatuses /\ op[j].seen.remote \in files[j]
      BY <1>6 DEF CompleteExisting
    <2>2. new \in JobRow /\ new.remote = op[j].seen.remote /\ new.status = "completed"
      BY <1>2, <2>1, LateStatuses DEF JobRow
    <2> HIDE DEF new
    <2>3. job'[j].remote = job[j].remote /\ job'[j].status = "completed"
      BY <1>0, <1>2, <2>1, <2>2, RowWritten DEF ResultStatuses, DownloadableStatuses
    <2>4. record'[j] = job[j].remote /\ HasTask(j) /\ job[j].remote \in files[j]
      BY <1>0, <1>5, <2>1 DEF PipelineTypeOK
    <2> QED BY <1>a, <1>2, <2>1, <2>3, <2>4, FitsCompleted
  <1>7. CASE RecoverDownloading(j)
    <2> DEFINE n == AtLeastZero(op[j].seen.downloads - 1)
               new == [op[j].seen EXCEPT !.status = "remote_completed", !.downloads = n]
    <2>1. /\ ScanEnds(j) /\ Exists(j) /\ Write(j, op[j].seen, new) /\ UNCHANGED record
          /\ op[j].seen.status = "downloading"
      BY <1>7 DEF RecoverDownloading
    <2>2. n \in 0..MaxDownloads
      BY <1>2, <2>1, PipelineAssumption DEF JobRow, AtLeastZero
    <2>3. new \in JobRow /\ new.remote = op[j].seen.remote /\ new.status = "remote_completed"
      <3> HIDE DEF n
      <3> QED BY <1>2, <2>1, <2>2, LateStatuses DEF JobRow
    <2> HIDE DEF new
    <2>4. job'[j].remote = job[j].remote /\ job'[j].status = "remote_completed"
      BY <1>0, <1>2, <2>1, <2>3, RowWritten
    <2>5. HasTask(j)
      BY <1>5, <2>1 DEF ResultStatuses
    <2>6. MovesOn(j)
      BY <2>1, <2>4, <2>5 DEF MovesOn, Exists, Absent
    <2> QED BY <1>a, <1>2, <2>1, <2>6, FitsMovedOn
  <1> QED BY <1>1, <1>3, <1>4, <1>6, <1>7 DEF ScanNext

LEMMA ClickJobFits ==
  ASSUME TypeInv, QuotaTypeOK, NEW j \in Jobs, JobFits(j), ClickNext(j)
  PROVE  JobFits(j)' /\ (PaysRightly(j) \/ BulkDeleteWrite(j))
         /\ ~Undone(j)
  <1> DEFINE Goal == /\ JobFits(j)' /\ (PaysRightly(j) \/ BulkDeleteWrite(j))
                     /\ ~Undone(j)
  <1>0. /\ RowFits(j) /\ FilesFit(j) /\ ThreadsFit(j) /\ ClickFits(j) /\ PipelineTypeOK
        /\ job[j] \in JobRow
    BY TypedAt DEF JobFits, ThreadsFit, TypeInv
  <1>a. ASSUME UNCHANGED quotaVars,
               job'[j].status # "failed" \/ job'[j].status = job[j].status
        PROVE  ~Undone(j)
    BY <1>a DEF quotaVars, Undone
  <1> USE DEF rowVars, outputVars, threadVars
  <1>1. ASSUME NEW pc \in {"pause", "redownload", "resume", "delete"}, NEW new \in JobRow,
               OpRead(j, pc, new), Exists(j),
               pc # "delete" => /\ HasTask(j) /\ new.remote = job[j].remote
                                /\ new.status \in {"interrupted", "polling", "remote_completed"}
        PROVE  Goal
    <2>1. /\ op'[j] = [pc |-> pc, seen |-> job[j], new |-> new]
          /\ UNCHANGED <<quotaVars, rowVars, outputVars, task, sub, poll, dl, kicked, up, faults>>
      BY <1>1, OpReads
    <2>2. op'[j].pc = pc /\ op'[j].seen = job[j] /\ op'[j].new = new
      BY <2>1
    <2>3. RowFits(j)' /\ FilesFit(j)'
      BY <1>0, <2>1 DEF RowFits, FilesFit, HasTask, Exists, quotaVars
    <2>4. JobMoves(j) /\ JobHeld(j)
      BY <2>1 DEF JobMoves, JobHeld
    <2>5. ClickFits(j)' /\ ScanFits(j)'
      BY <1>1, <2>1, <2>2 DEF ClickFits, ScanFits, HasTask, Exists, Absent
    <2>6. ThreadsFit(j)'
      BY <1>0, <2>1, <2>4, <2>5, ThreadsStay DEF ThreadsFit
    <2> QED BY <1>a, <2>1, <2>3, <2>6 DEF JobFits, PaysRightly, Undone, quotaVars
  <1>2. CASE PauseRead(j) \/ RedownloadRead(j) \/ AdminResumeRead(j) \/ BulkDeleteRead(j)
    <2>0. Exists(j)
      BY <1>2 DEF PauseRead, RedownloadRead, AdminResumeRead, BulkDeleteRead, OpRead, Click
    <2>1. CASE PauseRead(j)
      BY <1>1, <2>0, <2>1, ResumedRows, ClicksNeedTask DEF PauseRead
    <2>2. CASE RedownloadRead(j)
      BY <1>1, <2>0, <2>2, ResumedRows, ClicksNeedTask DEF RedownloadRead
    <2>3. CASE AdminResumeRead(j)
      BY <1>1, <2>0, <2>3, ResumedRows, ClicksNeedTask DEF AdminResumeRead
    <2>4. CASE BulkDeleteRead(j)
      BY <1>0, <1>1, <2>0, <2>4 DEF BulkDeleteRead
    <2> QED BY <1>2, <2>1, <2>2, <2>3, <2>4
  <1>3. ASSUME op' = [op EXCEPT ![j] = Idle] PROVE op'[j] = Idle
    BY <1>0, <1>3 DEF PipelineTypeOK
  <1>4. CASE OpWrite(j)
    <2>1. /\ op[j].pc \in {"pause", "redownload", "resume"} /\ op'[j] = Idle /\ Exists(j)
          /\ Write(j, op[j].seen, op[j].new)
          /\ UNCHANGED <<quotaVars, outputVars, task, sub, poll, dl, up>>
      BY <1>3, <1>4 DEF OpWrite
    <2>2. op[j].seen \in JobRow /\ op[j].new \in JobRow
      BY <1>0, <2>1, TypedAt DEF Idle
    <2>3. MovesOn(j)
      <3>1. /\ HasTask(j) /\ op[j].new.remote = op[j].seen.remote
            /\ op[j].new.status \in {"interrupted", "polling", "remote_completed"}
        BY <1>0, <2>1 DEF ClickFits
      <3> QED BY <1>0, <2>1, <2>2, <3>1, RowWritten DEF MovesOn, Exists, Absent
    <2> QED BY <1>a, <2>1, <2>3, FitsMovedOn DEF MovesOn
  <1>5. CASE OpVoid(j) \/ KickEnds(j)
    <2>1. /\ UNCHANGED <<quotaVars, rowVars, outputVars, task, sub, poll, dl, up>>
          /\ op'[j] \in {op[j], Idle}
      BY <1>3, <1>5 DEF OpVoid, KickEnds
    <2> QED BY <1>a, <2>1, FitsAtRest
  <1>6. ASSUME NEW row, Delete(j, row), job[j].status # "none", op'[j] \in {op[j], Idle},
               UNCHANGED <<task, sub, poll, dl, up>>
        PROVE  /\ JobFits(j)' /\ ~Undone(j)
               /\ reservation[j].status = "reserved" \/ ~Pending(row) => UNCHANGED misreleased
    <2>1. /\ reservation'[j].status = "deleted"
          /\ reservation[j].status = "reserved" \/ ~Pending(row) => UNCHANGED misreleased
      BY <1>6, UnitMoves DEF Delete
    <2>2. /\ job'[j].status = "deleted" /\ job'[j].remote = job[j].remote
          /\ record'[j] = NoTask /\ files'[j] = files[j] \ {record[j]}
      BY <1>0, <1>6 DEF Delete, PipelineTypeOK, JobRow
    <2>3. RowFits(j)' /\ FilesFit(j)'
      BY <1>0, <1>6, <2>1, <2>2 DEF RowFits, FilesFit, HasTask, Exists, Absent
    <2>4. JobMoves(j) /\ JobHeld(j)
      BY <1>6, <2>2 DEF JobMoves, JobHeld
    <2>5. files'[j] \subseteq files[j]
      BY <2>2
    <2>6. ThreadsFit(j)'
      BY <1>0, <1>6, <2>2, <2>4, <2>5, ThreadsStay DEF ThreadsFit
    <2> QED BY <2>1, <2>2, <2>3, <2>6 DEF JobFits, Undone
  <1>7. CASE BulkDeleteWrite(j)
    <2>1. /\ Delete(j, op[j].seen) /\ op[j].pc = "delete" /\ op'[j] = Idle
          /\ UNCHANGED <<task, sub, poll, dl, up>>
      BY <1>3, <1>7 DEF BulkDeleteWrite
    <2>2. job[j].status # "none"
      BY <1>0, <2>1 DEF ClickFits
    <2> QED BY <1>6, <1>7, <2>1, <2>2
  <1>8. CASE DeleteOne(j)
    <2>1. Delete(j, job[j]) /\ Exists(j) /\ UNCHANGED <<task, sub, poll, dl, op, up>>
      BY <1>8 DEF DeleteOne, Click
    <2>2. reservation[j].status = "reserved" \/ ~Pending(job[j])
      BY <1>0, <2>1 DEF RowFits, Pending, HasTask
    <2>3. job[j].status # "none"
      BY <2>1 DEF Exists, Absent
    <2> QED BY <1>6, <2>1, <2>2, <2>3 DEF PaysRightly, Undone
  <1>9. ASSUME NEW new \in JobRow, NEW kick, LockedWrite(j, new, kick), new.remote = job[j].remote,
               HasTask(j), new.status \in {"polling", "remote_completed"}
        PROVE  Goal
    <2>1. /\ job'[j] = new /\ Exists(j)
          /\ UNCHANGED <<quotaVars, outputVars, task, threadVars, up>>
      BY <1>0, <1>9 DEF LockedWrite, Click, PipelineTypeOK
    <2>2. MovesOn(j)
      BY <1>9, <2>1 DEF MovesOn, Exists, Absent
    <2> QED BY <1>a, <2>1, <2>2, FitsMovedOn DEF MovesOn
  <1>10. CASE UserResume(j)
    BY <1>9, <1>10, ResumedRows, ClicksNeedTask DEF UserResume
  <1>11. CASE AdminRedownload(j)
    <2> DEFINE new == [job[j] EXCEPT !.status = "remote_completed", !.downloads = 0, !.full = TRUE]
    <2>1. new \in JobRow /\ new.remote = job[j].remote /\ new.status = "remote_completed"
      BY <1>0, ResumedRows DEF JobRow
    <2>2. LockedWrite(j, new, TRUE) /\ HasTask(j)
      BY <1>11, ClicksNeedTask DEF AdminRedownload
    <2> HIDE DEF new
    <2> QED BY <1>9, <2>1, <2>2
  <1>12. CASE BatchRetryDownload(j)
    <2> DEFINE new == [job[j] EXCEPT !.status = "remote_completed", !.downloads = 0]
    <2>1. new \in JobRow /\ new.remote = job[j].remote /\ new.status = "remote_completed"
      BY <1>0, ResumedRows DEF JobRow
    <2>2. LockedWrite(j, new, FALSE) /\ HasTask(j)
      BY <1>12 DEF BatchRetryDownload, HasTask
    <2> HIDE DEF new
    <2> QED BY <1>9, <2>1, <2>2
  <1> QED BY <1>2, <1>4, <1>5, <1>7, <1>8, <1>10, <1>11, <1>12 DEF ClickNext

LEMMA UpstreamFits ==
  ASSUME TypeInv, NEW j \in Jobs, JobFits(j), UpstreamNext(j)
  PROVE  JobFits(j)' /\ PaysRightly(j)
  <1>0. RowFits(j) /\ FilesFit(j) /\ ThreadsFit(j) /\ PipelineTypeOK
    BY DEF JobFits, TypeInv
  <1>1. PICK k \in Tasks, outcome \in {"done", "failed"} : UpstreamFinishes(j, k, outcome)
    BY DEF UpstreamNext
  <1>2. /\ task[j][k] = "running" /\ task' = [task EXCEPT ![j][k] = outcome]
        /\ UNCHANGED <<quotaVars, rowVars, outputVars, threadVars, up>>
    BY <1>1 DEF UpstreamFinishes
  <1> USE DEF rowVars, outputVars, threadVars
  <1>3. \A i \in Tasks : task[j][i] \in {"done", "failed"} => task'[j][i] = task[j][i]
    BY <1>0, <1>2 DEF PipelineTypeOK
  <1>4. RowFits(j)'
    BY <1>0, <1>2 DEF RowFits, HasTask, Exists, quotaVars
  <1>5. FilesFit(j)'
    <2>1. files[j] \subseteq Tasks
      BY <1>0 DEF PipelineTypeOK
    <2> QED BY <1>0, <1>2, <1>3, <2>1 DEF FilesFit, Exists
  <1>6. JobMoves(j) /\ JobHeld(j)
    BY <1>2, <1>3 DEF JobMoves, JobHeld
  <1>7. ThreadsFit(j)'
    BY <1>0, <1>2, <1>6, ThreadsStay DEF ThreadsFit
  <1> QED BY <1>2, <1>4, <1>5, <1>7 DEF JobFits, PaysRightly, Undone, quotaVars

\* A crash leaves no thread of the worker; one that runs in the web process goes on.
LEMMA CrashFits ==
  ASSUME TypeInv, NEW j \in Jobs, JobFits(j), WorkerCrash
  PROVE  JobFits(j)'
  <1>0. RowFits(j) /\ FilesFit(j) /\ ThreadsFit(j) /\ PipelineTypeOK
    BY DEF JobFits, TypeInv
  <1> USE DEF rowVars, outputVars
  <1>1. /\ UNCHANGED <<quotaVars, rowVars, outputVars, task>>
        /\ sub'[j] = Idle /\ dl'[j] = Idle
        /\ op'[j] \in {op[j], Idle} /\ op'[j].pc # "scan"
        /\ \A p \in Pollers : poll'[p][j] \in {poll[p][j], Idle}
    <2>1. /\ UNCHANGED <<quotaVars, rowVars, outputVars, task>>
          /\ sub' = [i \in Jobs |-> Idle] /\ dl' = [i \in Jobs |-> Idle]
          /\ poll' = [poll EXCEPT !["worker"] = [i \in Jobs |-> Idle]]
          /\ op' = [i \in Jobs |-> IF op[i].pc = "scan" THEN Idle ELSE op[i]]
      BY DEF WorkerCrash
    <2>2. op'[j] \in {op[j], Idle} /\ op'[j].pc # "scan"
      BY <2>1 DEF Idle
    <2>3. \A p \in Pollers : poll'[p][j] \in {poll[p][j], Idle}
      BY <1>0, <2>1 DEF PipelineTypeOK
    <2> QED BY <2>1, <2>2, <2>3
  <1>2. RowFits(j)' /\ FilesFit(j)'
    BY <1>0, <1>1 DEF RowFits, FilesFit, HasTask, Exists, quotaVars
  <1>3. SubFits(j)' /\ DlFits(j)' /\ ScanFits(j)'
    BY <1>1 DEF SubFits, DlFits, ScanFits
  <1>4. ClickFits(j)'
    BY <1>0, <1>1 DEF ThreadsFit, ClickFits, HasTask, Idle
  <1>5. ASSUME NEW p \in Pollers PROVE PollFits(p, j)'
    <2>1. PollFits(p, j) /\ poll'[p][j] \in {poll[p][j], Idle}
      BY <1>0, <1>1 DEF ThreadsFit
    <2> QED BY <1>1, <2>1 DEF PollFits, HasTask
  <1> QED BY <1>2, <1>3, <1>4, <1>5 DEF JobFits, ThreadsFit

\* What a restart makes of the row fits the unit the job had.
LEMMA StartFits ==
  ASSUME TypeInv, NEW j \in Jobs, JobFits(j), WorkerStart
  PROVE  JobFits(j)'
  <1>0. RowFits(j) /\ FilesFit(j) /\ ThreadsFit(j) /\ PipelineTypeOK /\ TaskNamed(j)
        /\ job[j] \in JobRow
    BY TypedAt DEF JobFits, TypeInv
  <1> USE DEF rowVars, outputVars, threadVars
  <1>1. /\ ~up /\ job'[j] = Recovered(job[j])
        /\ UNCHANGED <<quotaVars, outputVars, task, threadVars>>
    BY DEF WorkerStart
  <1>2. /\ job'[j].remote = job[j].remote
        /\ \/ job'[j].status = job[j].status
           \/ job[j].status = "submitting" /\ ~HasTask(j) /\ job'[j].status = "queued"
           \/ job[j].status = "downloading" /\ HasTask(j) /\ job'[j].status = "remote_completed"
    <2>1. job[j].status = "submitting" => ~HasTask(j)
      BY <1>0 DEF RowFits
    <2>2. job[j].status = "downloading" => HasTask(j)
      BY <1>0 DEF TaskNamed, Unstarted, Absent
    <2> QED BY <1>0, <1>1, <2>1, <2>2, RecoveredRow DEF HasTask
  <1>3. RowFits(j)' /\ FilesFit(j)'
    BY <1>0, <1>1, <1>2 DEF RowFits, FilesFit, HasTask, Exists, Absent, quotaVars
  <1>4. SubFits(j)' /\ ScanFits(j)'
    BY <1>0, <1>1 DEF ThreadsFit, SubFits, ScanFits
  <1>5. ClickFits(j)' /\ DlFits(j)'
    BY <1>0, <1>1, <1>2 DEF ThreadsFit, ClickFits, DlFits, HasTask
  <1>6. ASSUME NEW p \in Pollers PROVE PollFits(p, j)'
    BY <1>0, <1>1, <1>2 DEF ThreadsFit, PollFits, HasTask
  <1> QED BY <1>3, <1>4, <1>5, <1>6 DEF JobFits, ThreadsFit

\* A job a step has nothing to do with.
LEMMA FitsSame ==
  ASSUME NEW i \in Jobs, JobFits(i), Same(i), up' = up
  PROVE  JobFits(i)'
  <1>1. RowFits(i)' /\ FilesFit(i)'
    BY DEF JobFits, Same, RowFits, FilesFit, HasTask, Exists
  <1>2. SubFits(i)' /\ ScanFits(i)' /\ ClickFits(i)' /\ DlFits(i)'
    BY DEF JobFits, ThreadsFit, Same, SubFits, ScanFits, ClickFits, DlFits, HasTask
  <1>3. \A p \in Pollers : PollFits(p, i)'
    BY DEF JobFits, ThreadsFit, Same, PollFits, HasTask
  <1> QED BY <1>1, <1>2, <1>3 DEF JobFits, ThreadsFit

LEMMA FitsInit == PipelineInit => \A j \in Jobs : JobFits(j)
  <1> SUFFICES ASSUME PipelineInit, NEW j \in Jobs PROVE JobFits(j) OBVIOUS
  <1>1. /\ job[j].status = "none" /\ job[j].remote = NoTask /\ reservation[j].status = "none"
        /\ record[j] = NoTask /\ files[j] = {}
    BY DEF PipelineInit, QuotaInit, NewRow
  <1>2. sub[j] = Idle /\ dl[j] = Idle /\ op[j] = Idle /\ \A p \in Pollers : poll[p][j] = Idle
    BY DEF PipelineInit
  <1>3. RowFits(j) /\ FilesFit(j)
    BY <1>1 DEF RowFits, FilesFit, HasTask, Exists, Absent
  <1>4. ThreadsFit(j)
    BY <1>2 DEF ThreadsFit, SubFits, ScanFits, ClickFits, DlFits, PollFits, Idle
  <1> QED BY <1>3, <1>4 DEF JobFits

\* Only a crash and a restart change whether the worker runs.
LEMMA UpKept ==
  ASSUME NEW j \in Jobs,
         \/ SubmitNext(j) \/ DownloadNext(j) \/ ScanNext(j) \/ ClickNext(j) \/ UpstreamNext(j)
         \/ \E p \in Pollers : PollNext(p, j)
  PROVE  up' = up
  <1>1. SubmitNext(j) => up' = up
    BY DEF SubmitNext, CreateJob, SubmitStart, SubmitRejected, PostAccepted, SubmitFails,
           SubmitCommit, SubmitBreaks, SubmitLost
  <1>2. DownloadNext(j) => up' = up
    BY DEF DownloadNext, ClaimFindsFile, ClaimRestoresPolling, ClaimExhausted, ClaimWaits, Claim,
           ClaimStarts, DownloadSaved, DownloadBooked, DownloadDropped, DownloadPartial, Failure,
           DownloadNotReady, DownloadRefused, DownloadError, DownloadBreaks, Result
  <1>3. ScanNext(j) => up' = up
    BY DEF ScanNext, ScanRead, ScanSkips, RecoverSubmitting, CompleteExisting, RecoverDownloading,
           ScanEnds
  <1>4. ClickNext(j) => up' = up
    BY DEF ClickNext, PauseRead, RedownloadRead, AdminResumeRead, BulkDeleteRead, OpRead, OpWrite,
           OpVoid, BulkDeleteWrite, KickEnds, DeleteOne, UserResume, AdminRedownload,
           BatchRetryDownload, LockedWrite
  <1>5. UpstreamNext(j) => up' = up
    BY DEF UpstreamNext, UpstreamFinishes
  <1>6. ASSUME NEW p \in Pollers PROVE PollNext(p, j) => up' = up
    BY DEF PollNext, ProcessResumesDownload, PollStart, PollError, PollProcessing, PollFallback,
           PollCompleted, PollFailed, PollRefused, PollVoid, PollEnds
  <1> QED BY <1>1, <1>2, <1>3, <1>4, <1>5, <1>6

--------------------------------------------------------------------------------
FitsInv == TypeInv /\ \A j \in Jobs : JobFits(j)

\* What one step may do: only a deletion takes another job's unit, and only a status check
\* that is answered with an error undoes a job with a booked video.
Pays ==
  /\ misreleased' # misreleased => \E j \in Jobs : BulkDeleteWrite(j)
  /\ \A j \in Jobs : Undone(j) /\ record[j] # NoTask => \E p \in Pollers : PollRefused(p, j)

\* The books move without the pipeline.
LEMMA BooksFit ==
  ASSUME FitsInv, (BooksNext \/ UNCHANGED vars)
  PROVE  (\A j \in Jobs : JobFits(j)') /\ Pays
  <1>1. UNCHANGED <<pipelineVars, reservation, misreleased>>
    <2>1. WalletNext => UNCHANGED <<reservation, misreleased>>
      BY DEF WalletNext, GrantQuota, DeductQuota
    <2>2. PackageNext => UNCHANGED <<reservation, misreleased>>
      BY DEF PackageNext, RefreshDuePackages, PeriodEnds, BindCheck, BindInsert, Unbind, CustomRead,
             CustomWrite, TogglePlan, UpdatePlan
    <2>3. UNCHANGED vars => UNCHANGED <<pipelineVars, reservation, misreleased>>
      BY DEF vars, quotaVars
    <2> QED BY <2>1, <2>2, <2>3 DEF BooksNext
  <1>2. ASSUME NEW j \in Jobs PROVE JobFits(j)'
    <2>1. Same(j) /\ up' = up
      BY <1>1 DEF pipelineVars, Same
    <2> QED BY <2>1, FitsSame DEF FitsInv
  <1>3. \A j \in Jobs : ~Undone(j)
    BY <1>1 DEF Undone, pipelineVars
  <1> QED BY <1>1, <1>2, <1>3 DEF Pays

\* Every step of the pipeline.
LEMMA FitsStep ==
  ASSUME ~LateAnswers, FitsInv, QuotaTypeOK, [PipelineNext]_vars
  PROVE  (\A j \in Jobs : JobFits(j)') /\ Pays
  <1> DEFINE Goal == (\A j \in Jobs : JobFits(j)') /\ Pays
  <1>0. TypeInv /\ PipelineTypeOK /\ \A j \in Jobs : JobFits(j)
    BY DEF FitsInv, TypeInv
  <1>1. ASSUME NEW j \in Jobs, JobFits(j)', up' = up, \A i \in Jobs \ {j} : Same(i),
               misreleased' = misreleased \/ BulkDeleteWrite(j),
               Undone(j) /\ record[j] # NoTask => \E p \in Pollers : PollRefused(p, j)
        PROVE  Goal
    <2>1. \A i \in Jobs : JobFits(i)'
      BY <1>0, <1>1, FitsSame
    <2>2. \A i \in Jobs \ {j} : ~Undone(i)
      BY <1>1 DEF Same, Undone
    <2> QED BY <1>1, <2>1, <2>2 DEF Pays
  <1>2. ASSUME NEW j \in Jobs, JobFits(j)', PaysRightly(j), up' = up, \A i \in Jobs \ {j} : Same(i)
        PROVE  Goal
    BY <1>1, <1>2 DEF PaysRightly
  <1>3. ASSUME NEW j \in Jobs, SubmitNext(j) PROVE Goal
    BY <1>0, <1>2, <1>3, SubmitFits, SubmitSame, UpKept
  <1>4. ASSUME NEW j \in Jobs, NEW p \in Pollers, PollNext(p, j) PROVE Goal
    <2>1. /\ JobFits(j)' /\ up' = up /\ \A i \in Jobs \ {j} : Same(i)
          /\ misreleased' = misreleased
          /\ Undone(j) /\ record[j] # NoTask => PollRefused(p, j)
      BY <1>0, <1>4, PollJobFits, PollSame, UpKept DEF PaysRightly
    <2> QED BY <1>1, <2>1
  <1>5. ASSUME NEW j \in Jobs, DownloadNext(j) PROVE Goal
    BY <1>0, <1>2, <1>5, DownloadFits, DownloadSame, UpKept
  <1>6. ASSUME NEW j \in Jobs, ScanNext(j) PROVE Goal
    BY <1>0, <1>2, <1>6, ScanJobFits, ScanSame, UpKept
  <1>7. ASSUME NEW j \in Jobs, ClickNext(j) PROVE Goal
    <2>1. /\ JobFits(j)' /\ up' = up /\ \A i \in Jobs \ {j} : Same(i)
          /\ misreleased' = misreleased \/ BulkDeleteWrite(j)
          /\ ~Undone(j)
      BY <1>0, <1>7, ClickJobFits, ClickSame, UpKept DEF PaysRightly
    <2> QED BY <1>1, <2>1
  <1>8. ASSUME NEW j \in Jobs, UpstreamNext(j) PROVE Goal
    BY <1>0, <1>2, <1>8, UpstreamFits, UpstreamSame, UpKept
  <1>9. CASE WorkerCrash \/ WorkerStart
    <2>1. UNCHANGED quotaVars
      BY <1>9 DEF WorkerCrash, WorkerStart
    <2>2. \A j \in Jobs : JobFits(j)'
      BY <1>0, <1>9, CrashFits, StartFits
    <2>3. ASSUME NEW j \in Jobs PROVE job'[j].status # "failed" \/ job'[j] = job[j]
      <3>1. CASE WorkerCrash
        BY <3>1 DEF WorkerCrash, rowVars
      <3>2. CASE WorkerStart
        BY <3>2, <1>0, TypedAt, RecoveredRow DEF WorkerStart
      <3> QED BY <1>9, <3>1, <3>2
    <2> QED BY <2>1, <2>2, <2>3 DEF Pays, Undone, quotaVars
  <1>10. CASE BooksNext \/ UNCHANGED vars
    BY <1>10, BooksFit
  <1> QED BY <1>3, <1>4, <1>5, <1>6, <1>7, <1>8, <1>9, <1>10 DEF PipelineNext

\* Every job keeps fitting its unit, its files and the threads that work on it.
LEMMA FitsAlways ==
  ASSUME ~LateAnswers
  PROVE  PipelineSpec => []FitsInv /\ [][Pays]_vars
  <1>1. PipelineSpec => []QuotaTypeOK
    BY PipelineRefinesQuota, QuotaTypeCorrect, PTL
  <1>2. PipelineInit => FitsInv
    BY PipelineTypeInit, FitsInit DEF FitsInv
  <1>3. FitsInv /\ QuotaTypeOK /\ [PipelineNext]_vars => FitsInv' /\ Pays
    BY FitsStep, PipelineTypeStep DEF FitsInv
  <1> QED BY <1>1, <1>2, <1>3, PTL DEF PipelineSpec

--------------------------------------------------------------------------------
\* The mark of a delivered job is its progress of 100: it keeps later checks from asking,
\* and a check that holds the lock keeps the video from being booked.
Marked(j) ==
  /\ record[j] # NoTask => job[j].full
  /\ \A p \in Pollers :
       poll[p][j] # Idle => /\ ~poll[p][j].seen.full
                            /\ poll[p][j].held => record[j] = NoTask
  /\ op[j].pc \in {"pause", "redownload", "resume"} /\ op[j].seen.full => op[j].new.full
  /\ op[j].pc = "scan" /\ op[j].seen.status \in ResultStatuses /\ op[j].seen.full => job[j].full

\* A step that takes the mark from no job with a task, and books videos under the lock.
MarkKept(j) ==
  /\ HasTask(j) /\ job[j].full => job'[j].full
  /\ record'[j] \in {record[j], NoTask} \/ (LockFree(j) /\ job'[j].full)
  /\ op'[j] \in {op[j], Idle}

\* One that starts no status check keeps the marks.
LEMMA MarkStays ==
  ASSUME PipelineTypeOK, NEW j \in Jobs, JobFits(j), Marked(j), MarkKept(j),
         \A p \in Pollers : poll'[p][j] \in {poll[p][j], Idle}
  PROVE  Marked(j)'
  <1>1. record'[j] # NoTask => job'[j].full
    BY DEF Marked, MarkKept, JobFits, FilesFit, HasTask
  <1>2. ASSUME NEW p \in Pollers, poll'[p][j] # Idle
        PROVE  ~poll'[p][j].seen.full /\ (poll'[p][j].held => record'[j] = NoTask)
    <2>1. poll'[p][j] = poll[p][j] /\ poll[p][j].pc = "asking"
      BY <1>2, TypedAt
    <2> QED BY <1>2, <2>1 DEF Marked, MarkKept, LockFree
  <1>3. op'[j].pc \in {"pause", "redownload", "resume"} /\ op'[j].seen.full => op'[j].new.full
    BY DEF Marked, MarkKept, Idle
  <1>4. ASSUME op'[j].pc = "scan", op'[j].seen.status \in ResultStatuses, op'[j].seen.full
        PROVE  job'[j].full
    <2>1. op'[j] = op[j] /\ HasTask(j)
      BY <1>4 DEF MarkKept, Idle, JobFits, ThreadsFit, ScanFits, StaleSubmitting, ResultStatuses,
                  DownloadableStatuses
    <2> QED BY <1>4, <2>1 DEF Marked, MarkKept
  <1> QED BY <1>1, <1>2, <1>3, <1>4 DEF Marked

\* A flush that clears no mark leaves the mark of the row.
LEMMA MarkWritten ==
  ASSUME PipelineTypeOK, NEW j \in Jobs, NEW seen \in JobRow, NEW new \in JobRow,
         Write(j, seen, new), seen.full => new.full
  PROVE  job[j].full => job'[j].full
  <1> DEFINE row == IF Exists(j) THEN Flush(job[j], seen, new) ELSE job[j]
  <1>1. job[j] \in JobRow
    BY TypedAt
  <1>2. row \in JobRow
    BY <1>1, FlushedRow
  <1>3. job' = [job EXCEPT ![j] = row]
    BY DEF Write
  <1>4. job[j].full => row.full
    <2>1. job[j].full \in BOOLEAN /\ new.full \in BOOLEAN /\ seen.full \in BOOLEAN
      BY <1>1 DEF JobRow
    <2>2. Flush(job[j], seen, new).full
            = IF new.full = seen.full THEN job[j].full ELSE new.full
      BY <1>1 DEF Flush, JobRow
    <2> QED BY <2>1, <2>2
  <1> HIDE DEF row
  <1> QED BY <1>2, <1>3, <1>4, RowStored

LEMMA SubmitMarks ==
  ASSUME TypeInv, NEW j \in Jobs, JobFits(j), SubmitNext(j)
  PROVE  MarkKept(j) /\ UNCHANGED poll
  <1>0. PipelineTypeOK /\ FilesFit(j) /\ SubFits(j) /\ job[j] \in JobRow
    BY TypedAt DEF TypeInv, JobFits, ThreadsFit
  <1> USE DEF rowVars, outputVars, threadVars, MarkKept
  <1>1. CASE CreateJob(j) \/ SubmitRejected(j)
    BY <1>0, <1>1 DEF CreateJob, SubmitRejected, PipelineTypeOK, JobRow
  <1>2. CASE SubmitStart(j)
    <2>1. /\ job' = [job EXCEPT ![j] = [job[j] EXCEPT !.status = "submitting",
                                          !.submits = Saturated(job[j].submits, MaxSubmit)]]
          /\ UNCHANGED <<record, poll, op>>
      BY <1>2 DEF SubmitStart
    <2>2. job'[j].full = job[j].full
      <3> HIDE DEF Saturated
      <3> QED BY <1>0, <2>1 DEF PipelineTypeOK, JobRow
    <2> QED BY <2>1, <2>2
  <1>3. CASE PostAccepted(j) \/ SubmitLost(j)
    BY <1>3 DEF PostAccepted, SubmitLost
  <1>4. CASE SubmitBreaks(j)
    BY <1>0, <1>4 DEF SubmitBreaks, PipelineTypeOK, JobRow
  <1>5. CASE SubmitCommit(j) \/ \E retryable \in BOOLEAN : SubmitFails(j, retryable)
    <2>1. UNCHANGED <<record, poll, op>> /\ sub[j] # Idle
      <3>1. CASE SubmitCommit(j)
        BY <3>1 DEF SubmitCommit, Idle
      <3>2. ASSUME NEW retryable \in BOOLEAN, SubmitFails(j, retryable)
            PROVE  UNCHANGED <<record, poll, op>> /\ sub[j] # Idle
        <4>1. UNCHANGED <<record, poll, op>>
          BY <3>2 DEF SubmitFails
        <4>2. sub[j].pc = "posting" \/ sub[j].pc = "accepted"
          BY <3>2 DEF SubmitFails
        <4> QED BY <4>1, <4>2 DEF Idle
      <3> QED BY ONLY <1>5, <3>1, <3>2
    <2>2. job'[j] = job[j] \/ Exists(j)
      BY <1>0, <1>5 DEF SubmitCommit, SubmitFails, Write, PipelineTypeOK
    <2>3. ~Exists(j) \/ ~HasTask(j)
      BY <1>0, <2>1 DEF SubFits, Exists, Absent
    <2> QED BY <2>1, <2>2, <2>3
  <1> QED BY <1>1, <1>2, <1>3, <1>4, <1>5 DEF SubmitNext

LEMMA PollMarks ==
  ASSUME TypeInv, NEW p \in Pollers, NEW j \in Jobs, JobFits(j), Marked(j), PollNext(p, j)
  PROVE  Marked(j)'
  <1> DEFINE seen == poll[p][j].seen
  <1>0. PipelineTypeOK /\ job[j] \in JobRow
    BY TypedAt DEF TypeInv
  <1> USE DEF rowVars, outputVars, threadVars
  <1>1. CASE ProcessResumesDownload(p, j)
    <2>1. /\ job' = [job EXCEPT ![j].status = "remote_completed"]
          /\ UNCHANGED <<record, poll, op>>
      BY <1>1 DEF ProcessResumesDownload
    <2>2. MarkKept(j)
      BY <1>0, <2>1 DEF MarkKept, PipelineTypeOK, JobRow
    <2> QED BY <1>0, <2>1, <2>2, MarkStays
  <1>2. CASE PollStart(p, j)
    <2>1. ~job[j].full /\ UNCHANGED <<job, record, op>>
      BY <1>2 DEF PollStart
    <2>2. PICK held \in BOOLEAN :
            poll' = [poll EXCEPT ![p][j] = [pc |-> "asking", seen |-> job[j], held |-> held,
                                            was |-> task[j][job[j].remote]]]
      BY <1>2 DEF PollStart
    <2>3. /\ poll'[p][j].seen = job[j]
          /\ \A q \in Pollers \ {p} : poll'[q][j] = poll[q][j]
      BY <1>0, <2>2 DEF PipelineTypeOK
    <2> QED BY <2>1, <2>3 DEF Marked
  <1>3. ASSUME PollEnds(p, j)
        PROVE  /\ seen \in JobRow /\ ~seen.full /\ UNCHANGED <<record, op>>
               /\ \A q \in Pollers : poll'[q][j] \in {poll[q][j], Idle}
    <2>1. poll[p][j] # Idle
      BY <1>3 DEF PollEnds, Idle
    <2>2. \A q \in Pollers : poll'[q][j] \in {poll[q][j], Idle}
      BY <1>0, <1>3 DEF PollEnds, PipelineTypeOK
    <2> QED BY <1>0, <1>3, <2>1, <2>2, TypedAt DEF PollEnds, Marked
  <1>4. CASE PollError(p, j) \/ PollVoid(p, j)
    <2>1. PollEnds(p, j) /\ job' = job
      BY <1>4 DEF PollError, PollVoid
    <2> QED BY <1>0, <1>3, <2>1, MarkStays DEF MarkKept
  <1>5. ASSUME PollEnds(p, j), NEW s \in Statuses, NEW b \in BOOLEAN,
               \/ Write(j, seen, [seen EXCEPT !.status = s])
               \/ Write(j, seen, [seen EXCEPT !.status = s, !.full = b])
        PROVE  Marked(j)'
    <2> DEFINE left == [seen EXCEPT !.status = s]
               both == [seen EXCEPT !.status = s, !.full = b]
    <2>1. left \in JobRow /\ both \in JobRow
      BY <1>3, <1>5 DEF JobRow
    <2>2. Write(j, seen, left) \/ Write(j, seen, both)
      BY <1>5
    <2>3. seen \in JobRow /\ ~seen.full
      BY <1>3, <1>5
    <2> HIDE DEF left, both, seen
    <2>4. MarkKept(j)
      BY <1>0, <1>3, <1>5, <2>1, <2>2, <2>3, MarkWritten DEF MarkKept
    <2> QED BY <1>0, <1>3, <1>5, <2>4, MarkStays
  <1>6. CASE PollProcessing(p, j) \/ PollFailed(p, j)
    <2>1. PICK s \in {"polling", "failed"}, full \in BOOLEAN :
            Write(j, seen, [seen EXCEPT !.status = s, !.full = seen.full \/ full])
      BY <1>6 DEF PollProcessing, PollFailed
    <2>2. (seen.full \/ full) \in BOOLEAN /\ PollEnds(p, j)
      BY <1>6 DEF PollProcessing, PollFailed
    <2> QED BY <1>5, <2>1, <2>2, LateStatuses
  <1>7. CASE PollFallback(p, j) \/ PollCompleted(p, j) \/ PollRefused(p, j)
    <2>1. PollEnds(p, j)
      BY <1>7 DEF PollFallback, PollCompleted, PollRefused
    <2>2. PICK s \in {"remote_completed", "failed"} :
            \/ Write(j, seen, [seen EXCEPT !.status = s])
            \/ Write(j, seen, [seen EXCEPT !.status = s, !.full = TRUE])
      BY <1>7 DEF PollFallback, PollCompleted, PollRefused
    <2> QED BY <1>5, <2>1, <2>2, LateStatuses
  <1> QED BY <1>1, <1>2, <1>4, <1>6, <1>7 DEF PollNext

LEMMA DownloadMarks ==
  ASSUME TypeInv, NEW j \in Jobs, DownloadNext(j)
  PROVE  MarkKept(j) /\ UNCHANGED poll
  <1>0. PipelineTypeOK /\ job[j] \in JobRow
    BY TypedAt DEF TypeInv
  <1> USE DEF rowVars, outputVars, threadVars, MarkKept
  <1>1. ASSUME Complete(j), LockFree(j), UNCHANGED <<poll, op>>
        PROVE  MarkKept(j)
    BY <1>0, <1>1 DEF Complete, PipelineTypeOK, JobRow
  <1>2. CASE ClaimFindsFile(j) \/ DownloadBooked(j)
    BY <1>1, <1>2 DEF ClaimFindsFile, Claimable, DownloadBooked, ResultApplies, Result
  <1>3. CASE ClaimRestoresPolling(j) \/ ClaimExhausted(j) \/ ClaimWaits(j) \/ ClaimStarts(j)
    <2>1. UNCHANGED <<record, poll, op>>
      BY <1>3 DEF ClaimRestoresPolling, ClaimExhausted, ClaimWaits, Claim, ClaimStarts
    <2>2. job'[j].full = job[j].full
      BY <1>0, <1>3 DEF ClaimRestoresPolling, ClaimExhausted, ClaimWaits, Claim, ClaimStarts,
                        PipelineTypeOK, JobRow
    <2> QED BY <2>1, <2>2
  <1>4. CASE DownloadSaved(j) \/ DownloadDropped(j) \/ DownloadBreaks(j)
    BY <1>4 DEF DownloadSaved, DownloadDropped, DownloadBreaks, Result
  <1>5. ASSUME NEW s, NEW n, Failure(j, s, n)
        PROVE  MarkKept(j) /\ UNCHANGED poll
    BY <1>0, <1>5 DEF Failure, Result, PipelineTypeOK, JobRow
  <1>6. CASE DownloadPartial(j) \/ DownloadNotReady(j) \/ DownloadRefused(j) \/ DownloadError(j)
    BY <1>5, <1>6 DEF DownloadPartial, DownloadNotReady, DownloadRefused, DownloadError
  <1> QED BY <1>2, <1>3, <1>4, <1>6 DEF DownloadNext

LEMMA ScanMarks ==
  ASSUME TypeInv, NEW j \in Jobs, JobFits(j), Marked(j), ScanNext(j)
  PROVE  Marked(j)'
  <1>0. PipelineTypeOK /\ job[j] \in JobRow
    BY TypedAt DEF TypeInv
  <1> USE DEF rowVars, outputVars
  <1>1. CASE ScanRead(j)
    <2>1. /\ op'[j] = [pc |-> "scan", seen |-> job[j]]
          /\ UNCHANGED <<job, record, poll>>
      BY <1>0, <1>1 DEF ScanRead, PipelineTypeOK
    <2>2. op'[j].pc = "scan" /\ op'[j].seen = job[j]
      BY <2>1
    <2> QED BY <2>1, <2>2 DEF Marked
  <1>2. ASSUME ScanEnds(j)
        PROVE  /\ op[j].pc = "scan" /\ op[j].seen \in JobRow /\ op'[j] = Idle
               /\ UNCHANGED poll
    BY <1>0, <1>2, TypedAt DEF ScanEnds, PipelineTypeOK, Idle
  <1>3. ASSUME MarkKept(j), ScanEnds(j) PROVE Marked(j)'
    BY <1>0, <1>2, <1>3, MarkStays
  <1>4. CASE ScanSkips(j)
    BY <1>2, <1>3, <1>4 DEF ScanSkips, MarkKept
  <1>5. ASSUME ScanEnds(j), NEW new \in JobRow, Write(j, op[j].seen, new),
               op[j].seen.full => new.full, UNCHANGED record
        PROVE  Marked(j)'
    BY <1>0, <1>2, <1>3, <1>5, MarkWritten DEF MarkKept
  <1>6. CASE RecoverSubmitting(j)
    <2> DEFINE new == [op[j].seen EXCEPT !.status = "queued"]
    <2>1. ScanEnds(j) /\ Write(j, op[j].seen, new) /\ UNCHANGED record
      BY <1>6 DEF RecoverSubmitting
    <2>2. new \in JobRow /\ new.full = op[j].seen.full
      BY <1>2, <2>1, LateStatuses DEF JobRow
    <2> HIDE DEF new
    <2> QED BY <1>5, <2>1, <2>2
  <1>7. CASE CompleteExisting(j)
    <2> DEFINE new == [op[j].seen EXCEPT !.status = "completed", !.full = TRUE]
    <2>1. /\ ScanEnds(j) /\ Exists(j) /\ Write(j, op[j].seen, new) /\ LockFree(j)
          /\ op[j].seen.status \in ResultStatuses
      BY <1>7 DEF CompleteExisting
    <2>2. new \in JobRow /\ new.full = TRUE /\ op[j].seen \in JobRow
      BY <1>2, <2>1, LateStatuses DEF JobRow
    <2> HIDE DEF new
    <2>3. op[j].seen.full => job[j].full
      BY <1>2, <2>1 DEF Marked
    <2>4. job'[j].full
      <3>1. Flush(job[j], op[j].seen, new) \in JobRow
        BY <1>0, <2>2, FlushedRow
      <3>2. Flush(job[j], op[j].seen, new).full
              = IF new.full = op[j].seen.full THEN job[j].full ELSE new.full
        BY <1>0, <2>2 DEF Flush, JobRow
      <3>3. op[j].seen.full \in BOOLEAN
        BY <2>2 DEF JobRow
      <3>4. job'[j] = Flush(job[j], op[j].seen, new)
        BY <1>0, <2>1 DEF Write, PipelineTypeOK
      <3> QED BY <2>2, <2>3, <3>2, <3>3, <3>4
    <2> QED BY <1>2, <1>3, <2>1, <2>4 DEF MarkKept
  <1>8. CASE RecoverDownloading(j)
    <2> DEFINE n == AtLeastZero(op[j].seen.downloads - 1)
               new == [op[j].seen EXCEPT !.status = "remote_completed", !.downloads = n]
    <2>1. ScanEnds(j) /\ Write(j, op[j].seen, new) /\ UNCHANGED record
      BY <1>8 DEF RecoverDownloading
    <2>2. n \in 0..MaxDownloads
      BY <1>2, <2>1, PipelineAssumption DEF JobRow, AtLeastZero
    <2>3. new \in JobRow /\ new.full = op[j].seen.full
      <3> HIDE DEF n
      <3> QED BY <1>2, <2>1, <2>2, LateStatuses DEF JobRow
    <2> HIDE DEF new
    <2> QED BY <1>5, <2>1, <2>3
  <1> QED BY <1>1, <1>4, <1>6, <1>7, <1>8 DEF ScanNext

\* What the routes write keeps the mark of what they read.
LEMMA ClickRows ==
  ASSUME TypeInv, NEW j \in Jobs
  PROVE  /\ job[j].full => Resumed(j).full /\ Redownloaded(j).full
         /\ \A s, n : /\ [job[j] EXCEPT !.status = s].full = job[j].full
                      /\ [job[j] EXCEPT !.status = s, !.downloads = n].full = job[j].full
                      /\ [job[j] EXCEPT !.status = s, !.downloads = n, !.full = TRUE].full = TRUE
  <1>1. job[j] \in JobRow
    BY TypedAt DEF TypeInv
  <1>2. \A s, n : /\ [job[j] EXCEPT !.status = s].full = job[j].full
                  /\ [job[j] EXCEPT !.status = s, !.downloads = n].full = job[j].full
                  /\ [job[j] EXCEPT !.status = s, !.downloads = n, !.full = TRUE].full = TRUE
    BY <1>1 DEF JobRow
  <1> QED BY <1>2 DEF Resumed, Redownloaded

LEMMA ClickMarks ==
  ASSUME TypeInv, NEW j \in Jobs, JobFits(j), Marked(j), ClickNext(j)
  PROVE  Marked(j)'
  <1>0. PipelineTypeOK /\ job[j] \in JobRow
    BY TypedAt DEF TypeInv
  <1> USE DEF rowVars, outputVars, threadVars
  <1>1. ASSUME NEW pc \in {"pause", "redownload", "resume", "delete"}, NEW new,
               OpRead(j, pc, new), job[j].full => new.full
        PROVE  Marked(j)'
    <2>1. /\ op'[j] = [pc |-> pc, seen |-> job[j], new |-> new]
          /\ UNCHANGED <<job, record, poll>>
      BY <1>0, <1>1 DEF OpRead, PipelineTypeOK
    <2>2. op'[j].pc = pc /\ op'[j].seen = job[j] /\ op'[j].new = new
      BY <2>1
    <2> QED BY <1>1, <2>1, <2>2 DEF Marked
  <1>2. CASE PauseRead(j) \/ RedownloadRead(j) \/ AdminResumeRead(j) \/ BulkDeleteRead(j)
    <2>1. CASE PauseRead(j)
      BY <1>1, <2>1, ClickRows DEF PauseRead
    <2>2. CASE RedownloadRead(j) \/ AdminResumeRead(j) \/ BulkDeleteRead(j)
      BY <1>1, <2>2, ClickRows DEF RedownloadRead, AdminResumeRead, BulkDeleteRead
    <2> QED BY <1>2, <2>1, <2>2
  <1>3. ASSUME MarkKept(j), UNCHANGED poll PROVE Marked(j)'
    BY <1>0, <1>3, MarkStays
  <1>4. ASSUME op' = [op EXCEPT ![j] = Idle] PROVE op'[j] = Idle
    BY <1>0, <1>4 DEF PipelineTypeOK
  <1>5. CASE OpWrite(j)
    <2>1. /\ op[j].pc \in {"pause", "redownload", "resume"} /\ op'[j] = Idle
          /\ Write(j, op[j].seen, op[j].new) /\ UNCHANGED <<record, poll>>
      BY <1>4, <1>5 DEF OpWrite
    <2>2. op[j].seen \in JobRow /\ op[j].new \in JobRow /\ (op[j].seen.full => op[j].new.full)
      BY <1>0, <2>1, TypedAt DEF Idle, Marked
    <2> QED BY <1>0, <1>3, <2>1, <2>2, MarkWritten DEF MarkKept
  <1>6. CASE OpVoid(j) \/ KickEnds(j)
    <2>1. UNCHANGED <<job, record, poll>> /\ op'[j] \in {op[j], Idle}
      BY <1>4, <1>6 DEF OpVoid, KickEnds
    <2> QED BY <1>3, <2>1 DEF MarkKept
  <1>7. CASE BulkDeleteWrite(j) \/ DeleteOne(j)
    <2>1. /\ job' = [job EXCEPT ![j].status = "deleted"] /\ record' = [record EXCEPT ![j] = NoTask]
          /\ op'[j] \in {op[j], Idle} /\ UNCHANGED poll
      BY <1>4, <1>7 DEF BulkDeleteWrite, DeleteOne, Delete
    <2>2. job'[j].full = job[j].full /\ record'[j] = NoTask
      BY <1>0, <2>1 DEF PipelineTypeOK, JobRow
    <2> QED BY <1>3, <2>1, <2>2 DEF MarkKept
  <1>8. ASSUME NEW new, NEW kick, LockedWrite(j, new, kick), job[j].full => new.full
        PROVE  Marked(j)'
    <2>1. job'[j] = new /\ UNCHANGED <<record, poll, op>>
      BY <1>0, <1>8 DEF LockedWrite, PipelineTypeOK
    <2> QED BY <1>3, <1>8, <2>1 DEF MarkKept
  <1>9. CASE UserResume(j)
    BY <1>8, <1>9, ClickRows DEF UserResume
  <1>10. CASE AdminRedownload(j)
    <2> DEFINE new == [job[j] EXCEPT !.status = "remote_completed", !.downloads = 0, !.full = TRUE]
    <2>1. LockedWrite(j, new, TRUE) /\ new.full = TRUE
      BY <1>10, ClickRows DEF AdminRedownload
    <2> HIDE DEF new
    <2> QED BY <1>8, <2>1
  <1>11. CASE BatchRetryDownload(j)
    <2> DEFINE new == [job[j] EXCEPT !.status = "remote_completed", !.downloads = 0]
    <2>1. LockedWrite(j, new, FALSE)
      BY <1>11 DEF BatchRetryDownload
    <2>2. new.full = job[j].full
      BY <1>0 DEF JobRow
    <2> HIDE DEF new
    <2> QED BY <1>8, <2>1, <2>2
  <1> QED BY <1>2, <1>5, <1>6, <1>7, <1>9, <1>10, <1>11 DEF ClickNext

MarkedInv == \A j \in Jobs : Marked(j)

\* Every step keeps the marks.
LEMMA MarkedStep ==
  ASSUME FitsInv, QuotaTypeOK, MarkedInv, [PipelineNext]_vars
  PROVE  MarkedInv'
  <1>0. TypeInv /\ PipelineTypeOK /\ \A j \in Jobs : JobFits(j) /\ Marked(j)
    BY DEF FitsInv, TypeInv, MarkedInv
  <1>1. ASSUME NEW j \in Jobs, Marked(j)', \A i \in Jobs \ {j} : Same(i)
        PROVE  MarkedInv'
    <2>1. \A i \in Jobs \ {j} : Marked(i)'
      BY <1>0, <1>1 DEF Same, Marked
    <2> QED BY <1>1, <2>1 DEF MarkedInv
  <1>2. ASSUME NEW j \in Jobs, MarkKept(j), UNCHANGED poll, \A i \in Jobs \ {j} : Same(i)
        PROVE  MarkedInv'
    BY <1>0, <1>1, <1>2, MarkStays
  <1>3. ASSUME NEW j \in Jobs, SubmitNext(j) PROVE MarkedInv'
    BY <1>0, <1>2, <1>3, SubmitMarks, SubmitSame
  <1>4. ASSUME NEW j \in Jobs, NEW p \in Pollers, PollNext(p, j) PROVE MarkedInv'
    BY <1>0, <1>1, <1>4, PollMarks, PollSame
  <1>5. ASSUME NEW j \in Jobs, DownloadNext(j) PROVE MarkedInv'
    BY <1>0, <1>2, <1>5, DownloadMarks, DownloadSame
  <1>6. ASSUME NEW j \in Jobs, ScanNext(j) PROVE MarkedInv'
    BY <1>0, <1>1, <1>6, ScanMarks, ScanSame
  <1>7. ASSUME NEW j \in Jobs, ClickNext(j) PROVE MarkedInv'
    BY <1>0, <1>1, <1>7, ClickMarks, ClickSame
  <1>8. ASSUME NEW j \in Jobs, UpstreamNext(j) PROVE MarkedInv'
    <2>1. MarkKept(j) /\ UNCHANGED poll
      BY <1>8 DEF UpstreamNext, UpstreamFinishes, MarkKept, rowVars, outputVars, threadVars
    <2> QED BY <1>0, <1>2, <1>8, <2>1, UpstreamSame
  <1>9. CASE WorkerCrash \/ WorkerStart
    <2>1. ASSUME NEW j \in Jobs
          PROVE  /\ MarkKept(j)
                 /\ \A p \in Pollers : poll'[p][j] \in {poll[p][j], Idle}
      <3>1. CASE WorkerCrash
        BY <1>0, <3>1 DEF WorkerCrash, MarkKept, PipelineTypeOK, rowVars, outputVars
      <3>2. CASE WorkerStart
        <4>1. Recovered(job[j]).full = job[j].full
          BY <1>0, TypedAt DEF Recovered, JobRow
        <4> QED BY <3>2, <4>1 DEF WorkerStart, MarkKept, outputVars, threadVars
      <3> QED BY <1>9, <3>1, <3>2
    <2> QED BY <1>0, <2>1, MarkStays DEF MarkedInv
  <1>10. CASE BooksNext \/ UNCHANGED vars
    <2>1. UNCHANGED pipelineVars
      BY <1>10 DEF BooksNext, vars
    <2> QED BY <1>0, <2>1 DEF MarkedInv, Marked, pipelineVars
  <1> QED BY <1>3, <1>4, <1>5, <1>6, <1>7, <1>8, <1>9, <1>10 DEF PipelineNext

LEMMA MarkedAlways ==
  ASSUME ~LateAnswers
  PROVE  PipelineSpec => []MarkedInv
  <1>1. PipelineSpec => []QuotaTypeOK
    BY PipelineRefinesQuota, QuotaTypeCorrect, PTL
  <1>2. PipelineInit => MarkedInv
    BY DEF PipelineInit, MarkedInv, Marked, Idle
  <1>3. FitsInv /\ QuotaTypeOK /\ MarkedInv /\ [PipelineNext]_vars => MarkedInv'
    BY MarkedStep
  <1> QED BY <1>1, <1>2, <1>3, FitsAlways, PTL DEF PipelineSpec

\* The quota unit of a job follows its row through every interleaving of submission,
\* failure, recovery and clicks, provided no answer to a submission comes after the cutoff.
THEOREM UnitsFollowJobs ==
  ASSUME ~LateAnswers
  PROVE  PipelineSpec => []UnitFollowsJob
  <1>1. FitsInv => UnitFollowsJob
    <2> SUFFICES ASSUME FitsInv, NEW j \in Jobs
                 PROVE  LET unit == reservation[j].status
                        IN CASE job[j].status \in Absent -> unit = job[j].status
                             [] Exists(j) /\ job[j].remote # NoTask
                                  -> unit \in {"charged", "refunded"}
                             [] OTHER -> unit = IF job[j].status \in {"queued", "submitting"}
                                                THEN "reserved" ELSE "released"
      BY DEF UnitFollowsJob
    <2>1. RowFits(j)
      BY DEF FitsInv, JobFits
    <2> QED BY <2>1 DEF RowFits, Exists, HasTask
  <1> QED BY <1>1, FitsAlways, PTL

\* No stale writer leaves a job failed upstream with its unit spent.
THEOREM FailedAreRefunded ==
  ASSUME ~LateAnswers
  PROVE  PipelineSpec => []FailedIsRefunded
  <1>1. FitsInv => FailedIsRefunded
    BY DEF FitsInv, JobFits, RowFits, FailedIsRefunded, HasTask
  <1> QED BY <1>1, FitsAlways, PTL

\* A completed job has the video of the task its row names.
THEOREM CompletedJobsHaveVideos ==
  ASSUME ~LateAnswers
  PROVE  PipelineSpec => []CompletedHasItsVideo
  <1>1. FitsInv => CompletedHasItsVideo
    BY DEF FitsInv, JobFits, FilesFit, CompletedHasItsVideo
  <1> QED BY <1>1, FitsAlways, PTL

\* What is delivered can always be had again: the video stays booked, on disk, and marked
\* so that a resume finds it, whatever late checks and scans make of the row.
THEOREM DeliveredStays ==
  ASSUME ~LateAnswers
  PROVE  PipelineSpec => []DeliveredKeepsVideo
  <1>1. FitsInv /\ MarkedInv => DeliveredKeepsVideo
    BY DEF FitsInv, MarkedInv, JobFits, FilesFit, Marked, DeliveredKeepsVideo
  <1> QED BY <1>1, FitsAlways, MarkedAlways, PTL

\* A delivered job is made a failed one, or paid back, by nothing but an unlocked status
\* check older than the delivery that is answered with an error.
THEOREM UndoneByRefusals ==
  ASSUME ~LateAnswers
  PROVE  PipelineSpec => OnlyRefusalsUndoDelivery
  <1> DEFINE Undo == \A j \in Jobs :
        /\ record[j] # NoTask
        /\ \/ job'[j].status = "failed" /\ job[j].status # "failed"
           \/ reservation'[j].status = "refunded" /\ reservation[j].status = "charged"
        => \E p \in Pollers : PollRefused(p, j) /\ Overlapped(p, j)
  <1>1. ASSUME FitsInv, MarkedInv, Pays PROVE Undo
    <2> SUFFICES ASSUME NEW j \in Jobs, record[j] # NoTask, Undone(j)
                 PROVE  \E p \in Pollers : PollRefused(p, j) /\ Overlapped(p, j)
      BY DEF Undone
    <2>1. PICK p \in Pollers : PollRefused(p, j)
      BY <1>1 DEF Pays
    <2>2. poll[p][j] # Idle
      BY <2>1 DEF PollRefused, PollEnds, Idle
    <2>3. ~poll[p][j].held /\ ~poll[p][j].seen.full
      BY <1>1, <2>2 DEF MarkedInv, Marked
    <2> QED BY <2>1, <2>3 DEF Overlapped
  <1>2. FitsInv /\ MarkedInv /\ [Pays]_vars => [Undo]_vars
    BY <1>1
  <1>3. PipelineSpec => [][Undo]_vars
    BY <1>2, FitsAlways, MarkedAlways, PTL
  <1> QED BY <1>3 DEF OnlyRefusalsUndoDelivery

\* Only a bulk delete that works from an old list releases a unit another job holds.
THEOREM MisreleasesAreDeletions ==
  ASSUME ~LateAnswers
  PROVE  PipelineSpec => OnlyDeletesMisrelease
  <1>1. Pays => (misreleased' # misreleased => \E j \in Jobs : BulkDeleteWrite(j))
    BY DEF Pays
  <1> QED BY <1>1, FitsAlways, PTL DEF OnlyDeletesMisrelease

==================================================================================
