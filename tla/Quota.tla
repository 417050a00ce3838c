---------------------------------- MODULE Quota ----------------------------------
(*
The quota books of one user: the personal wallet, the packages bound to the user,
the reservation row of each job and the two ledgers
(services/quota_plans.py, services/jobs.py, services/user_admin.py).

Each action is the part of one transaction that touches these tables. The code
takes the reservation, then the package or the wallet FOR UPDATE before it writes,
so such a part is atomic, except where an administrator's form reads a row
without a lock: BindCheck/BindInsert and CustomRead/CustomWrite split there.
JobPipeline calls the job actions from the handlers that call them in the code;
here they come in any order the code's own guards allow.
*)
EXTENDS Integers, FiniteSets

CONSTANTS Jobs,         \* the user's jobs
          Plans,        \* quota plans an administrator has created
          Assignments,  \* rows of user_quota_plan_assignments for the user
          PlanOf,       \* the plan each of those rows binds
          MaxGrant,     \* bound: wallet units granted in all
          MaxAmount     \* bound: units of a plan, of an edited balance or ledger sum

ASSUME JobsAssumption == IsFiniteSet(Jobs)
ASSUME PlanOfAssumption == PlanOf \in [Assignments -> Plans]
ASSUME SourceAssumption == "personal" \notin Assignments
ASSUME BoundsAssumption == MaxGrant \in Nat /\ MaxAmount \in Nat

VARIABLES wallet,       \* the QuotaWallet row
          plan,         \* plan[p]: status and quota_amount of a QuotaPlan row
          assignment,   \* assignment[a]: the UserQuotaPlanAssignment row
          reservation,  \* reservation[j]: the JobQuotaReservation row of job j
          debited,      \* jobs with a charge row in the ledger of their source
          refunded,     \* jobs with a refund row there
          deducted,     \* units of the wallet's "deduct_manual" ledger rows
          customEdit,   \* what an open custom-quota form submission has read
          misreleased,  \* history: wallet units released on behalf of another job
          periodLedger, \* history: ledger sum of a package since its last refresh
          lostEdit      \* history: packages where a custom edit undid a booking

bookVars == <<wallet, plan, assignment, reservation, debited, refunded, deducted>>
quotaVars == <<wallet, plan, assignment, reservation, debited, refunded, deducted,
               customEdit, misreleased, periodLedger, lostEdit>>

NoCustom == -1   \* custom_quota_amount IS NULL
NoEdit == [form |-> "closed"]
ReservationStatuses == {"none", "reserved", "charged", "released", "refunded", "deleted"}
AssignmentStatuses == {"unbound", "binding", "active", "disabled"}
Sources == {"personal"} \cup Assignments

CustomAmounts == {NoCustom} \cup 0..MaxAmount

WalletRow == [remaining : Int, reserved : Nat, used : Nat, granted : Nat]
PlanRow == [active : BOOLEAN, amount : 0..MaxAmount]
AssignmentRow == [status : AssignmentStatuses, remaining : Nat, reserved : Nat,
                  custom : CustomAmounts, due : BOOLEAN]
ReservationRow == [status : ReservationStatuses, source : Sources]
EditForm == [form : {"open"}, of : Assignments, planAmount : 0..MaxAmount,
             custom : CustomAmounts, remaining : Nat]

\* Mutation of AtLeastZero: no floor.
Unfloored(n) == n

AtLeastZero(n) == IF n > 0 THEN n ELSE 0
AtMost(n, bound) == IF n < bound THEN n ELSE bound

PersonalHolds == {j \in Jobs : reservation[j].status = "reserved"
                                 /\ reservation[j].source = "personal"}
PackageHolds(a) == {j \in Jobs : reservation[j].status = "reserved"
                                   /\ reservation[j].source = a}
PersonalRows(rows) == {j \in rows : reservation[j].source = "personal"}

--------------------------------------------------------------------------------
\* The wallet, by an administrator's hand.

GrantQuota(n) ==
  /\ wallet.granted + n <= MaxGrant
  /\ wallet' = [wallet EXCEPT !.remaining = @ + n, !.granted = @ + n]
  /\ UNCHANGED <<plan, assignment, reservation, debited, refunded, deducted,
                 customEdit, misreleased, periodLedger, lostEdit>>

DeductQuota(n) ==
  /\ wallet.remaining - wallet.reserved >= n
  /\ wallet' = [wallet EXCEPT !.remaining = @ - n]
  /\ deducted' = deducted + n
  /\ UNCHANGED <<plan, assignment, reservation, debited, refunded,
                 customEdit, misreleased, periodLedger, lostEdit>>

--------------------------------------------------------------------------------
\* Packages.

\* The quota a package row is worth per period: the custom amount over the plan's.
QuotaAmount(custom, planAmount) == IF custom # NoCustom THEN custom ELSE planAmount

Amount(a) == QuotaAmount(assignment[a].custom, plan[PlanOf[a]].amount)

InForce(a) == assignment[a].status = "active" /\ plan[PlanOf[a]].active

\* The row after refresh_assignment_if_due.
Refreshed(a) ==
  IF InForce(a) /\ assignment[a].due
  THEN [assignment[a] EXCEPT !.remaining = Amount(a),
                             !.reserved = AtMost(@, Amount(a)),
                             !.due = FALSE]
  ELSE assignment[a]

RefreshedLedger(a) ==
  IF InForce(a) /\ assignment[a].due THEN Amount(a) ELSE periodLedger[a]

\* The worker loop refreshes what is due and commits.
RefreshDuePackages ==
  /\ \E a \in Assignments : InForce(a) /\ assignment[a].due
  /\ assignment' = [a \in Assignments |-> Refreshed(a)]
  /\ periodLedger' = [a \in Assignments |-> RefreshedLedger(a)]
  /\ UNCHANGED <<wallet, plan, reservation, debited, refunded, deducted,
                 customEdit, misreleased, lostEdit>>

\* The clock passes next_refresh_at.
PeriodEnds(a) ==
  /\ assignment[a].status = "active" /\ ~assignment[a].due
  /\ assignment' = [assignment EXCEPT ![a].due = TRUE]
  /\ UNCHANGED <<wallet, plan, reservation, debited, refunded, deducted,
                 customEdit, misreleased, periodLedger, lostEdit>>

\* The bind form finds the plan active and not yet bound; nothing locks that, so
\* a second form can find the same before this one inserts its row.
BindCheck(a) ==
  /\ assignment[a].status = "unbound" /\ plan[PlanOf[a]].active
  /\ \A b \in Assignments : PlanOf[b] = PlanOf[a] => assignment[b].status # "active"
  /\ assignment' = [assignment EXCEPT ![a] =
       [@ EXCEPT !.status = "binding", !.remaining = plan[PlanOf[a]].amount]]
  /\ UNCHANGED <<wallet, plan, reservation, debited, refunded, deducted,
                 customEdit, misreleased, periodLedger, lostEdit>>

BindInsert(a) ==
  /\ assignment[a].status = "binding"
  /\ assignment' = [assignment EXCEPT ![a].status = "active"]
  /\ periodLedger' = [periodLedger EXCEPT ![a] = assignment[a].remaining]
  /\ UNCHANGED <<wallet, plan, reservation, debited, refunded, deducted,
                 customEdit, misreleased, lostEdit>>

Unbind(a) ==
  /\ assignment[a].status = "active"
  /\ assignment' = [assignment EXCEPT ![a].status = "disabled"]
  /\ UNCHANGED <<wallet, plan, reservation, debited, refunded, deducted,
                 customEdit, misreleased, periodLedger, lostEdit>>

UpdatePlan(p, n) ==
  /\ plan' = [plan EXCEPT ![p].amount = n]
  /\ UNCHANGED <<wallet, assignment, reservation, debited, refunded, deducted,
                 customEdit, misreleased, periodLedger, lostEdit>>

\* Disabling a plan unbinds it everywhere; enabling it again binds nothing back.
TogglePlan(p) ==
  /\ plan' = [plan EXCEPT ![p].active = ~@]
  /\ assignment' = [a \in Assignments |->
       IF plan[p].active /\ PlanOf[a] = p /\ assignment[a].status = "active"
       THEN [assignment[a] EXCEPT !.status = "disabled"] ELSE assignment[a]]
  /\ UNCHANGED <<wallet, reservation, debited, refunded, deducted,
                 customEdit, misreleased, periodLedger, lostEdit>>

\* The custom-quota form reads the row and its plan, without a lock.
CustomRead(a) ==
  /\ customEdit = NoEdit /\ assignment[a].status = "active"
  /\ customEdit' = [form |-> "open", of |-> a, planAmount |-> plan[PlanOf[a]].amount,
                    custom |-> assignment[a].custom, remaining |-> assignment[a].remaining]
  /\ UNCHANGED <<wallet, plan, assignment, reservation, debited, refunded, deducted,
                 misreleased, periodLedger, lostEdit>>

\* Mutation of Shifted: a raised quota is not added.
ShiftedDownOnly(remaining, delta) == AtLeastZero(remaining + AtMost(delta, 0))

\* remaining_quota after moving the custom amount by delta.
Shifted(remaining, delta) == IF delta < 0 THEN AtLeastZero(remaining + delta)
                                          ELSE remaining + delta

\* The ORM writes only the columns the form changed against what it read.
Flushed(row, custom, remaining) ==
  [row EXCEPT !.custom = IF custom = customEdit.custom THEN @ ELSE custom,
              !.remaining = IF remaining = customEdit.remaining THEN @ ELSE remaining]

\* The write goes over whatever a booking has committed since the read.
CustomWrite(custom) ==
  LET a == customEdit.of
      delta == QuotaAmount(custom, customEdit.planAmount)
                 - QuotaAmount(customEdit.custom, customEdit.planAmount)
      remaining == Shifted(customEdit.remaining, delta)
  IN /\ customEdit # NoEdit
     /\ remaining <= MaxAmount /\ periodLedger[a] + delta \in (-MaxAmount)..MaxAmount
     /\ assignment' = [assignment EXCEPT ![a] = Flushed(@, custom, remaining)]
     /\ periodLedger' = [periodLedger EXCEPT ![a] = @ + delta]
     /\ lostEdit' = IF remaining # customEdit.remaining /\ assignment[a].remaining # customEdit.remaining
                    THEN lostEdit \cup {a} ELSE lostEdit
     /\ customEdit' = NoEdit
     /\ UNCHANGED <<wallet, plan, reservation, debited, refunded, deducted, misreleased>>

--------------------------------------------------------------------------------
\* The quota unit of a job.

\* reserve_quota_for_job refreshes the packages first, then takes a unit of any
\* package that has one free.
ReservePackage(j, a) ==
  /\ reservation[j].status = "none"
  /\ InForce(a) /\ Refreshed(a).remaining - Refreshed(a).reserved > 0
  /\ assignment' = [b \in Assignments |->
       IF b = a THEN [Refreshed(b) EXCEPT !.reserved = @ + 1] ELSE Refreshed(b)]
  /\ periodLedger' = [b \in Assignments |-> RefreshedLedger(b)]
  /\ reservation' = [reservation EXCEPT ![j] = [status |-> "reserved", source |-> a]]
  /\ UNCHANGED <<wallet, plan, debited, refunded, deducted,
                 customEdit, misreleased, lostEdit>>

\* With no package free it takes a unit of the wallet, or raises and rolls back.
ReservePersonal(j) ==
  /\ reservation[j].status = "none"
  /\ ~\E a \in Assignments :
        InForce(a) /\ Refreshed(a).remaining - Refreshed(a).reserved > 0
  /\ wallet.remaining - wallet.reserved > 0
  /\ wallet' = [wallet EXCEPT !.reserved = @ + 1]
  /\ assignment' = [b \in Assignments |-> Refreshed(b)]
  /\ periodLedger' = [b \in Assignments |-> RefreshedLedger(b)]
  /\ reservation' = [reservation EXCEPT ![j] = [status |-> "reserved", source |-> "personal"]]
  /\ UNCHANGED <<plan, debited, refunded, deducted, customEdit, misreleased, lostEdit>>

ReserveQuota(j) == ReservePersonal(j) \/ \E a \in Assignments : ReservePackage(j, a)

ChargePersonal(j) ==
  /\ j \in PersonalHolds
  /\ wallet' = [wallet EXCEPT !.reserved = AtLeastZero(@ - 1),
                              !.remaining = @ - 1, !.used = @ + 1]
  /\ reservation' = [reservation EXCEPT ![j].status = "charged"]
  /\ debited' = debited \cup {j}
  /\ UNCHANGED <<plan, assignment, refunded, deducted,
                 customEdit, misreleased, periodLedger, lostEdit>>

\* Mutation of Charged: the hold is not dropped.
ChargedKeepingHold(row) == [row EXCEPT !.remaining = AtLeastZero(@ - 1)]

\* A package row that loses one unit to a job that held it; the code floors both.
Charged(row) == [row EXCEPT !.reserved = AtLeastZero(@ - 1), !.remaining = AtLeastZero(@ - 1)]

ChargePackage(j, a) ==
  /\ j \in PackageHolds(a)
  /\ assignment' = [assignment EXCEPT ![a] = Charged(@)]
  /\ reservation' = [reservation EXCEPT ![j].status = "charged"]
  /\ debited' = debited \cup {j}
  /\ periodLedger' = [periodLedger EXCEPT ![a] = @ - 1]
  /\ UNCHANGED <<wallet, plan, refunded, deducted, customEdit, misreleased, lostEdit>>

\* charge_reserved_quota on a reserved unit. A charged one is left alone, and any
\* other state raises, which the caller answers (see JobPipeline).
ChargeReserved(j) == ChargePersonal(j) \/ \E a \in Assignments : ChargePackage(j, a)

\* release_reserved_quota_for_job. If job j holds no unit, yet its row as the
\* caller read it is still queued or submitting without an upstream task
\* ("pending"), the code takes one unit out of the wallet's reserved_quota.
GiveBack(j, pending, status) ==
  /\ reservation[j].status # "none"
  /\ reservation' = [reservation EXCEPT ![j].status = status]
  /\ \/ /\ j \in PersonalHolds
        /\ wallet' = [wallet EXCEPT !.reserved = AtLeastZero(@ - 1)]
        /\ UNCHANGED <<assignment, misreleased>>
     \/ \E a \in Assignments :
          /\ j \in PackageHolds(a)
          /\ assignment' = [assignment EXCEPT ![a].reserved = AtLeastZero(@ - 1)]
          /\ UNCHANGED <<wallet, misreleased>>
     \/ /\ reservation[j].status # "reserved" /\ pending /\ wallet.reserved > 0
        /\ wallet' = [wallet EXCEPT !.reserved = @ - 1]
        /\ misreleased' = misreleased + 1
        /\ UNCHANGED assignment
     \/ /\ reservation[j].status # "reserved" /\ ~(pending /\ wallet.reserved > 0)
        /\ UNCHANGED <<wallet, assignment, misreleased>>
  /\ UNCHANGED <<plan, debited, refunded, deducted, customEdit, periodLedger, lostEdit>>

\* Mutation of ReleaseForJob: a unit that is not held is marked released too.
ReleaseAnyway(j, pending) == GiveBack(j, pending, "released")

ReleaseForJob(j, pending) ==
  GiveBack(j, pending, IF reservation[j].status = "reserved" THEN "released"
                                                              ELSE reservation[j].status)

\* Mutation of DeleteJobQuota: a held unit is not given back.
DeleteWithoutRelease(j, pending) ==
  /\ reservation[j].status # "none"
  /\ reservation' = [reservation EXCEPT ![j].status = "deleted"]
  /\ UNCHANGED <<wallet, plan, assignment, debited, refunded, deducted,
                 customEdit, misreleased, periodLedger, lostEdit>>

\* _delete_job: the reservation row goes with the job, the ledger rows stay.
DeleteJobQuota(j, pending) == GiveBack(j, pending, "deleted")

RefundPersonal(j) ==
  /\ reservation[j] = [status |-> "charged", source |-> "personal"]
  /\ j \in debited /\ j \notin refunded
  /\ wallet' = [wallet EXCEPT !.remaining = @ + 1, !.used = AtLeastZero(@ - 1)]
  /\ reservation' = [reservation EXCEPT ![j].status = "refunded"]
  /\ refunded' = refunded \cup {j}
  /\ UNCHANGED <<plan, assignment, debited, deducted,
                 customEdit, misreleased, periodLedger, lostEdit>>

RefundPackage(j, a) ==
  /\ reservation[j] = [status |-> "charged", source |-> a]
  /\ j \notin refunded
  /\ assignment' = [assignment EXCEPT ![a].remaining = @ + 1]
  /\ reservation' = [reservation EXCEPT ![j].status = "refunded"]
  /\ refunded' = refunded \cup {j}
  /\ periodLedger' = [periodLedger EXCEPT ![a] = @ + 1]
  /\ UNCHANGED <<wallet, plan, debited, deducted, customEdit, misreleased, lostEdit>>

\* refund_failed_job_quota where it pays something back; anywhere else it changes nothing.
RefundFailedJob(j) == RefundPersonal(j) \/ \E a \in Assignments : RefundPackage(j, a)

--------------------------------------------------------------------------------
QuotaInit ==
  /\ wallet = [remaining |-> 0, reserved |-> 0, used |-> 0, granted |-> 0]
  /\ plan \in [Plans -> [active : {TRUE}, amount : 0..MaxAmount]]
  /\ assignment = [a \in Assignments |->
       [status |-> "unbound", remaining |-> 0, reserved |-> 0, custom |-> NoCustom,
        due |-> FALSE]]
  /\ reservation = [j \in Jobs |-> [status |-> "none", source |-> "personal"]]
  /\ debited = {} /\ refunded = {} /\ deducted = 0
  /\ customEdit = NoEdit
  /\ misreleased = 0 /\ lostEdit = {}
  /\ periodLedger = [a \in Assignments |-> 0]

WalletNext == \E n \in 1..MaxGrant : GrantQuota(n) \/ DeductQuota(n)

PackageNext ==
  \/ RefreshDuePackages
  \/ \E a \in Assignments : PeriodEnds(a) \/ BindCheck(a) \/ BindInsert(a) \/ Unbind(a)
                              \/ CustomRead(a)
  \/ \E custom \in CustomAmounts : CustomWrite(custom)
  \/ \E p \in Plans : TogglePlan(p) \/ \E n \in 0..MaxAmount : UpdatePlan(p, n)

JobNext ==
  \E j \in Jobs : \/ ReserveQuota(j) \/ ChargeReserved(j) \/ RefundFailedJob(j)
                  \/ \E pending \in BOOLEAN : ReleaseForJob(j, pending)
                                                \/ DeleteJobQuota(j, pending)

QuotaNext == WalletNext \/ PackageNext \/ JobNext

QuotaSpec == QuotaInit /\ [][QuotaNext]_quotaVars

--------------------------------------------------------------------------------
\* Properties.

\* The columns stay in their ranges; in particular nothing drives a reserved unit
\* count or a package balance below zero (quota_plans.py floors them at each write).
QuotaTypeOK ==
  /\ wallet \in WalletRow
  /\ plan \in [Plans -> PlanRow]
  /\ assignment \in [Assignments -> AssignmentRow]
  /\ reservation \in [Jobs -> ReservationRow]
  /\ debited \subseteq Jobs /\ refunded \subseteq Jobs
  /\ deducted \in Nat /\ misreleased \in Nat
  /\ customEdit \in EditForm \cup {NoEdit}
  /\ periodLedger \in [Assignments -> Int]
  /\ lostEdit \subseteq Assignments

\* reserved_quota of the wallet counts exactly the jobs that hold a personal unit,
\* short of the units some stale delete released on their behalf: no charge,
\* release or delete ever leaves a unit blocked for good.
WalletHolds ==
  /\ wallet.reserved <= Cardinality(PersonalHolds)
  /\ Cardinality(PersonalHolds) <= wallet.reserved + misreleased

\* Every unit the user's jobs hold is covered by the balance, so a charge never
\* overdraws the wallet, whatever grants, deductions and refunds come between.
NoOverdraft == Cardinality(PersonalHolds) <= wallet.remaining + misreleased

\* The wallet covers its jobs, in both columns that charge and release book on.
WalletCovers == WalletHolds /\ NoOverdraft

\* The balance is what the ledger says: grants less deductions less one unit per
\* job charged and not refunded, and total_used counts just those jobs.
WalletMatchesLedger ==
  /\ wallet.used = Cardinality(PersonalRows(debited)) - Cardinality(PersonalRows(refunded))
  /\ wallet.remaining = wallet.granted - deducted - wallet.used

\* A package blocks at most the units its own jobs hold: refreshes, plan edits and
\* unbinding never strand a unit that nobody holds.
PackageHoldsCovered ==
  \A a \in Assignments : assignment[a].reserved <= Cardinality(PackageHolds(a))

\* A package's balance never falls below what its ledger sums to for the period, so
\* the user always gets the units the ledger shows; the one exception is a custom
\* edit that wrote over a booking committed since the form was read.
PackageMatchesLedger ==
  \A a \in Assignments \ lostEdit :
    assignment[a].status \in {"active", "disabled"} => assignment[a].remaining >= periodLedger[a]

\* Wallet and packages agree with the ledger a user is shown, whichever of the two a
\* job was booked on and whatever order charge, refund, deduction and refresh come in.
LedgersMatch == WalletMatchesLedger /\ PackageMatchesLedger

\* The detailed books implement the promise of JobQuota.
Promise == INSTANCE JobQuota WITH
             Packages <- Assignments,
             stage <- [j \in Jobs |-> reservation[j].status],
             source <- [j \in Jobs |-> reservation[j].source],
             balance <- wallet.remaining

PromiseSpec == Promise!Spec
================================================================================
