---------------------------- MODULE BillingProofs ----------------------------
(***************************************************************************)
(* What holds of Billing for every number of plans, payments, refund       *)
(* requests and batch runners, every billing period and every bound.       *)
(***************************************************************************)
EXTENDS Billing, TLAPS

(* The inductive invariant: the properties of the database rows need what   *)
(* LocalsStayTrue says of the values that handlers carry between two        *)
(* statements, and that needs them in turn.                                *)
IInv ==
    /\ TypeOK
    /\ PaidPeriodBounded
    /\ SnapshotIsOlder
    /\ PlanWasPaid
    /\ LedgerNotAhead
    /\ LocalsStayTrue

(* The values that occur have the types they are stored under. *)
LEMMA Types ==
    /\ PaidPlan \subseteq Plan /\ PaidPlan \subseteq OptPaid
    /\ Free \in Plan /\ NoPlan \in OptPaid /\ NoTime \in OptTime
    /\ Nat \subseteq OptTime
    /\ \A q \in Plan : q # Free => q \in PaidPlan
    /\ \A q \in OptPaid : q # NoPlan => q \in PaidPlan
    /\ \A t \in OptTime : t + Month \in OptTime
  BY MaxRankAssumption, MonthAssumption
  DEF PaidPlan, Plan, OptPaid, OptTime, Time, NoPlan, NoTime, Free

LEMMA NoRecords ==
    NoRow \in Row /\ NoConf \in Conf /\ NoRef \in Ref /\ NoTarget \in Target
  BY Types DEF NoRow, NoConf, NoRef, NoTarget, Row, Conf, Ref, Target

LEMMA InitTypeOK == Init => TypeOK
<1> SUFFICES ASSUME Init PROVE TypeOK
  OBVIOUS
<1>1. /\ now \in Time /\ sub \in Row /\ order \in [Pay -> OptPaid]
      /\ approvedAt \in [Pay -> OptTime]
      /\ docAt \in OptTime /\ faults \in Nat
      /\ conf \in [Pay -> Conf] /\ ref \in [Refund -> Ref]
      /\ downgrade \in [Runner -> Target]
  BY Types, NoRecords DEF Init, Time
<1>2. /\ toss \in [Pay -> {"none", "captured", "cancelled"}]
      /\ log \in [Pay -> {"none", "failed", "approved", "refunded"}]
      /\ cancelReq \in BOOLEAN /\ cancellation \in [Runner -> BOOLEAN]
      /\ entryAt \in SUBSET Time
  BY DEF Init
<1> QED BY <1>1, <1>2 DEF TypeOK

LEMMA TypeStep == ASSUME TypeOK, LocalsStayTrue, [Next]_vars PROVE TypeOK'
<1> USE Types, NoRecords DEF TypeOK, usage, money, requests
<1>1. CASE Tick BY <1>1 DEF Tick, Time
<1>2. ASSUME NEW p \in Pay, NEW q \in PaidPlan, HandleBillingCheckout(p, q)
      PROVE  TypeOK'
  BY <1>2 DEF HandleBillingCheckout, Row
<1>3. ASSUME NEW p \in Pay, ConfirmRequest(p) PROVE TypeOK'
  <2>1. EffectivePlan # Free => sub.plan \in PaidPlan
    BY DEF EffectivePlan, EffectivePlanFromRow, Row
  <2> QED BY <1>3, <2>1 DEF ConfirmRequest, Conf, Row, Time
<1>4. ASSUME NEW p \in Pay, TossConfirm(p) PROVE TypeOK'
  BY <1>4 DEF TossConfirm, Conf, Time
<1>5. ASSUME NEW p \in Pay, TossReject(p) PROVE TypeOK'
  BY <1>5 DEF TossReject, Conf
<1>6. ASSUME NEW p \in Pay, ConfirmLogApproved(p) PROVE TypeOK'
  BY <1>6 DEF ConfirmLogApproved, Conf
<1>7. ASSUME NEW p \in Pay, ConfirmLogFailed(p) PROVE TypeOK'
  BY <1>7 DEF ConfirmLogFailed
<1>8. ASSUME NEW p \in Pay, ConfirmSchedule(p) PROVE TypeOK'
  BY <1>8 DEF ConfirmSchedule, Row
<1>9. ASSUME NEW p \in Pay, ConfirmActivate(p) PROVE TypeOK'
  <2>1. order[p] \in PaidPlan
    BY <1>9 DEF ConfirmActivate, LocalsStayTrue, ConfirmLocals
  <2> QED BY <1>9, <2>1 DEF ConfirmActivate, Row, Conf
<1>10. CASE HandleCancelDowngrade BY <1>10 DEF HandleCancelDowngrade, Row
<1>11. CASE CancelRenewalFetch BY <1>11 DEF CancelRenewalFetch
<1>12. CASE CancelRenewalUpdate BY <1>12 DEF CancelRenewalUpdate, Row
<1>13. CASE HandleResumeRenewal BY <1>13 DEF HandleResumeRenewal, Row
<1>14. ASSUME NEW r \in Refund, RefundCheck(r) PROVE TypeOK'
  <2>1. sub.plan \in OptPaid
    BY <1>14 DEF RefundCheck, ActivePaid, Row
  <2>2. ref' \in [Refund -> Ref]
    BY <1>14, <2>1 DEF RefundCheck, Ref
  <2> QED BY <1>14, <2>2 DEF RefundCheck
<1>15. ASSUME NEW r \in Refund, RefundPick(r) PROVE TypeOK'
  <2>1. PICK p \in Pay :
          ref' = [ref EXCEPT ![r].phase = "picked", ![r].pay = p]
    BY <1>15 DEF RefundPick, Latest, ApprovedOf
  <2>2. ref' \in [Refund -> Ref]
    BY <2>1 DEF Ref
  <2> QED BY <1>15, <2>2 DEF RefundPick
<1>16. ASSUME NEW r \in Refund, RefundNothing(r) PROVE TypeOK'
  BY <1>16 DEF RefundNothing
<1>17. ASSUME NEW r \in Refund, TossCancel(r) PROVE TypeOK'
  <2>1. toss' \in [Pay -> {"none", "captured", "cancelled"}]
    BY <1>17 DEF TossCancel
  <2>2. ref' \in [Refund -> Ref]
    BY <1>17 DEF TossCancel, Ref
  <2> QED BY <1>17, <2>1, <2>2 DEF TossCancel
<1>18. ASSUME NEW r \in Refund, TossCancelReject(r) PROVE TypeOK'
  BY <1>18 DEF TossCancelReject
<1>19. ASSUME NEW r \in Refund, RefundLog(r) PROVE TypeOK'
  BY <1>19 DEF RefundLog, Ref, Time
<1>20. ASSUME NEW r \in Refund, RefundFallback(r) PROVE TypeOK'
  <2>1. BestValidPriorPayment(ref[r].at) \subseteq Pay
    BY DEF BestValidPriorPayment, ValidPayments, Latest
  <2>2. ASSUME NEW p \in Pay,
               ref' = [ref EXCEPT ![r].phase = "found",
                                  ![r].backPlan = order[p],
                                  ![r].backAt = approvedAt[p]]
        PROVE  ref' \in [Refund -> Ref]
    <3>1. order[p] \in OptPaid /\ approvedAt[p] \in OptTime /\ ref[r] \in Ref
      OBVIOUS
    <3>2. [ref[r] EXCEPT !.phase = "found", !.backPlan = order[p],
                         !.backAt = approvedAt[p]] \in Ref
      BY <3>1 DEF Ref
    <3> QED BY <2>2, <3>2
  <2>3. ASSUME ref' = [ref EXCEPT ![r].phase = "found"]
        PROVE  ref' \in [Refund -> Ref]
    BY <2>3 DEF Ref
  <2>4. ref' \in [Refund -> Ref]
    BY <1>20, <2>1, <2>2, <2>3 DEF RefundFallback
  <2> QED BY <1>20, <2>4 DEF RefundFallback
<1>21. ASSUME NEW r \in Refund, RefundRestore(r) PROVE TypeOK'
  <2>1. ref[r] \in Ref
    OBVIOUS
  <2>2. RefundedRow(ref[r]) \in Row
    BY <2>1 DEF RefundedRow, Row, Ref
  <2> QED BY <1>21, <2>2 DEF RefundRestore
<1>22. ASSUME NEW b \in Runner, DowngradeSelect(b) PROVE TypeOK'
  BY <1>22 DEF DowngradeSelect, Row, Target
<1>23. ASSUME NEW b \in Runner, DowngradeUpdate(b) PROVE TypeOK'
  <2>1. downgrade[b].plan \in PaidPlan
    BY <1>23 DEF DowngradeUpdate, LocalsStayTrue, BatchLocals
  <2> QED BY <1>23, <2>1 DEF DowngradeUpdate, Row, Target
<1>24. ASSUME NEW b \in Runner, CancellationSelect(b) PROVE TypeOK'
  BY <1>24 DEF CancellationSelect
<1>25. ASSUME NEW b \in Runner, CancellationUpdate(b) PROVE TypeOK'
  BY <1>25 DEF CancellationUpdate, Row, Time
<1>26. CASE UploadDocument BY <1>26 DEF UploadDocument, Time
<1>27. CASE CreatePipelineEntry BY <1>27 DEF CreatePipelineEntry, Time
<1>28. CASE HandleDeletePipelineEntry BY <1>28 DEF HandleDeletePipelineEntry
<1>29. ASSUME NEW p \in Pay, TossConfirmTimeout(p) PROVE TypeOK'
  BY <1>29 DEF TossConfirmTimeout, TossActsUnheard, Fault, Conf, Time
<1>30. ASSUME NEW p \in Pay, ConfirmLogLost(p) PROVE TypeOK'
  BY <1>30 DEF ConfirmLogLost, Fault, Conf
<1>31. ASSUME NEW p \in Pay, ConfirmAbort(p) PROVE TypeOK'
  BY <1>31 DEF ConfirmAbort, TossActsUnheard, Fault, Time
<1>32. ASSUME NEW r \in Refund, RefundAbort(r) PROVE TypeOK'
  BY <1>32 DEF RefundAbort, TossActsUnheard, Fault, Time
<1>33. ASSUME NEW r \in Refund, RefundFallbackLost(r) PROVE TypeOK'
  BY <1>33 DEF RefundFallbackLost, Fault, Ref
<1>34. CASE Restart
  <2>1. /\ toss' \in [Pay -> {"none", "captured", "cancelled"}]
        /\ approvedAt' \in [Pay -> OptTime]
    BY <1>34 DEF Restart, TossActsUnheard, Time
  <2>2. /\ conf' \in [Pay -> Conf] /\ ref' \in [Refund -> Ref]
        /\ downgrade' \in [Runner -> Target]
        /\ cancellation' \in [Runner -> BOOLEAN]
        /\ cancelReq' \in BOOLEAN
    BY <1>34 DEF Restart
  <2>3. faults' \in Nat
    BY <1>34 DEF Restart, Fault
  <2> QED BY <1>34, <2>1, <2>2, <2>3 DEF Restart
<1>35. CASE UNCHANGED vars BY <1>35 DEF vars
<1>36. CASE CancelRenewalAbort
  <2>1. faults' \in Nat
    BY <1>36 DEF CancelRenewalAbort, Fault
  <2>2. cancelReq' \in BOOLEAN
    BY <1>36 DEF CancelRenewalAbort
  <2> QED BY <1>36, <2>1, <2>2 DEF CancelRenewalAbort
<1>37. ASSUME NEW b \in Runner, BatchAbort(b) PROVE TypeOK'
  <2>1. faults' \in Nat
    BY <1>37 DEF BatchAbort, Fault
  <2>2. /\ downgrade' \in [Runner -> Target]
        /\ cancellation' \in [Runner -> BOOLEAN]
    BY <1>37 DEF BatchAbort
  <2> QED BY <1>37, <2>1, <2>2 DEF BatchAbort
<1> QED
  BY <1>1, <1>2, <1>3, <1>4, <1>5, <1>6, <1>7, <1>8, <1>9, <1>10, <1>11, <1>12,
     <1>13, <1>14, <1>15, <1>16, <1>17, <1>18, <1>19, <1>20, <1>21, <1>22,
     <1>23, <1>24, <1>25, <1>26, <1>27, <1>28, <1>29, <1>30, <1>31, <1>32,
     <1>33, <1>34, <1>35, <1>36, <1>37
  DEF Next, ConfirmNext, RefundNext, BatchNext

-----------------------------------------------------------------------------
(* An order keeps its plan, money that moved stays moved, a payment that    *)
(* was given back stays so, and only a logged payment is given back.       *)
LEMMA MoneyKept ==
    ASSUME IInv, [Next]_vars, NEW p \in Pay
    PROVE  /\ order[p] # NoPlan => order'[p] = order[p]
           /\ toss[p] # "none" => /\ toss'[p] # "none"
                                  /\ approvedAt'[p] = approvedAt[p]
           /\ toss[p] = "none" /\ toss'[p] # "none" => approvedAt'[p] = now
           /\ toss[p] = "cancelled" => toss'[p] = "cancelled"
           /\ toss[p] = "captured" /\ toss'[p] # "captured" =>
                  log[p] \in {"approved", "refunded"}
<1> USE DEF IInv
<1> DEFINE Kept == /\ order[p] # NoPlan => order'[p] = order[p]
                   /\ toss[p] # "none" => /\ toss'[p] # "none"
                                          /\ approvedAt'[p] = approvedAt[p]
                   /\ toss[p] = "none" /\ toss'[p] # "none" => approvedAt'[p] = now
                   /\ toss[p] = "cancelled" => toss'[p] = "cancelled"
                   /\ toss[p] = "captured" /\ toss'[p] # "captured" =>
                          log[p] \in {"approved", "refunded"}
<1>1. UNCHANGED money => Kept
  BY DEF money
<1>2. ASSUME NEW o \in Pay, NEW q \in PaidPlan, HandleBillingCheckout(o, q)
      PROVE  Kept
  BY <1>2 DEF HandleBillingCheckout, TypeOK
<1>3. ASSUME NEW o \in Pay, TossConfirm(o) PROVE Kept
  BY <1>3 DEF TossConfirm, TypeOK
<1>4. ASSUME NEW r \in Refund, TossCancel(r) PROVE Kept
  BY <1>4 DEF TossCancel, TypeOK, LocalsStayTrue, RefundLocals
<1>5. ASSUME NEW o \in Pay, TossConfirmTimeout(o) PROVE Kept
  BY <1>5 DEF TossConfirmTimeout, TossActsUnheard
<1>6. ASSUME NEW o \in Pay, ConfirmAbort(o) PROVE Kept
  BY <1>6 DEF ConfirmAbort, TossActsUnheard
<1>7. ASSUME NEW r \in Refund, RefundAbort(r) PROVE Kept
  BY <1>7 DEF RefundAbort, TossActsUnheard, LocalsStayTrue, RefundLocals
<1>8. CASE Restart
  BY <1>8 DEF Restart, TossActsUnheard, LocalsStayTrue, RefundLocals
<1>9. ASSUME NEW o \in Pay,
             \/ ConfirmRequest(o) \/ TossReject(o)
             \/ ConfirmLogApproved(o) \/ ConfirmLogFailed(o)
             \/ ConfirmSchedule(o) \/ ConfirmActivate(o) \/ ConfirmLogLost(o)
      PROVE  UNCHANGED money
  BY <1>9 DEF ConfirmRequest, TossReject, ConfirmLogApproved, ConfirmLogFailed,
              ConfirmSchedule, ConfirmActivate, ConfirmLogLost, money
<1>10. ASSUME NEW r \in Refund,
              \/ RefundCheck(r) \/ RefundPick(r) \/ RefundNothing(r)
              \/ TossCancelReject(r) \/ RefundLog(r) \/ RefundFallback(r)
              \/ RefundRestore(r) \/ RefundFallbackLost(r)
       PROVE  UNCHANGED money
  BY <1>10 DEF RefundCheck, RefundPick, RefundNothing, TossCancelReject,
               RefundLog, RefundFallback, RefundRestore, RefundFallbackLost,
               money
<1>11. ASSUME NEW b \in Runner, BatchNext(b) PROVE UNCHANGED money
  BY <1>11 DEF BatchNext, DowngradeSelect, DowngradeUpdate, CancellationSelect,
               CancellationUpdate, BatchAbort, money
<1>12. ASSUME \/ Tick \/ HandleCancelDowngrade \/ CancelRenewalFetch
              \/ CancelRenewalUpdate \/ HandleResumeRenewal \/ UploadDocument
              \/ CreatePipelineEntry \/ HandleDeletePipelineEntry
              \/ CancelRenewalAbort
              \/ UNCHANGED vars
       PROVE  UNCHANGED money
  BY <1>12 DEF Tick, HandleCancelDowngrade, CancelRenewalFetch,
               CancelRenewalUpdate, HandleResumeRenewal, UploadDocument,
               CreatePipelineEntry, HandleDeletePipelineEntry, CancelRenewalAbort, vars, money
<1> QED
  BY <1>1, <1>2, <1>3, <1>4, <1>5, <1>6, <1>7, <1>8, <1>9, <1>10, <1>11, <1>12
  DEF Next, ConfirmNext, RefundNext

LEMMA PaidKept ==
    ASSUME IInv, [Next]_vars, NEW q \in PaidPlan, Paid(q)
    PROVE  Paid(q)'
<1>1. PICK p \in Pay : order[p] = q /\ toss[p] # "none"
  BY DEF Paid
<1>2. order[p] # NoPlan
  BY <1>1 DEF PaidPlan, NoPlan
<1> QED BY <1>1, <1>2, MoneyKept DEF Paid

-----------------------------------------------------------------------------
(* The statements that write the subscriptions row; the clock stands still  *)
(* in all of them.                                                         *)
RowWrite ==
    \/ \E p \in Pay : \/ \E q \in PaidPlan : HandleBillingCheckout(p, q)
                      \/ ConfirmSchedule(p) \/ ConfirmActivate(p)
    \/ HandleCancelDowngrade \/ CancelRenewalUpdate \/ HandleResumeRenewal
    \/ \E r \in Refund : RefundRestore(r)
    \/ \E b \in Runner : DowngradeUpdate(b) \/ CancellationUpdate(b)

LEMMA RowSteps ==
    ASSUME [Next]_vars
    PROVE  Tick \/ RowWrite \/ UNCHANGED <<now, sub>>
<1>1. ASSUME NEW o \in Pay,
             \/ ConfirmRequest(o) \/ TossConfirm(o) \/ TossReject(o)
             \/ ConfirmLogApproved(o) \/ ConfirmLogFailed(o)
             \/ TossConfirmTimeout(o) \/ ConfirmLogLost(o) \/ ConfirmAbort(o)
      PROVE  UNCHANGED <<now, sub>>
  BY <1>1 DEF ConfirmRequest, TossConfirm, TossReject, ConfirmLogApproved,
              ConfirmLogFailed, TossConfirmTimeout, ConfirmLogLost, ConfirmAbort
<1>2. ASSUME NEW r \in Refund,
             \/ RefundCheck(r) \/ RefundPick(r) \/ RefundNothing(r)
             \/ TossCancel(r) \/ TossCancelReject(r) \/ RefundLog(r)
             \/ RefundFallback(r) \/ RefundAbort(r) \/ RefundFallbackLost(r)
      PROVE  UNCHANGED <<now, sub>>
  BY <1>2 DEF RefundCheck, RefundPick, RefundNothing, TossCancel,
              TossCancelReject, RefundLog, RefundFallback, RefundAbort,
              RefundFallbackLost
<1>3. ASSUME NEW b \in Runner,
             DowngradeSelect(b) \/ CancellationSelect(b) \/ BatchAbort(b)
      PROVE  UNCHANGED <<now, sub>>
  BY <1>3 DEF DowngradeSelect, CancellationSelect, BatchAbort
<1>4. ASSUME \/ CancelRenewalFetch \/ UploadDocument \/ CreatePipelineEntry
             \/ HandleDeletePipelineEntry \/ CancelRenewalAbort
             \/ Restart \/ UNCHANGED vars
      PROVE  UNCHANGED <<now, sub>>
  BY <1>4 DEF CancelRenewalFetch, UploadDocument, CreatePipelineEntry,
              HandleDeletePipelineEntry, CancelRenewalAbort, Restart, vars
<1> QED
  BY <1>1, <1>2, <1>3, <1>4
  DEF Next, ConfirmNext, RefundNext, BatchNext, RowWrite

(* The three invariants of the row, together. *)
RowInv == PaidPeriodBounded /\ SnapshotIsOlder /\ PlanWasPaid

LEMMA RowStep == ASSUME IInv, [Next]_vars PROVE RowInv'
<1> USE MaxRankAssumption, MonthAssumption
    DEF Free, NoPlan, NoTime, PaidPlan, Plan, OptPaid, OptTime, Time
<1>0. TypeOK /\ TypeOK'
  BY TypeStep DEF IInv
<1>p. \A q \in PaidPlan : Paid(q) => Paid(q)'
  BY <1>0, PaidKept
<1>s. /\ sub.plan \in Plan /\ sub.pending \in OptPaid
      /\ sub.prevPlan \in OptPaid /\ sub.started \in OptTime
      /\ sub.expires \in OptTime /\ sub.prevExpires \in OptTime /\ now \in Time
  BY <1>0 DEF TypeOK, Row
<1>1. ASSUME Tick PROVE RowInv'
  <2>1. now' = now + 1 /\ sub' = sub
    BY <1>1 DEF Tick
  <2>2. PaidPeriodBounded'
    BY <1>s, <2>1 DEF IInv, PaidPeriodBounded
  <2>3. SnapshotIsOlder'
    BY <2>1 DEF IInv, SnapshotIsOlder
  <2>4. PlanWasPaid'
    BY <1>p, <2>1 DEF IInv, PlanWasPaid
  <2> QED BY <2>2, <2>3, <2>4 DEF RowInv
<1>2. ASSUME UNCHANGED <<now, sub>> PROVE RowInv'
  BY <1>2, <1>p DEF RowInv, IInv, PaidPeriodBounded, SnapshotIsOlder, PlanWasPaid
<1>3. ASSUME NEW p \in Pay, NEW q \in PaidPlan, HandleBillingCheckout(p, q)
      PROVE  RowInv'
  <2>1. CASE sub.status = "none"
    <3>1. sub' = [sub EXCEPT !.status = "pending", !.plan = q]
      BY <1>3, <2>1 DEF HandleBillingCheckout
    <3>2. /\ sub'.status = "pending" /\ sub'.pending = sub.pending
          /\ sub'.prevPlan = sub.prevPlan
      BY <3>1, <1>0 DEF TypeOK, Row
    <3>3. sub.prevPlan = NoPlan
      BY <2>1 DEF IInv, SnapshotIsOlder
    <3> QED BY <3>2, <3>3, <1>p
            DEF RowInv, IInv, PaidPeriodBounded, SnapshotIsOlder, PlanWasPaid
  <2>2. CASE sub.status # "none"
    <3>1. UNCHANGED <<now, sub>>
      BY <1>3, <2>2 DEF HandleBillingCheckout
    <3> QED BY <3>1, <1>2
  <2> QED BY <2>1, <2>2
<1>4. ASSUME NEW p \in Pay, ConfirmSchedule(p) PROVE RowInv'
  <2>1. /\ sub' = [sub EXCEPT !.pending = order[p]] /\ now' = now
        /\ UNCHANGED <<order, toss>>
        /\ conf[p].phase = "logged"
    BY <1>4 DEF ConfirmSchedule, money
  <2>2. Paid(order[p])'
    BY <2>1 DEF IInv, LocalsStayTrue, ConfirmLocals, Paid
  <2>3. /\ sub'.plan = sub.plan /\ sub'.status = sub.status
        /\ sub'.started = sub.started /\ sub'.expires = sub.expires
        /\ sub'.prevPlan = sub.prevPlan /\ sub'.prevExpires = sub.prevExpires
        /\ sub'.pending = order[p]
    BY <2>1, <1>0 DEF TypeOK, Row
  <2> QED BY <2>1, <2>2, <2>3, <1>p
          DEF RowInv, IInv, PaidPeriodBounded, SnapshotIsOlder, PlanWasPaid
<1>5. ASSUME NEW p \in Pay, ConfirmActivate(p) PROVE RowInv'
  <2>1. /\ conf[p].phase = "logged" /\ ~conf[p].downgrade /\ now' = now
        /\ UNCHANGED <<order, toss>>
    BY <1>5 DEF ConfirmActivate, money
  <2>2. /\ sub'.plan = order[p] /\ sub'.status = "active"
        /\ sub'.started = conf[p].at /\ sub'.expires = conf[p].at + Month
        /\ sub'.pending = NoPlan /\ sub'.prevPlan = conf[p].prevPlan
        /\ sub'.prevExpires = conf[p].prevExpires
    BY <1>5, <1>0 DEF ConfirmActivate, TypeOK, Row
  <2>3. Paid(order[p])'
    BY <2>1 DEF IInv, LocalsStayTrue, ConfirmLocals, Paid
  <2>4. /\ conf[p].at \in 0 .. now
        /\ conf[p].prevPlan # NoPlan =>
              /\ conf[p].prevPlan <= order[p]
              /\ conf[p].prevExpires # NoTime
              /\ conf[p].prevExpires <= conf[p].at + Month
    BY <2>1 DEF IInv, LocalsStayTrue, ConfirmLocals
  <2> QED BY <2>1, <2>2, <2>3, <2>4
          DEF RowInv, PaidPeriodBounded, SnapshotIsOlder, PlanWasPaid
<1>6. ASSUME HandleCancelDowngrade \/ CancelRenewalUpdate \/ HandleResumeRenewal
      PROVE  RowInv'
  <2>0. /\ \/ sub' = [sub EXCEPT !.pending = NoPlan]
           \/ sub' = [sub EXCEPT !.cancel = TRUE, !.pending = NoPlan]
           \/ sub' = [sub EXCEPT !.cancel = FALSE]
        /\ now' = now
    BY <1>6 DEF HandleCancelDowngrade, CancelRenewalUpdate, HandleResumeRenewal
  <2>1. /\ sub'.plan = sub.plan /\ sub'.status = sub.status
        /\ sub'.started = sub.started /\ sub'.expires = sub.expires
        /\ sub'.prevPlan = sub.prevPlan /\ sub'.prevExpires = sub.prevExpires
        /\ sub'.pending = sub.pending \/ sub'.pending = NoPlan
        /\ now' = now
    <3>1. CASE sub' = [sub EXCEPT !.pending = NoPlan]
      BY <2>0, <3>1, <1>0 DEF TypeOK, Row
    <3>2. CASE sub' = [sub EXCEPT !.cancel = TRUE, !.pending = NoPlan]
      BY <2>0, <3>2, <1>0 DEF TypeOK, Row
    <3>3. CASE sub' = [sub EXCEPT !.cancel = FALSE]
      BY <2>0, <3>3, <1>0 DEF TypeOK, Row
    <3> QED BY <2>0, <3>1, <3>2, <3>3
  <2> QED BY <2>1, <1>p
          DEF RowInv, IInv, PaidPeriodBounded, SnapshotIsOlder, PlanWasPaid
<1>7. ASSUME NEW r \in Refund, RefundRestore(r) PROVE RowInv'
  <2>1. /\ ref[r].phase = "found" /\ sub' = RefundedRow(ref[r]) /\ now' = now
        /\ UNCHANGED <<order, toss>>
    BY <1>7 DEF RefundRestore, money
  <2>2. sub'.pending = NoPlan /\ sub'.prevPlan = NoPlan
    BY <2>1, <1>0 DEF RefundedRow, TypeOK, Row
  <2>3. CASE ref[r].backPlan = NoPlan
    <3>1. sub'.plan = Free
      BY <2>1, <2>3, <1>0 DEF RefundedRow, TypeOK, Row
    <3> QED BY <2>2, <3>1
            DEF RowInv, PaidPeriodBounded, SnapshotIsOlder, PlanWasPaid
  <2>4. CASE ref[r].backPlan # NoPlan
    <3>1. /\ sub'.plan = ref[r].backPlan /\ sub'.started = ref[r].backAt
          /\ sub'.expires = ref[r].backAt + Month
      BY <2>1, <2>4, <1>0 DEF RefundedRow, TypeOK, Row
    <3>2. ref[r].backAt \in 0 .. now /\ Paid(ref[r].backPlan)
      BY <2>4 DEF IInv, LocalsStayTrue, RefundLocals
    <3> QED BY <2>1, <2>2, <3>1, <3>2
            DEF RowInv, PaidPeriodBounded, SnapshotIsOlder, PlanWasPaid, Paid
  <2> QED BY <2>3, <2>4
<1>8. ASSUME NEW b \in Runner, DowngradeUpdate(b) PROVE RowInv'
  <2>1. downgrade[b] # NoTarget /\ now' = now /\ UNCHANGED <<order, toss>>
    BY <1>8 DEF DowngradeUpdate, money
  <2>2. /\ sub'.plan = downgrade[b].plan /\ sub'.started = downgrade[b].expires
        /\ sub'.expires = downgrade[b].expires + Month
        /\ sub'.pending = NoPlan /\ sub'.prevPlan = NoPlan
    BY <1>8, <1>0 DEF DowngradeUpdate, TypeOK, Row
  <2>3. downgrade[b].expires \in 0 .. now /\ Paid(downgrade[b].plan)
    BY <2>1 DEF IInv, LocalsStayTrue, BatchLocals
  <2> QED BY <2>1, <2>2, <2>3
          DEF RowInv, PaidPeriodBounded, SnapshotIsOlder, PlanWasPaid, Paid
<1>9. ASSUME NEW b \in Runner, CancellationUpdate(b) PROVE RowInv'
  <2>1. /\ sub'.plan = Free /\ sub'.prevPlan = NoPlan
        /\ sub'.pending = sub.pending
    BY <1>9, <1>0 DEF CancellationUpdate, TypeOK, Row
  <2> QED BY <2>1, <1>p
          DEF RowInv, IInv, PaidPeriodBounded, SnapshotIsOlder, PlanWasPaid
<1> QED
  BY RowSteps, <1>1, <1>2, <1>3, <1>4, <1>5, <1>6, <1>7, <1>8, <1>9 DEF RowWrite

-----------------------------------------------------------------------------
(* payment_log follows Toss. *)
LEMMA LedgerStep ==
    ASSUME IInv, LedgerComplete, [Next]_vars
    PROVE  LedgerNotAhead' /\ LedgerComplete'
<1> USE DEF IInv, TypeOK, LedgerNotAhead
<1> DEFINE Goal == LedgerNotAhead' /\ LedgerComplete'
<1>1. ASSUME UNCHANGED <<toss, log, conf, ref, faults>> PROVE Goal
  BY <1>1 DEF LedgerComplete
<1>2. ASSUME NEW o \in Pay, ConfirmRequest(o) PROVE Goal
  BY <1>2 DEF ConfirmRequest, LedgerComplete, money, Conf
<1>3. ASSUME NEW o \in Pay, TossConfirm(o) PROVE Goal
  BY <1>3 DEF TossConfirm, LedgerComplete, Conf
<1>4. ASSUME NEW o \in Pay, TossReject(o) PROVE Goal
  BY <1>4 DEF TossReject, LedgerComplete, money, Conf
<1>5. ASSUME NEW o \in Pay, ConfirmLogApproved(o) PROVE Goal
  BY <1>5 DEF ConfirmLogApproved, LedgerComplete, LocalsStayTrue,
              ConfirmLocals, money, Conf
<1>6. ASSUME NEW o \in Pay, ConfirmLogFailed(o) PROVE Goal
  BY <1>6 DEF ConfirmLogFailed, LedgerComplete, money, Conf
<1>7. ASSUME NEW o \in Pay, ConfirmSchedule(o) \/ ConfirmActivate(o) PROVE Goal
  BY <1>7 DEF ConfirmSchedule, ConfirmActivate, LedgerComplete, money, Conf
<1>8. ASSUME NEW r \in Refund,
             RefundCheck(r) \/ RefundNothing(r) \/ TossCancelReject(r) \/ RefundRestore(r)
      PROVE  Goal
  BY <1>8 DEF RefundCheck, RefundNothing, TossCancelReject, RefundRestore,
              LedgerComplete, money, Ref
<1>9. ASSUME NEW r \in Refund, RefundPick(r) PROVE Goal
  <2>1. UNCHANGED <<toss, log, conf, faults>> /\ ref[r].phase = "checked"
    BY <1>9 DEF RefundPick, money
  <2>2. \A s \in Refund : s # r => ref'[s] = ref[s]
    BY <1>9 DEF RefundPick
  <2> QED BY <2>1, <2>2 DEF LedgerComplete
<1>10. ASSUME NEW r \in Refund, TossCancel(r) PROVE Goal
  BY <1>10 DEF TossCancel, LedgerComplete, LocalsStayTrue, RefundLocals, Ref
<1>11. ASSUME NEW r \in Refund, RefundLog(r) PROVE Goal
  <2>1. /\ log' = [log EXCEPT ![ref[r].pay] = "refunded"]
        /\ UNCHANGED <<toss, conf, faults>>
        /\ ref[r].pay \in Pay /\ toss[ref[r].pay] = "cancelled"
    BY <1>11 DEF RefundLog, LocalsStayTrue, RefundLocals, money
  <2>2. \A s \in Refund : s # r => ref'[s] = ref[s]
    BY <1>11 DEF RefundLog
  <2>3. LedgerNotAhead'
    BY <2>1
  <2>4. \A p \in Pay : p # ref[r].pay => log'[p] = log[p]
    BY <2>1
  <2>5. log'[ref[r].pay] = "refunded"
    BY <2>1
  <2>6. LedgerComplete'
    BY <2>1, <2>2, <2>4, <2>5 DEF LedgerComplete
  <2> QED BY <2>3, <2>6
<1>12. ASSUME NEW r \in Refund, RefundFallback(r) PROVE Goal
  <2>1. UNCHANGED <<toss, log, conf, faults>> /\ ref[r].phase = "logged"
    BY <1>12 DEF RefundFallback, money
  <2>2. \A s \in Refund : s # r => ref'[s] = ref[s]
    BY <1>12 DEF RefundFallback
  <2> QED BY <2>1, <2>2 DEF LedgerComplete
<1>13. ASSUME NEW o \in Pay, TossConfirmTimeout(o) \/ ConfirmAbort(o) PROVE Goal
  BY <1>13 DEF TossConfirmTimeout, ConfirmAbort, TossActsUnheard, Fault,
               LedgerComplete
<1>14. ASSUME NEW o \in Pay, ConfirmLogLost(o) PROVE Goal
  BY <1>14 DEF ConfirmLogLost, Fault, LedgerComplete, money
<1>15. ASSUME NEW r \in Refund, RefundAbort(r) PROVE Goal
  BY <1>15 DEF RefundAbort, TossActsUnheard, Fault, LedgerComplete
<1>16. ASSUME NEW r \in Refund, RefundFallbackLost(r) PROVE Goal
  BY <1>16 DEF RefundFallbackLost, Fault, LedgerComplete, money
<1>17. ASSUME Restart PROVE Goal
  BY <1>17 DEF Restart, TossActsUnheard, Fault, LedgerComplete
<1>18. ASSUME \/ CancelRenewalAbort
              \/ \E b \in Runner : BatchAbort(b)
       PROVE  Goal
  <2>1. UNCHANGED <<toss, log, conf, ref>> /\ faults' = faults + 1
    BY <1>18 DEF CancelRenewalAbort, BatchAbort, Fault, money
  <2> QED BY <2>1 DEF LedgerComplete
<1>19. ASSUME \/ \E p \in Pay, q \in PaidPlan : HandleBillingCheckout(p, q)
              \/ \E b \in Runner : \/ DowngradeSelect(b) \/ DowngradeUpdate(b)
                                    \/ CancellationSelect(b)
                                    \/ CancellationUpdate(b)
              \/ Tick \/ HandleCancelDowngrade \/ CancelRenewalFetch
              \/ CancelRenewalUpdate \/ HandleResumeRenewal \/ UploadDocument
              \/ CreatePipelineEntry \/ HandleDeletePipelineEntry
              \/ UNCHANGED vars
       PROVE  UNCHANGED <<toss, log, conf, ref, faults>>
  BY <1>19 DEF HandleBillingCheckout, DowngradeSelect,
       DowngradeUpdate, CancellationSelect, CancellationUpdate, Tick,
       HandleCancelDowngrade, CancelRenewalFetch, CancelRenewalUpdate,
       HandleResumeRenewal, UploadDocument, CreatePipelineEntry,
       HandleDeletePipelineEntry, vars, money, requests
<1> QED
  BY <1>1, <1>2, <1>3, <1>4, <1>5, <1>6, <1>7, <1>8, <1>9, <1>10, <1>11, <1>12,
     <1>13, <1>14, <1>15, <1>16, <1>17, <1>18, <1>19
  DEF Next, ConfirmNext, RefundNext, BatchNext

-----------------------------------------------------------------------------
(* The local variables of the three kinds of actor, one lemma each.  Facts  *)
(* about what the others do: the clock does not go back, money and orders   *)
(* are kept (MoneyKept), and payment_log keeps what is approved.           *)
LEMMA ClockKept ==
    ASSUME TypeOK, [Next]_vars PROVE now' \in Nat /\ now <= now'
<1>1. Tick => now' = now + 1
  BY DEF Tick
<1>2. RowWrite => now' = now
  BY DEF RowWrite, HandleBillingCheckout, ConfirmSchedule, ConfirmActivate,
         HandleCancelDowngrade, CancelRenewalUpdate, HandleResumeRenewal,
         RefundRestore, DowngradeUpdate, CancellationUpdate
<1> QED BY <1>1, <1>2, RowSteps DEF TypeOK, Time

(* payment_log rows that are final stay final, and only the confirmation of *)
(* a payment makes its row final.                                          *)
LEMMA LogKept ==
    ASSUME IInv, [Next]_vars, NEW p \in Pay
    PROVE  /\ log[p] \in {"approved", "refunded"} =>
                  log'[p] \in {"approved", "refunded"}
           /\ log[p] \in {"none", "failed"} /\ conf'[p].phase = "approved" =>
                  log'[p] \in {"none", "failed"}
<1> DEFINE Kept == /\ log[p] \in {"approved", "refunded"} =>
                          log'[p] \in {"approved", "refunded"}
                   /\ log[p] \in {"none", "failed"} /\ conf'[p].phase = "approved" =>
                          log'[p] \in {"none", "failed"}
<1>1. UNCHANGED log => Kept
  OBVIOUS
<1>2. ASSUME NEW o \in Pay, ConfirmLogApproved(o) PROVE Kept
  BY <1>2 DEF ConfirmLogApproved, IInv, TypeOK, Conf
<1>p. ASSUME NEW o \in Pay, ConfirmLogFailed(o) PROVE Kept
  BY <1>p DEF ConfirmLogFailed, IInv, TypeOK
<1>3. ASSUME NEW r \in Refund, RefundLog(r) PROVE Kept
  BY <1>3 DEF RefundLog, IInv, TypeOK, LocalsStayTrue, RefundLocals
<1>4. ASSUME NEW o \in Pay,
             \/ \E q \in PaidPlan : HandleBillingCheckout(o, q)
             \/ ConfirmRequest(o) \/ TossConfirm(o) \/ TossReject(o)
             \/ ConfirmSchedule(o) \/ ConfirmActivate(o)
             \/ TossConfirmTimeout(o) \/ ConfirmLogLost(o) \/ ConfirmAbort(o)
      PROVE  UNCHANGED log
  BY <1>4 DEF HandleBillingCheckout, ConfirmRequest, TossConfirm, TossReject,
              ConfirmSchedule, ConfirmActivate, TossConfirmTimeout,
              ConfirmLogLost, ConfirmAbort
<1>5. ASSUME NEW r \in Refund,
             \/ RefundCheck(r) \/ RefundPick(r) \/ RefundNothing(r)
             \/ TossCancel(r) \/ TossCancelReject(r) \/ RefundFallback(r)
             \/ RefundRestore(r) \/ RefundAbort(r) \/ RefundFallbackLost(r)
      PROVE  UNCHANGED log
  BY <1>5 DEF RefundCheck, RefundPick, RefundNothing, TossCancel,
              TossCancelReject, RefundFallback, RefundRestore, RefundAbort,
              RefundFallbackLost
<1>6. ASSUME \/ \E b \in Runner : BatchNext(b)
             \/ Tick \/ HandleCancelDowngrade \/ CancelRenewalFetch
             \/ CancelRenewalUpdate \/ HandleResumeRenewal \/ UploadDocument
             \/ CreatePipelineEntry \/ HandleDeletePipelineEntry
             \/ CancelRenewalAbort
             \/ Restart \/ UNCHANGED vars
      PROVE  UNCHANGED log
  BY <1>6 DEF BatchNext, DowngradeSelect, DowngradeUpdate, CancellationSelect,
              CancellationUpdate, BatchAbort, Tick, HandleCancelDowngrade,
              CancelRenewalFetch, CancelRenewalUpdate, HandleResumeRenewal,
              UploadDocument, CreatePipelineEntry, HandleDeletePipelineEntry, CancelRenewalAbort,
              Restart, vars
<1> QED
  BY <1>1, <1>2, <1>p, <1>3, <1>4, <1>5, <1>6 DEF Next, ConfirmNext, RefundNext

LEMMA BatchLocalsStep ==
    ASSUME IInv, [Next]_vars, NEW b \in Runner
    PROVE  BatchLocals(b)'
<1>1. TypeOK /\ TypeOK' /\ now \in Nat /\ now' \in Nat /\ now <= now'
  BY TypeStep, ClockKept DEF IInv, TypeOK, Time
<1>2. \A q \in PaidPlan : Paid(q) => Paid(q)'
  BY <1>1, PaidKept
<1>3. ASSUME downgrade'[b] = downgrade[b] PROVE BatchLocals(b)'
  <2>1. CASE downgrade[b] = NoTarget
    BY <1>3, <2>1 DEF BatchLocals
  <2>2. CASE downgrade[b] # NoTarget
    <3>1. PICK q \in PaidPlan : q = downgrade[b].plan /\ Paid(q)
      BY <2>2 DEF IInv, LocalsStayTrue, BatchLocals
    <3>2. downgrade[b].expires \in 0 .. now
      BY <2>2 DEF IInv, LocalsStayTrue, BatchLocals
    <3>3. downgrade[b].expires \in 0 .. now'
      BY <3>2, <1>1
    <3>4. Paid(q)'
      BY <3>1, <1>2
    <3> QED BY <1>3, <3>1, <3>3, <3>4 DEF BatchLocals
  <2> QED BY <2>1, <2>2
<1>4. downgrade'[b] = NoTarget => BatchLocals(b)'
  BY DEF BatchLocals
<1>5. ASSUME DowngradeSelect(b) PROVE BatchLocals(b)'
  <2>1. /\ sub.pending # NoPlan /\ sub.status = "active"
        /\ sub.expires # NoTime /\ sub.expires <= now /\ now' = now
        /\ downgrade'[b] = [plan |-> sub.pending, expires |-> sub.expires]
    BY <1>5, <1>1 DEF DowngradeSelect, TypeOK
  <2>2. sub.expires \in 0 .. now'
    BY <2>1, <1>1 DEF TypeOK, Row, OptTime, Time, NoTime
  <2>3. PICK q \in PaidPlan : q = sub.pending
    BY <2>1, <1>1, Types DEF TypeOK, Row
  <2>4. Paid(q)
    BY <2>3 DEF IInv, PlanWasPaid
  <2>5. Paid(q)'
    BY <2>4, <1>2
  <2> QED BY <2>1, <2>2, <2>3, <2>5 DEF BatchLocals
<1>6. ASSUME NEW c \in Runner, BatchNext(c) PROVE BatchLocals(b)'
  <2>1. ASSUME DowngradeSelect(c), c # b PROVE downgrade'[b] = downgrade[b]
    BY <2>1 DEF DowngradeSelect
  <2>2. ASSUME DowngradeUpdate(c), c # b PROVE downgrade'[b] = downgrade[b]
    BY <2>2 DEF DowngradeUpdate
  <2>3. ASSUME DowngradeUpdate(b) PROVE downgrade'[b] = NoTarget
    BY <2>3, <1>1 DEF DowngradeUpdate, TypeOK
  <2>4. ASSUME CancellationSelect(c) \/ CancellationUpdate(c)
        PROVE  downgrade'[b] = downgrade[b]
    BY <2>4 DEF CancellationSelect, CancellationUpdate
  <2>5. ASSUME BatchAbort(c)
        PROVE  downgrade'[b] = downgrade[b] \/ downgrade'[b] = NoTarget
    BY <2>5, <1>1 DEF BatchAbort, TypeOK
  <2> QED BY <1>3, <1>4, <1>5, <1>6, <2>1, <2>2, <2>3, <2>4, <2>5 DEF BatchNext
<1>7. ASSUME Restart PROVE BatchLocals(b)'
  BY <1>7, <1>4 DEF Restart
<1>8. ASSUME NEW p \in Pay, ConfirmNext(p) PROVE downgrade' = downgrade
  BY <1>8 DEF ConfirmNext, HandleBillingCheckout, ConfirmRequest, TossConfirm,
      TossReject, ConfirmLogApproved, ConfirmLogFailed, ConfirmSchedule,
      ConfirmActivate, TossConfirmTimeout, ConfirmLogLost, ConfirmAbort, requests
<1>9. ASSUME NEW r \in Refund, RefundNext(r) PROVE downgrade' = downgrade
  BY <1>9 DEF RefundNext, RefundCheck, RefundPick, RefundNothing, TossCancel,
      TossCancelReject, RefundLog, RefundFallback, RefundRestore, RefundAbort,
      RefundFallbackLost
<1>10. ASSUME \/ Tick \/ HandleCancelDowngrade \/ CancelRenewalFetch
              \/ CancelRenewalUpdate \/ HandleResumeRenewal \/ UploadDocument
              \/ CreatePipelineEntry \/ HandleDeletePipelineEntry
              \/ CancelRenewalAbort
              \/ UNCHANGED vars
       PROVE  downgrade' = downgrade
  BY <1>10 DEF Tick, HandleCancelDowngrade, CancelRenewalFetch,
      CancelRenewalUpdate, HandleResumeRenewal, UploadDocument,
      CreatePipelineEntry, HandleDeletePipelineEntry, CancelRenewalAbort, vars, requests
<1> QED BY <1>3, <1>6, <1>7, <1>8, <1>9, <1>10 DEF Next

(* How the confirmation of p moves. *)
LEMMA ConfSteps ==
    ASSUME TypeOK, [Next]_vars, NEW p \in Pay
    PROVE  \/ conf'[p] = conf[p]
           \/ conf'[p] = NoConf
           \/ ConfirmRequest(p)
           \/ TossConfirm(p)
           \/ /\ conf[p].phase = "sent"
              /\ conf'[p] = [conf[p] EXCEPT !.phase = "rejected"]
           \/ /\ conf[p].phase = "approved"
              /\ conf'[p] = [conf[p] EXCEPT !.phase = "logged"]
              /\ ConfirmLogApproved(p) \/ ConfirmLogLost(p)
<1> USE DEF TypeOK
<1> DEFINE Moves == \/ conf'[p] = conf[p]
                    \/ conf'[p] = NoConf
                    \/ ConfirmRequest(p)
                    \/ TossConfirm(p)
                    \/ /\ conf[p].phase = "sent"
                       /\ conf'[p] = [conf[p] EXCEPT !.phase = "rejected"]
                    \/ /\ conf[p].phase = "approved"
                       /\ conf'[p] = [conf[p] EXCEPT !.phase = "logged"]
                       /\ ConfirmLogApproved(p) \/ ConfirmLogLost(p)
<1>1. ASSUME NEW o \in Pay, ConfirmRequest(o) \/ TossConfirm(o), o # p
      PROVE  conf'[p] = conf[p]
  BY <1>1 DEF ConfirmRequest, TossConfirm
<1>2. ASSUME NEW o \in Pay, TossReject(o) \/ TossConfirmTimeout(o) PROVE Moves
  BY <1>2 DEF TossReject, TossConfirmTimeout
<1>3. ASSUME NEW o \in Pay, ConfirmLogApproved(o) \/ ConfirmLogLost(o) PROVE Moves
  BY <1>3 DEF ConfirmLogApproved, ConfirmLogLost
<1>4. ASSUME NEW o \in Pay,
             \/ ConfirmLogFailed(o) \/ ConfirmSchedule(o)
             \/ ConfirmActivate(o) \/ ConfirmAbort(o)
      PROVE  Moves
  BY <1>4 DEF ConfirmLogFailed, ConfirmSchedule, ConfirmActivate, ConfirmAbort
<1>5. ASSUME NEW o \in Pay, NEW q \in PaidPlan, HandleBillingCheckout(o, q)
      PROVE  conf' = conf
  BY <1>5 DEF HandleBillingCheckout, requests
<1>6. ASSUME NEW r \in Refund, RefundNext(r) PROVE conf' = conf
  BY <1>6 DEF RefundNext, RefundCheck, RefundPick, RefundNothing, TossCancel,
      TossCancelReject, RefundLog, RefundFallback, RefundRestore, RefundAbort,
      RefundFallbackLost
<1>7. ASSUME NEW b \in Runner, BatchNext(b) PROVE conf' = conf
  BY <1>7 DEF BatchNext, DowngradeSelect, DowngradeUpdate, CancellationSelect,
      CancellationUpdate, BatchAbort
<1>8. ASSUME Restart PROVE Moves
  BY <1>8 DEF Restart
<1>9. ASSUME \/ Tick \/ HandleCancelDowngrade \/ CancelRenewalFetch
             \/ CancelRenewalUpdate \/ HandleResumeRenewal \/ UploadDocument
             \/ CreatePipelineEntry \/ HandleDeletePipelineEntry
             \/ CancelRenewalAbort
             \/ UNCHANGED vars
      PROVE  conf' = conf
  BY <1>9 DEF Tick, HandleCancelDowngrade, CancelRenewalFetch,
      CancelRenewalUpdate, HandleResumeRenewal, UploadDocument,
      CreatePipelineEntry, HandleDeletePipelineEntry, CancelRenewalAbort, vars, requests
<1> QED
  BY <1>1, <1>2, <1>3, <1>4, <1>5, <1>6, <1>7, <1>8, <1>9 DEF Next, ConfirmNext

LEMMA ConfirmLocalsStep ==
    ASSUME IInv, [Next]_vars, NEW p \in Pay
    PROVE  ConfirmLocals(p)'
<1> USE DEF NoPlan, NoTime
<1>1. /\ TypeOK /\ TypeOK' /\ ConfirmLocals(p)
      /\ now \in Nat /\ now' \in Nat /\ now <= now'
  BY TypeStep, ClockKept DEF IInv, TypeOK, Time, LocalsStayTrue
<1>2. toss'[p] # "none" => approvedAt'[p] \in 0 .. now'
  BY <1>1, MoneyKept DEF ConfirmLocals
<1>3. CASE conf'[p] = NoConf
  BY <1>3, <1>2 DEF ConfirmLocals, NoConf
<1>4. CASE conf'[p] = conf[p]
  <2>1. conf[p].phase # "idle" => /\ order'[p] = order[p] /\ order[p] # NoPlan
                                  /\ conf[p].at \in 0 .. now'
    BY <1>1, MoneyKept DEF ConfirmLocals
  <2>2. conf[p].phase = "approved" => /\ toss'[p] = "captured"
                                      /\ log'[p] \in {"none", "failed"}
    BY <1>1, <1>4, MoneyKept, LogKept DEF ConfirmLocals
  <2>3. conf[p].phase \in {"approved", "logged"} => toss'[p] # "none"
    BY <1>1, MoneyKept DEF ConfirmLocals
  <2> QED BY <1>1, <1>2, <1>4, <2>1, <2>2, <2>3 DEF ConfirmLocals
<1>5. CASE ConfirmRequest(p)
  <2>1. /\ order'[p] = order[p] /\ order[p] # NoPlan /\ now' = now
        /\ conf'[p].phase = "sent" /\ conf'[p].at = now
        /\ conf'[p].downgrade = (order[p] < EffectivePlan)
        /\ EffectivePlan = Free => conf'[p].prevPlan = NoPlan
        /\ EffectivePlan # Free => /\ conf'[p].prevPlan = sub.plan
                                   /\ conf'[p].prevExpires = sub.expires
    BY <1>1, <1>5 DEF ConfirmRequest, TypeOK, money
  <2>2. EffectivePlan # Free => /\ EffectivePlan = sub.plan
                                /\ sub.status = "active" /\ sub.plan # Free
    BY DEF EffectivePlan, EffectivePlanFromRow
  <2>3. EffectivePlan # Free => /\ sub.expires # NoTime
                                /\ sub.expires <= now + Month
    BY <2>2, <1>1, MonthAssumption DEF IInv, PaidPeriodBounded
  <2>4. sub.plan \in Nat /\ order[p] \in Int
    BY <1>1, MaxRankAssumption DEF TypeOK, Row, Plan, OptPaid, PaidPlan
  <2>5. CASE EffectivePlan = Free
    BY <1>1, <1>2, <2>1, <2>5 DEF ConfirmLocals
  <2>6. CASE EffectivePlan # Free
    <3>1. /\ conf'[p].prevExpires # NoTime
          /\ conf'[p].prevExpires <= conf'[p].at + Month
      BY <2>1, <2>3, <2>6
    <3>2. ~conf'[p].downgrade => ~(order[p] < EffectivePlan)
      BY <2>1, Zenon
    <3>3. ~conf'[p].downgrade => conf'[p].prevPlan <= order'[p]
      <4>1. ~(order[p] < sub.plan) => sub.plan <= order[p]
        BY <2>4
      <4> QED BY <3>2, <4>1, <2>1, <2>2, <2>6, Zenon
    <3> QED BY <1>1, <1>2, <2>1, <3>1, <3>3 DEF ConfirmLocals
  <2> QED BY <2>5, <2>6
<1>6. CASE TossConfirm(p)
  <2>1. /\ conf[p].phase = "sent" /\ toss[p] = "none" /\ toss'[p] = "captured"
        /\ conf'[p] = [conf[p] EXCEPT !.phase = "approved"] /\ log' = log
        /\ order' = order /\ now' = now
    BY <1>1, <1>6 DEF TossConfirm, TypeOK
  <2>2. log[p] \in {"none", "failed"}
    BY <2>1, <1>1 DEF IInv, LedgerNotAhead, TypeOK
  <2>3. conf[p] \in Conf
    BY <1>1 DEF TypeOK
  <2> QED BY <1>1, <1>2, <2>1, <2>2, <2>3 DEF ConfirmLocals, Conf
<1>7. ASSUME NEW ph \in {"rejected", "logged"},
             conf'[p] = [conf[p] EXCEPT !.phase = ph],
             conf[p].phase # "idle",
             ph = "logged" => conf[p].phase = "approved"
      PROVE  ConfirmLocals(p)'
  <2>1. conf[p] \in Conf
    BY <1>1 DEF TypeOK
  <2>2. /\ order'[p] = order[p] /\ order[p] # NoPlan
        /\ conf[p].at \in 0 .. now'
        /\ ph = "logged" => toss'[p] # "none"
    BY <1>1, <1>7, MoneyKept DEF ConfirmLocals
  <2> QED BY <1>1, <1>2, <1>7, <2>1, <2>2 DEF ConfirmLocals, Conf
<1> QED BY <1>1, <1>3, <1>4, <1>5, <1>6, <1>7, ConfSteps

(* How the refund request r moves. *)
RefundMove(r) ==
    \/ ref'[r] = ref[r]
    \/ /\ ref'[r] = NoRef
       /\ ref[r].phase \in {"cancelled", "logged", "found"} =>
              RefundRestore(r) \/ faults' = faults + 1
    \/ RefundCheck(r) \/ RefundPick(r) \/ TossCancel(r)
    \/ RefundLog(r) \/ RefundFallback(r)
    \/ /\ ref[r].phase = "logged"
       /\ ref'[r] = [ref[r] EXCEPT !.phase = "found"]
       /\ RefundFallbackLost(r)

LEMMA RefundSteps ==
    ASSUME TypeOK, [Next]_vars, NEW r \in Refund PROVE RefundMove(r)
<1> USE DEF TypeOK
<1>1. ASSUME NEW s \in Refund, s # r,
             \/ RefundCheck(s) \/ RefundPick(s) \/ TossCancel(s)
             \/ RefundLog(s) \/ RefundFallback(s)
      PROVE  ref'[r] = ref[r]
  BY <1>1 DEF RefundCheck, RefundPick, TossCancel, RefundLog, RefundFallback
<1>2. ASSUME NEW s \in Refund,
             \/ RefundNothing(s) \/ TossCancelReject(s) \/ RefundRestore(s)
             \/ RefundAbort(s)
      PROVE  RefundMove(r)
  <2>1. CASE s # r
    BY <1>2, <2>1
    DEF RefundNothing, TossCancelReject, RefundRestore, RefundAbort, RefundMove
  <2>2. ref'[s] = NoRef
    BY <1>2 DEF RefundNothing, TossCancelReject, RefundRestore, RefundAbort
  <2>3. ref[s].phase \in {"cancelled", "logged", "found"} =>
            RefundRestore(s) \/ faults' = faults + 1
    BY <1>2 DEF RefundNothing, TossCancelReject, RefundAbort, Fault
  <2> QED BY <2>1, <2>2, <2>3 DEF RefundMove
<1>3. ASSUME NEW s \in Refund, RefundFallbackLost(s) PROVE RefundMove(r)
  BY <1>3 DEF RefundFallbackLost, RefundMove
<1>4. ASSUME NEW p \in Pay, ConfirmNext(p) PROVE ref' = ref
  BY <1>4 DEF ConfirmNext, HandleBillingCheckout, ConfirmRequest, TossConfirm,
      TossReject, ConfirmLogApproved, ConfirmLogFailed, ConfirmSchedule,
      ConfirmActivate, TossConfirmTimeout, ConfirmLogLost, ConfirmAbort, requests
<1>5. ASSUME NEW b \in Runner, BatchNext(b) PROVE ref' = ref
  BY <1>5 DEF BatchNext, DowngradeSelect, DowngradeUpdate, CancellationSelect,
      CancellationUpdate, BatchAbort
<1>6. Restart => ref'[r] = NoRef /\ faults' = faults + 1
  BY DEF Restart, Fault
<1>7. ASSUME \/ Tick \/ HandleCancelDowngrade \/ CancelRenewalFetch
             \/ CancelRenewalUpdate \/ HandleResumeRenewal \/ UploadDocument
             \/ CreatePipelineEntry \/ HandleDeletePipelineEntry
             \/ CancelRenewalAbort
             \/ UNCHANGED vars
      PROVE  ref' = ref
  BY <1>7 DEF Tick, HandleCancelDowngrade, CancelRenewalFetch,
      CancelRenewalUpdate, HandleResumeRenewal, UploadDocument,
      CreatePipelineEntry, HandleDeletePipelineEntry, CancelRenewalAbort, vars, requests
<1> QED
  BY <1>1, <1>2, <1>3, <1>4, <1>5, <1>6, <1>7 DEF Next, RefundNext, RefundMove

(* A fallback that was paid for and began in the past stays so. *)
LEMMA BackKept ==
    ASSUME IInv, [Next]_vars, NEW q \in OptPaid, NEW t,
           q # NoPlan => t \in 0 .. now /\ Paid(q)
    PROVE  q # NoPlan => t \in 0 .. now' /\ Paid(q)'
  BY PaidKept, ClockKept, Types DEF IInv, TypeOK, Time

LEMMA RefundLocalsStep ==
    ASSUME IInv, [Next]_vars, NEW r \in Refund
    PROVE  RefundLocals(r)'
<1>1. /\ TypeOK /\ RefundLocals(r) /\ ref[r] \in Ref
      /\ now \in Nat /\ now' \in Nat /\ now <= now'
  BY ClockKept DEF IInv, TypeOK, Time, LocalsStayTrue
<1>2. ref[r].backPlan # NoPlan => /\ ref[r].backAt \in 0 .. now'
                                 /\ \E q \in OptPaid : q = ref[r].backPlan /\ Paid(q)'
  <2>1. PICK q \in OptPaid : q = ref[r].backPlan
    BY <1>1 DEF Ref
  <2> QED BY <1>1, <2>1, BackKept DEF RefundLocals
<1>3. ASSUME ref'[r] = ref[r] PROVE RefundLocals(r)'
  <2>1. ref[r].phase \in {"picked", "cancelled"} =>
            /\ ref[r].pay \in Pay
            /\ log'[ref[r].pay] \in {"approved", "refunded"}
    BY <1>1, LogKept DEF RefundLocals
  <2>2. ref[r].phase = "cancelled" => toss'[ref[r].pay] = "cancelled"
    BY <1>1, MoneyKept DEF RefundLocals
  <2>3. ref[r].phase \in {"logged", "found"} => ref[r].at \in 0 .. now'
    BY <1>1 DEF RefundLocals
  <2> QED BY <1>2, <1>3, <2>1, <2>2, <2>3 DEF RefundLocals
<1>4. ASSUME ref'[r] = NoRef PROVE RefundLocals(r)'
  BY <1>4 DEF RefundLocals, NoRef
<1>5. ASSUME RefundCheck(r) PROVE RefundLocals(r)'
  <2>1. /\ ref'[r].phase = "checked" /\ ref'[r].backPlan = ref[r].backPlan
        /\ ref'[r].backAt = ref[r].backAt
    BY <1>1, <1>5 DEF RefundCheck, TypeOK, Ref
  <2> QED BY <1>2, <2>1 DEF RefundLocals
<1>6. ASSUME RefundPick(r) PROVE RefundLocals(r)'
  <2>1. PICK p \in Pay :
          /\ log[p] = "approved"
          /\ ref' = [ref EXCEPT ![r].phase = "picked", ![r].pay = p]
    BY <1>6 DEF RefundPick, Latest, ApprovedOf
  <2>2. /\ ref'[r].phase = "picked" /\ ref'[r].pay = p
        /\ ref'[r].backPlan = ref[r].backPlan /\ ref'[r].backAt = ref[r].backAt
    BY <1>1, <2>1 DEF TypeOK, Ref
  <2>3. log' = log
    BY <1>6 DEF RefundPick
  <2> QED BY <1>2, <2>1, <2>2, <2>3 DEF RefundLocals
<1>7. ASSUME TossCancel(r) PROVE RefundLocals(r)'
  <2>1. /\ ref[r].phase = "picked"
        /\ toss' = [toss EXCEPT ![ref[r].pay] = "cancelled"]
        /\ log' = log
    BY <1>7 DEF TossCancel
  <2>2. /\ ref'[r].phase = "cancelled" /\ ref'[r].pay = ref[r].pay
        /\ ref'[r].backPlan = ref[r].backPlan /\ ref'[r].backAt = ref[r].backAt
    BY <1>1, <1>7 DEF TossCancel, TypeOK, Ref
  <2>3. /\ ref[r].pay \in Pay /\ log[ref[r].pay] \in {"approved", "refunded"}
    BY <1>1, <2>1 DEF RefundLocals
  <2>4. toss'[ref[r].pay] = "cancelled"
    BY <1>1, <2>1, <2>3 DEF TypeOK
  <2> QED BY <1>2, <2>1, <2>2, <2>3, <2>4 DEF RefundLocals
<1>8. ASSUME RefundLog(r) PROVE RefundLocals(r)'
  <2>1. /\ ref'[r].phase = "logged" /\ ref'[r].at = now /\ now' = now
        /\ ref'[r].backPlan = ref[r].backPlan /\ ref'[r].backAt = ref[r].backAt
    BY <1>1, <1>8 DEF RefundLog, TypeOK, Ref
  <2> QED BY <1>1, <1>2, <2>1 DEF RefundLocals
<1>9. ASSUME RefundFallback(r) PROVE RefundLocals(r)'
  <2>1. ref[r].phase = "logged" /\ UNCHANGED <<now, order, toss>>
    BY <1>9 DEF RefundFallback, money
  <2>2. ref[r].at \in 0 .. now
    BY <1>1, <2>1 DEF RefundLocals
  <2>3. CASE ref' = [ref EXCEPT ![r].phase = "found"]
    <3>1. /\ ref'[r].phase = "found" /\ ref'[r].at = ref[r].at
          /\ ref'[r].backPlan = ref[r].backPlan /\ ref'[r].backAt = ref[r].backAt
      BY <1>1, <2>3 DEF TypeOK, Ref
    <3> QED BY <1>2, <2>1, <2>2, <3>1 DEF RefundLocals
  <2>4. ASSUME NEW p \in BestValidPriorPayment(ref[r].at),
               ref' = [ref EXCEPT ![r].phase = "found",
                                  ![r].backPlan = order[p],
                                  ![r].backAt = approvedAt[p]]
        PROVE  RefundLocals(r)'
    <3>1. p \in Pay /\ log[p] = "approved"
      BY DEF BestValidPriorPayment, ValidPayments, Latest
    <3>2. toss[p] # "none" /\ approvedAt[p] \in 0 .. now
      BY <3>1 DEF IInv, LedgerNotAhead, LocalsStayTrue, ConfirmLocals
    <3>3. Paid(order[p])'
      BY <2>1, <3>1, <3>2 DEF Paid
    <3>4. /\ ref'[r].phase = "found" /\ ref'[r].at = ref[r].at
          /\ ref'[r].backPlan = order[p] /\ ref'[r].backAt = approvedAt[p]
      BY <1>1, <2>4 DEF TypeOK, Ref
    <3> QED BY <2>1, <2>2, <3>2, <3>3, <3>4 DEF RefundLocals, Paid
  <2> QED BY <1>9, <2>3, <2>4 DEF RefundFallback
<1>10. ASSUME ref[r].phase = "logged", ref'[r] = [ref[r] EXCEPT !.phase = "found"]
       PROVE  RefundLocals(r)'
  <2>1. /\ ref'[r].phase = "found" /\ ref'[r].at = ref[r].at
        /\ ref'[r].backPlan = ref[r].backPlan /\ ref'[r].backAt = ref[r].backAt
    BY <1>1, <1>10 DEF Ref
  <2>2. ref[r].at \in 0 .. now'
    BY <1>1, <1>10 DEF RefundLocals
  <2> QED BY <1>2, <2>1, <2>2 DEF RefundLocals
<1> QED
  BY <1>1, <1>3, <1>4, <1>5, <1>6, <1>7, <1>8, <1>9, <1>10, RefundSteps
  DEF RefundMove

-----------------------------------------------------------------------------
LEMMA InitIInv == Init => IInv /\ LedgerComplete
<1> SUFFICES ASSUME Init PROVE IInv /\ LedgerComplete
  OBVIOUS
<1>1. PaidPeriodBounded /\ SnapshotIsOlder /\ PlanWasPaid
  BY DEF Init, NoRow, PaidPeriodBounded, SnapshotIsOlder, PlanWasPaid,
         PaidPlan, NoPlan
<1>2. LedgerNotAhead /\ LedgerComplete
  BY DEF Init, LedgerNotAhead, LedgerComplete
<1>3. LocalsStayTrue
  BY DEF Init, NoConf, NoRef, LocalsStayTrue, ConfirmLocals, RefundLocals,
         BatchLocals
<1> QED BY <1>1, <1>2, <1>3, InitTypeOK DEF IInv

LEMMA Inductive ==
    IInv /\ LedgerComplete /\ [Next]_vars => IInv' /\ LedgerComplete'
<1> SUFFICES ASSUME IInv, LedgerComplete, [Next]_vars
             PROVE  IInv' /\ LedgerComplete'
  OBVIOUS
<1>1. TypeOK'
  BY TypeStep DEF IInv
<1>2. PaidPeriodBounded' /\ SnapshotIsOlder' /\ PlanWasPaid'
  BY RowStep DEF RowInv
<1>3. LedgerNotAhead' /\ LedgerComplete'
  BY LedgerStep
<1>4. LocalsStayTrue'
  BY ConfirmLocalsStep, RefundLocalsStep, BatchLocalsStep DEF LocalsStayTrue
<1> QED BY <1>1, <1>2, <1>3, <1>4 DEF IInv

(* Every reachable state satisfies the inductive invariant. *)
THEOREM Invariance == Spec => [](IInv /\ LedgerComplete)
  BY InitIInv, Inductive, PTL DEF Spec

(* The rows and the handlers' local variables keep their types; in          *)
(* particular no interleaving writes a NULL plan or an end before the       *)
(* beginning of time (billing.go:662, billing.go:781).                     *)
THEOREM TypeCorrect == Spec => []TypeOK
<1>1. IInv /\ LedgerComplete => TypeOK
  BY DEF IInv
<1> QED BY <1>1, Invariance, PTL

(* Types, period and snapshot of the row together (billing.go:662-698).     *)
THEOREM RowSound == Spec => []RowIsSound
<1>1. IInv /\ LedgerComplete => RowIsSound
  BY DEF IInv, RowIsSound
<1> QED BY <1>1, Invariance, PTL

(* A paid plan in force always has an end, one billing period after its     *)
(* beginning, and began in the past: in every interleaving of any number of *)
(* confirmations, refunds and batch runs, with any number of failures.     *)
THEOREM PaidPeriod == Spec => []PaidPeriodBounded
<1>1. IInv /\ LedgerComplete => PaidPeriodBounded
  BY DEF IInv
<1> QED BY <1>1, Invariance, PTL

(* The previous_plan snapshot never describes more than the row it is kept  *)
(* in, although it was read before the Toss call (billing.go:662-672).     *)
THEOREM SnapshotOlder == Spec => []SnapshotIsOlder
<1>1. IInv /\ LedgerComplete => SnapshotIsOlder
  BY DEF IInv
<1> QED BY <1>1, Invariance, PTL

(* Nobody has, or is scheduled for, a paid plan for which Toss never        *)
(* captured a payment (billing.go:531).                                    *)
THEOREM NothingForFree == Spec => []PlanWasPaid
<1>1. IInv /\ LedgerComplete => PlanWasPaid
  BY DEF IInv
<1> QED BY <1>1, Invariance, PTL

(* payment_log never claims money that Toss did not move, and without a     *)
(* failure it misses none either (billing.go:615, billing_refund.go:204).  *)
THEOREM LedgerFollowsToss == Spec => []LedgerMatchesToss
<1>1. IInv /\ LedgerComplete => LedgerMatchesToss
  BY DEF IInv, LedgerMatchesToss
<1> QED BY <1>1, Invariance, PTL
-----------------------------------------------------------------------------
(***************************************************************************)
(* The schedule without overlap.                                           *)
(***************************************************************************)
InPhase(r, phases) == ref[r].phase \in phases

(* A handler in flight runs alone, and what it read is still so when it     *)
(* writes: the downgrade decision of a confirmation,                       *)
ConfirmationsCurrent ==
    \A p \in Pay : conf[p].phase # "idle" =>
        (conf[p].downgrade <=> order[p] < EffectivePlan)

(* the row that is due in a batch,                                         *)
Due == sub.status = "active" /\ sub.expires # NoTime /\ sub.expires <= now

BatchesCurrent ==
    /\ \A b \in Runner : downgrade[b] # NoTarget =>
           Due /\ downgrade[b].plan = sub.pending
    /\ \A b \in Runner : cancellation[b] => Due

(* and the plan, the payment and the fallback of a refund.                  *)
FallbackFound(r) ==
    IF ref[r].backPlan = NoPlan
    THEN ValidPayments(now) = {}
    ELSE \E p \in BestValidPriorPayment(now) :
             ref[r].backPlan = order[p] /\ ref[r].backAt = approvedAt[p]

RefundsCurrent ==
    \A r \in Refund :
        /\ ref[r].phase # "idle" => ref[r].plan = sub.plan /\ ActivePaid(sub)
        /\ InPhase(r, {"picked", "cancelled"}) => order[ref[r].pay] = sub.plan
        /\ InPhase(r, {"logged", "found"}) => ref[r].at = now
        /\ ref[r].phase # "found" => ref[r].backPlan = NoPlan
        /\ ref[r].phase = "found" /\ faults = 0 => FallbackFound(r)

(* What is scheduled is below the plan of the row.                          *)
PendingIsLower ==
    sub.pending # NoPlan =>
        /\ sub.status = "active"
        /\ sub.plan # Free => sub.pending < sub.plan

(* Without a failure the plan of the row, unless a refund is giving its     *)
(* money back, and the scheduled plan rest on approved payments.           *)
PlansAreBacked ==
    faults = 0 =>
        /\ (/\ \A r \in Refund : ~InPhase(r, {"cancelled", "logged", "found"})
            /\ sub.status = "active"
            /\ sub.plan # Free) => ApprovedOf(sub.plan) # {}
        /\ sub.pending # NoPlan => ApprovedOf(sub.pending) # {}
        /\ \A p \in Pay : conf[p].phase = "logged" => log[p] = "approved"

SeqInv ==
    /\ Alone
    /\ ConfirmationsCurrent
    /\ BatchesCurrent
    /\ RefundsCurrent
    /\ PendingIsLower
    /\ PlansAreBacked

(* Nothing is in flight. *)
Idle ==
    /\ \A p \in Pay : conf[p].phase = "idle"
    /\ \A r \in Refund : ref[r].phase = "idle"
    /\ \A b \in Runner : downgrade[b] = NoTarget /\ ~cancellation[b]
    /\ ~cancelReq

LEMMA RunningIsIdle == Running = {} <=> Idle
<1>1. Running = {} => \A p \in Pay : conf[p].phase = "idle"
  BY DEF Running
<1>2. Running = {} => \A r \in Refund : ref[r].phase = "idle"
  BY DEF Running
<1>3. Running = {} => \A b \in Runner : downgrade[b] = NoTarget /\ ~cancellation[b]
  BY DEF Running
<1>4. Running = {} => ~cancelReq
  BY DEF Running
<1>5. Idle => Running = {}
  BY DEF Running, Idle
<1> QED BY <1>1, <1>2, <1>3, <1>4, <1>5 DEF Idle

(* Who is in flight is in flight alone. *)
OnlyConfirm(p) ==
    /\ \A o \in Pay : o # p => conf[o].phase = "idle"
    /\ \A r \in Refund : ref[r].phase = "idle"
    /\ \A b \in Runner : downgrade[b] = NoTarget /\ ~cancellation[b]
    /\ ~cancelReq

OnlyRefund(r) ==
    /\ \A p \in Pay : conf[p].phase = "idle"
    /\ \A o \in Refund : o # r => ref[o].phase = "idle"
    /\ \A b \in Runner : downgrade[b] = NoTarget /\ ~cancellation[b]
    /\ ~cancelReq

OnlyDowngrade(b) ==
    /\ \A p \in Pay : conf[p].phase = "idle"
    /\ \A r \in Refund : ref[r].phase = "idle"
    /\ \A o \in Runner : /\ o # b => downgrade[o] = NoTarget
                         /\ ~cancellation[o]
    /\ ~cancelReq

OnlyCancellation(b) ==
    /\ \A p \in Pay : conf[p].phase = "idle"
    /\ \A r \in Refund : ref[r].phase = "idle"
    /\ \A o \in Runner : /\ downgrade[o] = NoTarget
                         /\ o # b => ~cancellation[o]
    /\ ~cancelReq

OnlyRenewal ==
    /\ \A p \in Pay : conf[p].phase = "idle"
    /\ \A r \in Refund : ref[r].phase = "idle"
    /\ \A b \in Runner : downgrade[b] = NoTarget /\ ~cancellation[b]

Only ==
    /\ \A p \in Pay : conf[p].phase # "idle" => OnlyConfirm(p)
    /\ \A r \in Refund : ref[r].phase # "idle" => OnlyRefund(r)
    /\ \A b \in Runner : downgrade[b] # NoTarget => OnlyDowngrade(b)
    /\ \A b \in Runner : cancellation[b] => OnlyCancellation(b)
    /\ cancelReq => OnlyRenewal

LEMMA AloneIsOnly == Alone => Only
<1> SUFFICES ASSUME Alone PROVE Only
  OBVIOUS
<1>1. \A p \in Pay : conf[p].phase # "idle" => <<"confirm", p>> \in Running
  BY DEF Running
<1>2. \A r \in Refund : ref[r].phase # "idle" => <<"refund", r>> \in Running
  BY DEF Running
<1>3. \A b \in Runner : downgrade[b] # NoTarget => <<"downgrade", b>> \in Running
  BY DEF Running
<1>4. \A b \in Runner : cancellation[b] => <<"cancellation", b>> \in Running
  BY DEF Running
<1>5. cancelReq => <<"renewal">> \in Running
  BY DEF Running
<1>6. ASSUME NEW p \in Pay, conf[p].phase # "idle" PROVE OnlyConfirm(p)
  <2>1. \A x \in Running : x = <<"confirm", p>>
    BY <1>1, <1>6 DEF Alone
  <2> QED BY <1>1, <1>2, <1>3, <1>4, <1>5, <2>1 DEF OnlyConfirm
<1>7. ASSUME NEW r \in Refund, ref[r].phase # "idle" PROVE OnlyRefund(r)
  <2>1. \A x \in Running : x = <<"refund", r>>
    BY <1>2, <1>7 DEF Alone
  <2> QED BY <1>1, <1>2, <1>3, <1>4, <1>5, <2>1 DEF OnlyRefund
<1>8. ASSUME NEW b \in Runner, downgrade[b] # NoTarget PROVE OnlyDowngrade(b)
  <2>1. \A x \in Running : x = <<"downgrade", b>>
    BY <1>3, <1>8 DEF Alone
  <2> QED BY <1>1, <1>2, <1>3, <1>4, <1>5, <2>1 DEF OnlyDowngrade
<1>9. ASSUME NEW b \in Runner, cancellation[b] PROVE OnlyCancellation(b)
  <2>1. \A x \in Running : x = <<"cancellation", b>>
    BY <1>4, <1>9 DEF Alone
  <2> QED BY <1>1, <1>2, <1>3, <1>4, <1>5, <2>1 DEF OnlyCancellation
<1>10. ASSUME cancelReq PROVE OnlyRenewal
  <2>1. \A x \in Running : x = <<"renewal">>
    BY <1>5, <1>10 DEF Alone
  <2> QED BY <1>1, <1>2, <1>3, <1>4, <2>1 DEF OnlyRenewal
<1> QED BY <1>6, <1>7, <1>8, <1>9, <1>10 DEF Only

LEMMA OnlyNext == Alone' => Only'
  BY AloneIsOnly, PTL

LEMMA IdleNext == (Running = {})' <=> Idle'
  BY RunningIsIdle, PTL

(* While something is in flight after a step, the step leaves the clock and *)
(* the row alone: a write of the row is the last statement of its handler,  *)
(* or is made when nothing is in flight.                                   *)
LEMMA Held ==
    ASSUME TypeOK, Alone, Next, OneAtATime, ~Idle'
    PROVE  UNCHANGED <<now, sub>>
<1>1. Only
  BY AloneIsOnly
<1>2. requests' = requests => Idle /\ Idle'
  <2>1. Running # {} => requests' # requests
    BY DEF OneAtATime
  <2>2. requests' = requests /\ Idle => Idle'
    BY DEF Idle, requests
  <2> QED BY <2>1, <2>2, RunningIsIdle
<1>3. ASSUME \/ Tick \/ HandleCancelDowngrade \/ HandleResumeRenewal
             \/ \E p \in Pay : \E q \in PaidPlan : HandleBillingCheckout(p, q)
      PROVE  FALSE
  BY <1>2, <1>3
  DEF Tick, HandleCancelDowngrade, HandleResumeRenewal, HandleBillingCheckout
<1>4. ASSUME NEW p \in Pay, ConfirmSchedule(p) \/ ConfirmActivate(p)
      PROVE  FALSE
  <2>1. conf[p].phase = "logged" /\ conf' = [conf EXCEPT ![p] = NoConf]
        /\ UNCHANGED <<ref, cancelReq, downgrade, cancellation>>
    BY <1>4 DEF ConfirmSchedule, ConfirmActivate
  <2>2. OnlyConfirm(p)
    BY <1>1, <2>1 DEF Only
  <2> QED BY <2>1, <2>2 DEF OnlyConfirm, Idle, TypeOK, NoConf
<1>5. ASSUME NEW r \in Refund, RefundRestore(r) PROVE FALSE
  <2>1. ref[r].phase = "found" /\ ref' = [ref EXCEPT ![r] = NoRef]
        /\ UNCHANGED <<conf, cancelReq, downgrade, cancellation>>
    BY <1>5 DEF RefundRestore
  <2>2. OnlyRefund(r)
    BY <1>1, <2>1 DEF Only
  <2> QED BY <2>1, <2>2 DEF OnlyRefund, Idle, TypeOK, NoRef
<1>6. ASSUME NEW b \in Runner, DowngradeUpdate(b) PROVE FALSE
  <2>1. downgrade[b] # NoTarget /\ downgrade' = [downgrade EXCEPT ![b] = NoTarget]
        /\ UNCHANGED <<conf, ref, cancelReq, cancellation>>
    BY <1>6 DEF DowngradeUpdate
  <2>2. OnlyDowngrade(b)
    BY <1>1, <2>1 DEF Only
  <2> QED BY <2>1, <2>2 DEF OnlyDowngrade, Idle, TypeOK
<1>7. ASSUME NEW b \in Runner, CancellationUpdate(b) PROVE FALSE
  <2>1. cancellation[b] /\ cancellation' = [cancellation EXCEPT ![b] = FALSE]
        /\ UNCHANGED <<conf, ref, cancelReq, downgrade>>
    BY <1>7 DEF CancellationUpdate
  <2>2. OnlyCancellation(b)
    BY <1>1, <2>1 DEF Only
  <2> QED BY <2>1, <2>2 DEF OnlyCancellation, Idle, TypeOK
<1>8. ASSUME CancelRenewalUpdate PROVE FALSE
  <2>1. cancelReq /\ ~cancelReq' /\ UNCHANGED <<conf, ref, downgrade, cancellation>>
    BY <1>8 DEF CancelRenewalUpdate
  <2> QED BY <1>1, <2>1 DEF Only, OnlyRenewal, Idle
<1>9. ~RowWrite
  BY <1>3, <1>4, <1>5, <1>6, <1>7, <1>8 DEF RowWrite
<1> QED BY <1>3, <1>9, RowSteps

(* How the batches move. *)
LEMMA BatchSteps ==
    ASSUME TypeOK, [Next]_vars, NEW b \in Runner
    PROVE  /\ \/ downgrade'[b] = downgrade[b]
              \/ downgrade'[b] = NoTarget
              \/ DowngradeSelect(b)
           /\ cancellation'[b] => cancellation[b] \/ CancellationSelect(b)
<1> USE DEF TypeOK
<1> DEFINE Moves == /\ \/ downgrade'[b] = downgrade[b]
                       \/ downgrade'[b] = NoTarget
                       \/ DowngradeSelect(b)
                    /\ cancellation'[b] => cancellation[b] \/ CancellationSelect(b)
<1>1. ASSUME NEW a \in Runner, DowngradeSelect(a) PROVE Moves
  BY <1>1 DEF DowngradeSelect
<1>2. ASSUME NEW a \in Runner, DowngradeUpdate(a) PROVE Moves
  BY <1>2 DEF DowngradeUpdate
<1>3. ASSUME NEW a \in Runner, CancellationSelect(a) PROVE Moves
  BY <1>3 DEF CancellationSelect
<1>4. ASSUME NEW a \in Runner, CancellationUpdate(a) PROVE Moves
  BY <1>4 DEF CancellationUpdate
<1>5. ASSUME NEW a \in Runner, BatchAbort(a) PROVE Moves
  BY <1>5 DEF BatchAbort
<1>6. ASSUME Restart PROVE Moves
  BY <1>6 DEF Restart
<1>7. ASSUME NEW p \in Pay, ConfirmNext(p) PROVE Moves
  BY <1>7 DEF ConfirmNext, HandleBillingCheckout, ConfirmRequest, TossConfirm,
      TossReject, ConfirmLogApproved, ConfirmLogFailed, ConfirmSchedule,
      ConfirmActivate, TossConfirmTimeout, ConfirmLogLost, ConfirmAbort, requests
<1>8. ASSUME NEW r \in Refund, RefundNext(r) PROVE Moves
  BY <1>8 DEF RefundNext, RefundCheck, RefundPick, RefundNothing, TossCancel,
      TossCancelReject, RefundLog, RefundFallback, RefundRestore, RefundAbort,
      RefundFallbackLost
<1>9. ASSUME \/ Tick \/ HandleCancelDowngrade \/ CancelRenewalFetch
             \/ CancelRenewalUpdate \/ HandleResumeRenewal \/ UploadDocument
             \/ CreatePipelineEntry \/ HandleDeletePipelineEntry
             \/ CancelRenewalAbort
             \/ UNCHANGED vars
      PROVE  Moves
  BY <1>9 DEF Tick, HandleCancelDowngrade, CancelRenewalFetch,
      CancelRenewalUpdate, HandleResumeRenewal, UploadDocument,
      CreatePipelineEntry, HandleDeletePipelineEntry, CancelRenewalAbort, vars, requests
<1> QED
  BY <1>1, <1>2, <1>3, <1>4, <1>5, <1>6, <1>7, <1>8, <1>9 DEF Next, BatchNext

(* The steps of orders, approvals and payment_log. *)
MoneyWrite ==
    \/ \E p \in Pay : \/ \E q \in PaidPlan : HandleBillingCheckout(p, q)
                      \/ TossConfirm(p) \/ ConfirmLogApproved(p)
                      \/ ConfirmLogFailed(p) \/ TossConfirmTimeout(p)
                      \/ ConfirmAbort(p)
    \/ \E r \in Refund : RefundLog(r) \/ RefundAbort(r)
    \/ Restart

LEMMA MoneySteps ==
    ASSUME [Next]_vars
    PROVE  MoneyWrite \/ UNCHANGED <<log, order, approvedAt>>
<1> USE DEF money
<1>1. ASSUME NEW p \in Pay,
             \/ ConfirmRequest(p) \/ TossReject(p)
             \/ ConfirmSchedule(p) \/ ConfirmActivate(p) \/ ConfirmLogLost(p)
      PROVE  UNCHANGED <<log, order, approvedAt>>
  BY <1>1 DEF ConfirmRequest, TossReject, ConfirmSchedule, ConfirmActivate,
              ConfirmLogLost
<1>2. ASSUME NEW r \in Refund,
             \/ RefundCheck(r) \/ RefundPick(r) \/ RefundNothing(r)
             \/ TossCancel(r) \/ TossCancelReject(r) \/ RefundFallback(r)
             \/ RefundRestore(r) \/ RefundFallbackLost(r)
      PROVE  UNCHANGED <<log, order, approvedAt>>
  BY <1>2 DEF RefundCheck, RefundPick, RefundNothing, TossCancel,
              TossCancelReject, RefundFallback, RefundRestore, RefundFallbackLost
<1>3. ASSUME \/ \E b \in Runner : BatchNext(b)
             \/ Tick \/ HandleCancelDowngrade \/ CancelRenewalFetch
             \/ CancelRenewalUpdate \/ HandleResumeRenewal \/ UploadDocument
             \/ CreatePipelineEntry \/ HandleDeletePipelineEntry
             \/ CancelRenewalAbort \/ UNCHANGED vars
      PROVE  UNCHANGED <<log, order, approvedAt>>
  BY <1>3 DEF BatchNext, DowngradeSelect, DowngradeUpdate, CancellationSelect,
              CancellationUpdate, BatchAbort, Tick, HandleCancelDowngrade,
              CancelRenewalFetch, CancelRenewalUpdate, HandleResumeRenewal,
              UploadDocument, CreatePipelineEntry, HandleDeletePipelineEntry,
              CancelRenewalAbort, vars
<1> QED
  BY <1>1, <1>2, <1>3 DEF Next, ConfirmNext, RefundNext, MoneyWrite

(* Faults are only counted up. *)
LEMMA FaultsGrow ==
    ASSUME TypeOK, [Next]_vars, faults' = 0
    PROVE  faults = 0
<1> USE DEF TypeOK
<1>1. Fault => FALSE
  BY DEF Fault
<1>2. ASSUME NEW p \in Pay, ConfirmNext(p) PROVE faults' = faults
  BY <1>1, <1>2 DEF ConfirmNext, HandleBillingCheckout, ConfirmRequest, TossConfirm,
      TossReject, ConfirmLogApproved, ConfirmLogFailed, ConfirmSchedule,
      ConfirmActivate, TossConfirmTimeout, ConfirmLogLost, ConfirmAbort
<1>3. ASSUME NEW r \in Refund, RefundNext(r) PROVE faults' = faults
  BY <1>1, <1>3 DEF RefundNext, RefundCheck, RefundPick, RefundNothing, TossCancel,
      TossCancelReject, RefundLog, RefundFallback, RefundRestore, RefundAbort,
      RefundFallbackLost
<1>4. ASSUME NEW b \in Runner, BatchNext(b) PROVE faults' = faults
  BY <1>1, <1>4 DEF BatchNext, DowngradeSelect, DowngradeUpdate, CancellationSelect,
      CancellationUpdate, BatchAbort
<1>5. ASSUME \/ Tick \/ HandleCancelDowngrade \/ CancelRenewalFetch
             \/ CancelRenewalUpdate \/ HandleResumeRenewal \/ UploadDocument
             \/ CreatePipelineEntry \/ HandleDeletePipelineEntry
             \/ CancelRenewalAbort \/ Restart \/ UNCHANGED vars
      PROVE  faults' = faults
  BY <1>1, <1>5 DEF Tick, HandleCancelDowngrade, CancelRenewalFetch,
      CancelRenewalUpdate, HandleResumeRenewal, UploadDocument,
      CreatePipelineEntry, HandleDeletePipelineEntry, CancelRenewalAbort,
      Restart, vars
<1> QED BY <1>2, <1>3, <1>4, <1>5 DEF Next

(* Only the refund of a payment takes its approval from payment_log. *)
LEMMA ApprovalKept ==
    ASSUME IInv, [Next]_vars, NEW p \in Pay, log[p] = "approved"
    PROVE  \/ log'[p] = "approved"
           \/ \E r \in Refund : RefundLog(r) /\ ref[r].pay = p
<1> USE DEF IInv, TypeOK
<1>1. ASSUME NEW o \in Pay, ConfirmLogApproved(o) \/ ConfirmLogFailed(o)
      PROVE  log'[p] = "approved"
  BY <1>1 DEF ConfirmLogApproved, ConfirmLogFailed
<1>2. ASSUME NEW r \in Refund, RefundLog(r), ref[r].pay # p
      PROVE  log'[p] = "approved"
  BY <1>2 DEF RefundLog
<1>3. ASSUME NEW o \in Pay,
             \/ \E q \in PaidPlan : HandleBillingCheckout(o, q)
             \/ TossConfirm(o) \/ TossConfirmTimeout(o) \/ ConfirmAbort(o)
      PROVE  log' = log
  BY <1>3 DEF HandleBillingCheckout, TossConfirm, TossConfirmTimeout, ConfirmAbort
<1>4. ASSUME NEW r \in Refund, RefundAbort(r) PROVE log' = log
  BY <1>4 DEF RefundAbort
<1>5. Restart => log' = log
  BY DEF Restart
<1> QED BY <1>1, <1>2, <1>3, <1>4, <1>5, MoneySteps DEF MoneyWrite

-----------------------------------------------------------------------------
LEMMA ConfirmationsStep ==
    ASSUME IInv, SeqInv, Next, OneAtATime
    PROVE  ConfirmationsCurrent'
<1> SUFFICES ASSUME NEW p \in Pay, (conf[p].phase # "idle")'
             PROVE  (conf[p].downgrade <=> order[p] < EffectivePlan)'
  BY DEF ConfirmationsCurrent
<1>1. TypeOK /\ conf[p] \in Conf
  BY DEF IInv, TypeOK
<1>2. UNCHANGED <<now, sub>>
  BY <1>1, Held DEF SeqInv, Idle
<1>3. EffectivePlan' = EffectivePlan
  BY <1>2 DEF EffectivePlan, EffectivePlanFromRow
<1>4. CASE ConfirmRequest(p)
  BY <1>1, <1>3, <1>4 DEF ConfirmRequest, TypeOK, money
<1>5. CASE conf[p].phase # "idle" /\ conf'[p].downgrade = conf[p].downgrade
  <2>1. order'[p] = order[p]
    BY <1>5, MoneyKept DEF IInv, LocalsStayTrue, ConfirmLocals
  <2> QED BY <1>3, <1>5, <2>1 DEF SeqInv, ConfirmationsCurrent
<1>6. \/ ConfirmRequest(p)
      \/ conf[p].phase # "idle" /\ conf'[p].downgrade = conf[p].downgrade
  <2>1. TossConfirm(p) => conf[p].phase # "idle" /\ conf'[p].downgrade = conf[p].downgrade
    BY <1>1 DEF TossConfirm, TypeOK, Conf
  <2>2. conf'[p] # NoConf
    BY DEF NoConf
  <2>3. ASSUME NEW ph \in {"rejected", "logged"}, conf[p].phase # "idle",
               conf'[p] = [conf[p] EXCEPT !.phase = ph]
        PROVE  conf'[p].downgrade = conf[p].downgrade
    BY <1>1, <2>3 DEF Conf
  <2>4. conf'[p] = conf[p] =>
            conf[p].phase # "idle" /\ conf'[p].downgrade = conf[p].downgrade
    OBVIOUS
  <2>5. \/ conf'[p] = conf[p] \/ ConfirmRequest(p) \/ TossConfirm(p)
        \/ \E ph \in {"rejected", "logged"} :
               conf[p].phase # "idle" /\ conf'[p] = [conf[p] EXCEPT !.phase = ph]
    BY <1>1, <2>2, ConfSteps
  <2> QED BY <2>1, <2>3, <2>4, <2>5
<1> QED BY <1>4, <1>5, <1>6

LEMMA BatchesStep ==
    ASSUME IInv, SeqInv, Next, OneAtATime
    PROVE  BatchesCurrent'
<1>1. TypeOK
  BY DEF IInv
<1>2. ASSUME NEW b \in Runner, (downgrade[b] # NoTarget)'
      PROVE  (Due /\ downgrade[b].plan = sub.pending)'
  <2>1. UNCHANGED <<now, sub>>
    BY <1>1, <1>2, Held DEF SeqInv, Idle
  <2>2. CASE DowngradeSelect(b)
    BY <1>1, <2>1, <2>2 DEF DowngradeSelect, Due, TypeOK
  <2>3. CASE downgrade'[b] = downgrade[b]
    BY <1>2, <2>1, <2>3 DEF SeqInv, BatchesCurrent, Due
  <2> QED BY <1>1, <1>2, <2>2, <2>3, BatchSteps
<1>3. ASSUME NEW b \in Runner, cancellation'[b]
      PROVE  Due'
  <2>1. UNCHANGED <<now, sub>>
    BY <1>1, <1>3, Held DEF SeqInv, Idle
  <2>2. CASE CancellationSelect(b)
    BY <2>1, <2>2 DEF CancellationSelect, Due
  <2>3. CASE cancellation[b]
    BY <2>1, <2>3 DEF SeqInv, BatchesCurrent, Due
  <2> QED BY <1>1, <1>3, <2>2, <2>3, BatchSteps
<1> QED BY <1>2, <1>3 DEF BatchesCurrent

(* The fallback is looked up among rows that nobody writes meanwhile. *)
LEMMA SameFallback ==
    ASSUME UNCHANGED <<now, log, order, approvedAt>>
    PROVE  /\ ValidPayments(now)' = ValidPayments(now)
           /\ BestValidPriorPayment(now)' = BestValidPriorPayment(now)
<1>1. ValidPayments(now)' = ValidPayments(now)
  BY DEF ValidPayments
<1> QED BY <1>1 DEF BestValidPriorPayment, Latest

LEMMA FoundAlone ==
    ASSUME TypeOK, Alone, Next, OneAtATime,
           NEW r \in Refund, ref[r].phase # "idle", (ref[r].phase = "found")'
    PROVE  UNCHANGED <<log, order, approvedAt>>
<1>1. OnlyRefund(r) /\ OnlyRefund(r)'
  BY AloneIsOnly, OnlyNext DEF Only, OneAtATime
<1>2. requests' # requests
  BY RunningIsIdle DEF Idle, OneAtATime
<1>3. ASSUME NEW p \in Pay,
             \/ \E q \in PaidPlan : HandleBillingCheckout(p, q)
             \/ TossConfirm(p) \/ ConfirmLogApproved(p) \/ ConfirmLogFailed(p)
             \/ TossConfirmTimeout(p) \/ ConfirmAbort(p)
      PROVE  FALSE
  BY <1>1, <1>2, <1>3
  DEF OnlyRefund, HandleBillingCheckout, TossConfirm, ConfirmLogApproved,
      ConfirmLogFailed, TossConfirmTimeout, ConfirmAbort
<1>4. ASSUME NEW s \in Refund, RefundLog(s) \/ RefundAbort(s) PROVE FALSE
  <2>1. ref[s].phase # "idle"
    BY <1>4 DEF RefundLog, RefundAbort
  <2>2. s = r
    BY <1>1, <2>1 DEF OnlyRefund
  <2>3. ref'[s].phase \in {"logged", "idle"}
    BY <1>4 DEF RefundLog, RefundAbort, NoRef, TypeOK, Ref
  <2> QED BY <2>2, <2>3
<1>5. Restart => FALSE
  BY DEF Restart, NoRef
<1> QED BY <1>3, <1>4, <1>5, MoneySteps DEF MoneyWrite

LEMMA FallbackLooked ==
    ASSUME TypeOK, NEW r \in Refund, RefundFallback(r)
    PROVE  /\ ref'[r].phase = "found"
           /\ ref'[r].plan = ref[r].plan /\ ref'[r].at = ref[r].at
<1>1. ref[r] \in Ref
  BY DEF TypeOK
<1>2. CASE ref' = [ref EXCEPT ![r].phase = "found"]
  BY <1>1, <1>2 DEF TypeOK, Ref
<1>3. ASSUME NEW p \in BestValidPriorPayment(ref[r].at),
             ref' = [ref EXCEPT ![r].phase = "found",
                                ![r].backPlan = order[p],
                                ![r].backAt = approvedAt[p]]
      PROVE  /\ ref'[r].phase = "found"
             /\ ref'[r].plan = ref[r].plan /\ ref'[r].at = ref[r].at
  BY <1>1, <1>3 DEF TypeOK, Ref
<1> QED BY <1>2, <1>3 DEF RefundFallback

RefundCurrent(r) ==
    /\ ref[r].phase # "idle" => ref[r].plan = sub.plan /\ ActivePaid(sub)
    /\ InPhase(r, {"picked", "cancelled"}) => order[ref[r].pay] = sub.plan
    /\ InPhase(r, {"logged", "found"}) => ref[r].at = now
    /\ ref[r].phase # "found" => ref[r].backPlan = NoPlan
    /\ ref[r].phase = "found" /\ faults = 0 => FallbackFound(r)

LEMMA RefundsStep ==
    ASSUME IInv, SeqInv, Next, OneAtATime
    PROVE  RefundsCurrent'
<1> SUFFICES ASSUME NEW r \in Refund PROVE RefundCurrent(r)'
  BY DEF RefundsCurrent, RefundCurrent
<1> USE DEF InPhase
<1>1. TypeOK /\ ref[r] \in Ref /\ RefundCurrent(r) /\ RefundLocals(r)
  BY DEF IInv, TypeOK, SeqInv, RefundsCurrent, RefundCurrent, LocalsStayTrue
<1>2. CASE ref'[r] = NoRef
  BY <1>2 DEF RefundCurrent, NoRef
<1>3. CASE ref'[r].phase # "idle"
  <2>1. UNCHANGED <<now, sub>>
    BY <1>1, <1>3, Held DEF SeqInv, Idle
  <2>2. CASE ref'[r] = ref[r]
    <3>1. ref[r].phase \in {"picked", "cancelled"} =>
              order'[ref[r].pay] = order[ref[r].pay]
      <4>1. SUFFICES ASSUME ref[r].phase \in {"picked", "cancelled"}
                     PROVE  order'[ref[r].pay] = order[ref[r].pay]
        OBVIOUS
      <4>2. ref[r].pay \in Pay /\ order[ref[r].pay] = sub.plan
        BY <1>1, <4>1 DEF RefundCurrent, RefundLocals
      <4>3. sub.plan # NoPlan
        BY <1>1, MaxRankAssumption DEF TypeOK, Row, Plan, NoPlan
      <4> QED BY <4>2, <4>3, MoneyKept
    <3>2. ref[r].phase = "found" /\ faults' = 0 => FallbackFound(r)'
      <4>1. SUFFICES ASSUME ref[r].phase = "found", faults' = 0
                     PROVE  FallbackFound(r)'
        OBVIOUS
      <4>2. FallbackFound(r)
        BY <1>1, <4>1, FaultsGrow DEF RefundCurrent
      <4>3. UNCHANGED <<log, order, approvedAt>>
        BY <1>1, <2>2, <4>1, FoundAlone DEF SeqInv
      <4> QED BY <2>1, <2>2, <4>2, <4>3, SameFallback DEF FallbackFound
    <3> QED BY <1>1, <2>1, <2>2, <3>1, <3>2 DEF RefundCurrent, ActivePaid
  <2>3. CASE RefundCheck(r)
    <3>1. /\ ref'[r].phase = "checked" /\ ref'[r].plan = sub.plan
          /\ ref'[r].backPlan = ref[r].backPlan /\ ActivePaid(sub)
          /\ ref[r].phase = "idle"
      BY <1>1, <2>3 DEF RefundCheck, TypeOK, Ref
    <3> QED BY <1>1, <2>1, <3>1 DEF RefundCurrent, ActivePaid
  <2>4. CASE RefundPick(r)
    <3>1. PICK p \in Pay :
              /\ order[p] = ref[r].plan
              /\ ref' = [ref EXCEPT ![r].phase = "picked", ![r].pay = p]
      BY <2>4 DEF RefundPick, Latest, ApprovedOf
    <3>2. /\ ref'[r].phase = "picked" /\ ref'[r].plan = ref[r].plan
          /\ ref'[r].pay = p /\ ref'[r].backPlan = ref[r].backPlan
          /\ ref[r].phase = "checked" /\ order' = order
      BY <1>1, <2>4, <3>1 DEF RefundPick, TypeOK, Ref, money
    <3> QED BY <1>1, <2>1, <3>1, <3>2 DEF RefundCurrent, ActivePaid
  <2>5. CASE TossCancel(r)
    <3>1. /\ ref'[r].phase = "cancelled" /\ ref'[r].plan = ref[r].plan
          /\ ref'[r].pay = ref[r].pay /\ ref'[r].backPlan = ref[r].backPlan
          /\ ref[r].phase = "picked" /\ order' = order
      BY <1>1, <2>5 DEF TossCancel, TypeOK, Ref
    <3> QED BY <1>1, <2>1, <3>1 DEF RefundCurrent, ActivePaid
  <2>6. CASE RefundLog(r)
    <3>1. /\ ref'[r].phase = "logged" /\ ref'[r].plan = ref[r].plan
          /\ ref'[r].at = now /\ ref'[r].backPlan = ref[r].backPlan
          /\ ref[r].phase = "cancelled"
      BY <1>1, <2>6 DEF RefundLog, TypeOK, Ref
    <3> QED BY <1>1, <2>1, <3>1 DEF RefundCurrent, ActivePaid
  <2>7. CASE RefundFallback(r)
    <3>1. ref[r].phase = "logged" /\ ref[r].at = now
          /\ UNCHANGED <<log, order, approvedAt>>
      BY <1>1, <2>7 DEF RefundFallback, RefundCurrent, money
    <3>2. ref'[r].phase = "found" /\ ref'[r].plan = ref[r].plan
          /\ ref'[r].at = ref[r].at
      BY <1>1, <2>7, FallbackLooked
    <3>3. FallbackFound(r)'
      <4>1. CASE /\ ValidPayments(now) = {}
                 /\ ref' = [ref EXCEPT ![r].phase = "found"]
        <5>1. ref'[r].backPlan = NoPlan
          BY <1>1, <3>1, <4>1 DEF RefundCurrent, TypeOK, Ref
        <5> QED BY <2>1, <3>1, <4>1, <5>1, SameFallback DEF FallbackFound
      <4>2. ASSUME NEW p \in BestValidPriorPayment(now),
                   ref' = [ref EXCEPT ![r].phase = "found",
                                      ![r].backPlan = order[p],
                                      ![r].backAt = approvedAt[p]]
            PROVE  FallbackFound(r)'
        <5>1. ref'[r].backPlan = order[p] /\ ref'[r].backAt = approvedAt[p]
          BY <1>1, <4>2 DEF TypeOK, Ref
        <5>2. order[p] # NoPlan
          BY DEF BestValidPriorPayment, Latest, ValidPayments, PaidPlan, NoPlan
        <5>3. /\ p \in BestValidPriorPayment(now)'
              /\ order'[p] = order[p] /\ approvedAt'[p] = approvedAt[p]
          BY <2>1, <3>1, SameFallback
        <5> QED BY <5>1, <5>2, <5>3 DEF FallbackFound
      <4> QED BY <2>7, <3>1, <4>1, <4>2 DEF RefundFallback
    <3> QED BY <1>1, <2>1, <3>1, <3>2, <3>3 DEF RefundCurrent, ActivePaid
  <2>8. CASE RefundFallbackLost(r) /\ ref'[r] = [ref[r] EXCEPT !.phase = "found"]
    <3>1. /\ ref'[r].phase = "found" /\ ref'[r].plan = ref[r].plan
          /\ ref'[r].at = ref[r].at /\ ref[r].phase = "logged"
      BY <1>1, <2>8 DEF RefundFallbackLost, Ref
    <3>2. faults' # 0
      BY <1>1, <2>8 DEF RefundFallbackLost, Fault, TypeOK
    <3> QED BY <1>1, <2>1, <3>1, <3>2 DEF RefundCurrent, ActivePaid
  <2>9. ref'[r] # NoRef
    BY <1>3 DEF NoRef
  <2> QED
    BY <1>1, <2>2, <2>3, <2>4, <2>5, <2>6, <2>7, <2>8, <2>9, RefundSteps
    DEF RefundMove
<1>4. ref'[r] = NoRef \/ ref'[r].phase # "idle" \/ ref'[r] = ref[r]
  <2>1. ASSUME RefundCheck(r) \/ RefundPick(r) \/ TossCancel(r) \/ RefundLog(r)
        PROVE  ref'[r].phase # "idle"
    BY <1>1, <2>1 DEF RefundCheck, RefundPick, TossCancel, RefundLog, TypeOK, Ref
  <2>2. ref'[r] = [ref[r] EXCEPT !.phase = "found"] => ref'[r].phase # "idle"
    BY <1>1 DEF Ref
  <2>3. RefundFallback(r) => ref'[r].phase # "idle"
    BY <1>1, FallbackLooked
  <2> QED BY <1>1, <2>1, <2>2, <2>3, RefundSteps DEF RefundMove
<1>5. CASE ref'[r] = ref[r] /\ ref[r].phase = "idle"
  BY <1>1, <1>5 DEF RefundCurrent
<1> QED BY <1>2, <1>3, <1>4, <1>5

(* What the row's plans are made of. *)
LEMMA RowPlans ==
    ASSUME TypeOK
    PROVE  /\ sub.plan \in Nat /\ sub.plan # NoPlan
           /\ sub.plan # Free => sub.plan \in PaidPlan
           /\ sub.pending # NoPlan => sub.pending \in PaidPlan
           /\ \A p \in Pay : order[p] \in Int
           /\ EffectivePlan # Free => /\ EffectivePlan = sub.plan
                                      /\ sub.status = "active"
                                      /\ sub.plan # Free
<1>1. sub.plan \in Plan /\ sub.pending \in OptPaid
  BY DEF TypeOK, Row
<1>2. \A p \in Pay : order[p] \in Int
  BY MaxRankAssumption DEF TypeOK, OptPaid, PaidPlan, NoPlan
<1>3. EffectivePlan # Free => /\ EffectivePlan = sub.plan
                              /\ sub.status = "active"
                              /\ sub.plan # Free
  BY DEF EffectivePlan, EffectivePlanFromRow
<1>4. sub.plan \in Nat /\ sub.plan # NoPlan
  BY <1>1, MaxRankAssumption DEF Plan, NoPlan
<1>5. /\ sub.plan # Free => sub.plan \in PaidPlan
      /\ sub.pending # NoPlan => sub.pending \in PaidPlan
  BY <1>1, Types
<1> QED BY <1>2, <1>3, <1>4, <1>5

LEMMA PendingStep ==
    ASSUME IInv, SeqInv, Next, OneAtATime
    PROVE  PendingIsLower'
<1> USE DEF PendingIsLower
<1>1. TypeOK /\ PendingIsLower
  BY DEF IInv, SeqInv
<1>2. CASE sub' = sub
  BY <1>1, <1>2
<1>3. ASSUME NEW p \in Pay, NEW q \in PaidPlan, HandleBillingCheckout(p, q)
      PROVE  PendingIsLower'
  <2>1. \/ sub' = sub
        \/ /\ sub' = [sub EXCEPT !.status = "pending", !.plan = q]
           /\ sub.status = "none"
    BY <1>3 DEF HandleBillingCheckout
  <2>2. ASSUME sub.status = "none", sub' = [sub EXCEPT !.status = "pending", !.plan = q]
        PROVE  sub'.pending = NoPlan
    BY <1>1, <2>2 DEF TypeOK, Row
  <2> QED BY <1>2, <2>1, <2>2
<1>4. ASSUME NEW p \in Pay, ConfirmSchedule(p) PROVE PendingIsLower'
  <2>1. order[p] < EffectivePlan
    BY <1>4 DEF ConfirmSchedule, SeqInv, ConfirmationsCurrent
  <2>2. order[p] # NoPlan /\ order[p] \in OptPaid
    BY <1>1, <1>4 DEF ConfirmSchedule, IInv, LocalsStayTrue, ConfirmLocals, TypeOK
  <2>3. order[p] \in Nat \ {0}
    BY <2>2, Types DEF PaidPlan
  <2>4. EffectivePlan # Free
    BY <2>1, <2>3 DEF Free
  <2>5. /\ sub'.pending = order[p] /\ sub'.plan = sub.plan
        /\ sub'.status = sub.status
    BY <1>1, <1>4 DEF ConfirmSchedule, TypeOK, Row
  <2> QED BY <1>1, <2>1, <2>4, <2>5, RowPlans
<1>5. ASSUME NEW p \in Pay, ConfirmActivate(p) PROVE PendingIsLower'
  BY <1>1, <1>5 DEF ConfirmActivate, TypeOK, Row
<1>6. ASSUME HandleCancelDowngrade \/ CancelRenewalUpdate PROVE PendingIsLower'
  BY <1>1, <1>6 DEF HandleCancelDowngrade, CancelRenewalUpdate, TypeOK, Row
<1>7. ASSUME HandleResumeRenewal PROVE PendingIsLower'
  BY <1>1, <1>7 DEF HandleResumeRenewal, TypeOK, Row
<1>8. ASSUME NEW r \in Refund, RefundRestore(r) PROVE PendingIsLower'
  BY <1>1, <1>8 DEF RefundRestore, RefundedRow, TypeOK, Row
<1>9. ASSUME NEW b \in Runner, DowngradeUpdate(b) PROVE PendingIsLower'
  BY <1>1, <1>9 DEF DowngradeUpdate, TypeOK, Row
<1>10. ASSUME NEW b \in Runner, CancellationUpdate(b) PROVE PendingIsLower'
  <2>1. sub'.status = "active" /\ sub'.plan = Free
    BY <1>1, <1>10 DEF CancellationUpdate, TypeOK, Row
  <2> QED BY <2>1
<1>11. Tick => sub' = sub
  BY DEF Tick
<1> QED
  BY <1>2, <1>3, <1>4, <1>5, <1>6, <1>7, <1>8, <1>9, <1>10, <1>11, RowSteps
  DEF RowWrite

(* A row write leaves payment_log and the earlier orders alone. *)
LEMMA RowWriteKeeps ==
    ASSUME IInv, [Next]_vars, RowWrite
    PROVE  /\ log' = log /\ faults' = faults
           /\ \A q \in PaidPlan : ApprovedOf(q) \subseteq ApprovedOf(q)'
<1>1. log' = log /\ faults' = faults
  BY DEF RowWrite, HandleBillingCheckout, ConfirmSchedule, ConfirmActivate,
         HandleCancelDowngrade, CancelRenewalUpdate, HandleResumeRenewal,
         RefundRestore, DowngradeUpdate, CancellationUpdate
<1>2. ASSUME NEW q \in PaidPlan, NEW p \in ApprovedOf(q)
      PROVE  p \in ApprovedOf(q)'
  <2>1. p \in Pay /\ order[p] = q /\ log[p] = "approved"
    BY DEF ApprovedOf
  <2>2. order'[p] = q
    BY <2>1, MoneyKept DEF PaidPlan, NoPlan
  <2> QED BY <1>1, <2>1, <2>2 DEF ApprovedOf
<1> QED BY <1>1, <1>2

(* A refund that has begun to take the plan's money back. *)
Refunding == \E r \in Refund : InPhase(r, {"cancelled", "logged", "found"})

BackedPlan == ~Refunding /\ sub.status = "active" /\ sub.plan # Free =>
                  ApprovedOf(sub.plan) # {}
BackedPending == sub.pending # NoPlan => ApprovedOf(sub.pending) # {}
LoggedIsApproved == \A p \in Pay : conf[p].phase = "logged" => log[p] = "approved"

LEMMA BackedParts ==
    PlansAreBacked <=>
        (faults = 0 => BackedPlan /\ BackedPending /\ LoggedIsApproved)
  BY DEF PlansAreBacked, BackedPlan, BackedPending, LoggedIsApproved, Refunding

LEMMA BackedPartsNext ==
    PlansAreBacked' <=>
        (faults' = 0 => BackedPlan' /\ BackedPending' /\ LoggedIsApproved')
  BY DEF PlansAreBacked, BackedPlan, BackedPending, LoggedIsApproved, Refunding

(* A payment of the plan of a row is given up only while a refund of that   *)
(* plan is under way.                                                      *)
LEMMA ApprovalStays ==
    ASSUME IInv, SeqInv, Next, NEW q \in PaidPlan, ApprovedOf(q) # {},
           q # sub.plan \/ ~Refunding
    PROVE  (\E p \in Pay : order[p] = q /\ log[p] = "approved")'
<1>1. PICK p \in Pay : order[p] = q /\ log[p] = "approved"
  BY DEF ApprovedOf
<1>2. order'[p] = q
  BY <1>1, MoneyKept DEF PaidPlan, NoPlan
<1>3. ASSUME NEW r \in Refund, RefundLog(r), ref[r].pay = p PROVE FALSE
  <2>1. ref[r].phase = "cancelled"
    BY <1>3 DEF RefundLog
  <2>2. Refunding
    BY <2>1 DEF Refunding, InPhase
  <2>3. order[p] = sub.plan
    BY <1>3, <2>1 DEF SeqInv, RefundsCurrent, InPhase
  <2> QED BY <1>1, <2>2, <2>3
<1>4. log'[p] = "approved"
  BY <1>1, <1>3, ApprovalKept
<1> QED BY <1>2, <1>4

LEMMA BackedStep ==
    ASSUME IInv, SeqInv, Next, OneAtATime
    PROVE  PlansAreBacked'
<1> SUFFICES ASSUME faults' = 0
             PROVE  BackedPlan' /\ BackedPending' /\ LoggedIsApproved'
  BY BackedPartsNext
<1>1. TypeOK /\ TypeOK' /\ faults = 0
  BY FaultsGrow, TypeStep DEF IInv
<1>2. BackedPlan /\ BackedPending /\ LoggedIsApproved
  BY <1>1, BackedParts DEF SeqInv
<1>3. Only /\ PendingIsLower
  BY AloneIsOnly DEF SeqInv
<1>4. LoggedIsApproved'
  <2> SUFFICES ASSUME NEW p \in Pay, conf'[p].phase = "logged"
               PROVE  log'[p] = "approved"
    BY DEF LoggedIsApproved
  <2>1. conf[p] \in Conf
    BY <1>1 DEF TypeOK
  <2>2. CASE conf'[p] = conf[p]
    <3>1. log[p] = "approved" /\ OnlyConfirm(p)
      BY <1>2, <1>3, <2>2 DEF LoggedIsApproved, Only
    <3>2. \A r \in Refund : ~RefundLog(r)
      BY <3>1 DEF OnlyConfirm, RefundLog
    <3> QED BY <3>1, <3>2, ApprovalKept
  <2>3. CASE ConfirmLogApproved(p)
    BY <1>1, <2>3 DEF ConfirmLogApproved, TypeOK
  <2>4. ~ConfirmLogLost(p)
    BY <1>1 DEF ConfirmLogLost, Fault
  <2>5. ConfirmRequest(p) \/ TossConfirm(p) => conf'[p].phase # "logged"
    BY <1>1, <2>1 DEF ConfirmRequest, TossConfirm, TypeOK, Conf
  <2>6. /\ NoConf.phase # "logged"
        /\ [conf[p] EXCEPT !.phase = "rejected"].phase # "logged"
    BY <2>1 DEF NoConf, Conf
  <2> QED BY <1>1, <2>2, <2>3, <2>4, <2>5, <2>6, ConfSteps
<1>5. CASE ~RowWrite
  <2>1. sub' = sub
    BY <1>5, RowSteps DEF Tick
  <2>2. BackedPending'
    <3>1. SUFFICES ASSUME sub.pending # NoPlan PROVE BackedPending'
      BY <2>1 DEF BackedPending
    <3>2. sub.pending \in PaidPlan /\ sub.pending # sub.plan
      BY <1>1, <1>3, <3>1, RowPlans DEF PendingIsLower, PaidPlan, Free
    <3>3. ApprovedOf(sub.pending) # {}
      BY <1>2, <3>1 DEF BackedPending
    <3>4. (\E p \in Pay : order[p] = sub.pending /\ log[p] = "approved")'
      BY <2>1, <3>2, <3>3, ApprovalStays
    <3> QED BY <3>4 DEF BackedPending, ApprovedOf
  <2>3. BackedPlan'
    <3>1. SUFFICES ASSUME ~Refunding', sub.status = "active", sub.plan # Free
                   PROVE  BackedPlan'
      BY <2>1 DEF BackedPlan
    <3>2. ~Refunding
      <4>1. SUFFICES ASSUME NEW r \in Refund,
                            ref[r].phase \in {"cancelled", "logged", "found"},
                            ref'[r].phase \notin {"cancelled", "logged", "found"}
                     PROVE  FALSE
        BY <3>1 DEF Refunding, InPhase
      <4>2. ref[r] \in Ref
        BY <1>1 DEF TypeOK
      <4>3. ~RefundRestore(r)
        BY <1>5 DEF RowWrite
      <4>4. ref'[r] # NoRef \/ ~(ref[r].phase \in {"cancelled", "logged", "found"}
                                  => RefundRestore(r) \/ faults' = faults + 1)
        BY <1>1, <4>1, <4>3
      <4>5. RefundCheck(r) \/ RefundPick(r) \/ TossCancel(r) => FALSE
        BY <4>1 DEF RefundCheck, RefundPick, TossCancel
      <4>6. RefundLog(r) => ref'[r].phase = "logged"
        BY <1>1, <4>2 DEF RefundLog, TypeOK, Ref
      <4>7. RefundFallback(r) => ref'[r].phase = "found"
        BY <1>1, FallbackLooked
      <4>8. [ref[r] EXCEPT !.phase = "found"].phase = "found"
        BY <4>2 DEF Ref
      <4> QED BY <1>1, <4>1, <4>4, <4>5, <4>6, <4>7, <4>8, RefundSteps DEF RefundMove
    <3>3. sub.plan \in PaidPlan /\ ApprovedOf(sub.plan) # {}
      BY <1>1, <1>2, <3>1, <3>2, RowPlans DEF BackedPlan
    <3>4. (\E p \in Pay : order[p] = sub.plan /\ log[p] = "approved")'
      BY <2>1, <3>2, <3>3, ApprovalStays
    <3> QED BY <3>4 DEF BackedPlan, ApprovedOf
  <2> QED BY <1>4, <2>2, <2>3
<1>6. ASSUME RowWrite PROVE BackedPlan' /\ BackedPending'
  <2>1. \A q \in PaidPlan : ApprovedOf(q) # {} =>
            (\E p \in Pay : order[p] = q /\ log[p] = "approved")'
    BY <1>6, RowWriteKeeps DEF ApprovedOf
  <2>2. ASSUME sub'.plan = sub.plan, sub'.status = sub.status, ref' = ref
        PROVE  BackedPlan'
    <3>1. SUFFICES ASSUME ~Refunding, sub.status = "active", sub.plan # Free
                   PROVE  (\E p \in Pay : order[p] = sub.plan /\ log[p] = "approved")'
      BY <2>2 DEF BackedPlan, Refunding, InPhase, ApprovedOf
    <3>2. sub.plan \in PaidPlan /\ ApprovedOf(sub.plan) # {}
      BY <1>1, <1>2, <3>1, RowPlans DEF BackedPlan
    <3> QED BY <2>1, <2>2, <3>2
  <2>3. ASSUME sub'.pending = sub.pending PROVE BackedPending'
    <3>1. SUFFICES ASSUME sub.pending # NoPlan
                   PROVE  (\E p \in Pay : order[p] = sub.pending /\ log[p] = "approved")'
      BY <2>3 DEF BackedPending, ApprovedOf
    <3>2. sub.pending \in PaidPlan /\ ApprovedOf(sub.pending) # {}
      BY <1>1, <1>2, <3>1, RowPlans DEF BackedPending
    <3> QED BY <2>1, <2>3, <3>2
  <2>4. sub'.pending = NoPlan => BackedPending'
    BY DEF BackedPending
  <2>5. sub'.status # "active" \/ sub'.plan = Free => BackedPlan'
    BY DEF BackedPlan
  <2>6. ASSUME NEW p \in Pay, NEW q \in PaidPlan, HandleBillingCheckout(p, q)
        PROVE  BackedPlan' /\ BackedPending'
    <3>1. /\ ref' = ref /\ sub'.pending = sub.pending
          /\ \/ sub' = sub
             \/ sub'.status = "pending"
      BY <1>1, <2>6 DEF HandleBillingCheckout, TypeOK, Row, requests
    <3> QED BY <2>2, <2>3, <2>5, <3>1
  <2>7. ASSUME NEW p \in Pay, ConfirmSchedule(p) \/ ConfirmActivate(p)
        PROVE  order'[p] = order[p] /\ log'[p] = "approved"
    <3>1. conf[p].phase = "logged" /\ UNCHANGED <<order, log>>
      BY <2>7 DEF ConfirmSchedule, ConfirmActivate, money
    <3> QED BY <1>2, <3>1 DEF LoggedIsApproved
  <2>8. ASSUME NEW p \in Pay, ConfirmSchedule(p)
        PROVE  BackedPlan' /\ BackedPending'
    <3>1. /\ sub'.plan = sub.plan /\ sub'.status = sub.status
          /\ sub'.pending = order[p] /\ ref' = ref
      BY <1>1, <2>8 DEF ConfirmSchedule, TypeOK, Row
    <3>2. BackedPending'
      BY <2>7, <2>8, <3>1 DEF BackedPending, ApprovedOf
    <3> QED BY <2>2, <3>1, <3>2
  <2>9. ASSUME NEW p \in Pay, ConfirmActivate(p)
        PROVE  BackedPlan' /\ BackedPending'
    <3>1. sub'.plan = order[p] /\ sub'.pending = NoPlan
      BY <1>1, <2>9 DEF ConfirmActivate, TypeOK, Row
    <3>2. BackedPlan'
      BY <2>7, <2>9, <3>1 DEF BackedPlan, ApprovedOf
    <3> QED BY <2>4, <3>1, <3>2
  <2>10. ASSUME HandleCancelDowngrade \/ CancelRenewalUpdate
         PROVE  BackedPlan' /\ BackedPending'
    <3>1. /\ sub'.plan = sub.plan /\ sub'.status = sub.status
          /\ sub'.pending = NoPlan /\ ref' = ref
      BY <1>1, <2>10
      DEF HandleCancelDowngrade, CancelRenewalUpdate, TypeOK, Row, requests
    <3> QED BY <2>2, <2>4, <3>1
  <2>11. ASSUME HandleResumeRenewal PROVE BackedPlan' /\ BackedPending'
    <3>1. /\ sub'.plan = sub.plan /\ sub'.status = sub.status
          /\ sub'.pending = sub.pending /\ ref' = ref
      BY <1>1, <2>11 DEF HandleResumeRenewal, TypeOK, Row, requests
    <3> QED BY <2>2, <2>3, <3>1
  <2>12. ASSUME NEW r \in Refund, RefundRestore(r)
         PROVE  BackedPlan' /\ BackedPending'
    <3>1. /\ sub'.pending = NoPlan
          /\ sub'.plan = IF ref[r].backPlan = NoPlan THEN Free ELSE ref[r].backPlan
          /\ ref[r].phase = "found" /\ UNCHANGED <<order, log>>
      BY <1>1, <2>12 DEF RefundRestore, RefundedRow, TypeOK, Row, money
    <3>2. FallbackFound(r)
      BY <1>1, <3>1 DEF SeqInv, RefundsCurrent
    <3>3. ASSUME ref[r].backPlan # NoPlan PROVE BackedPlan'
      <4>1. PICK p \in BestValidPriorPayment(now) : ref[r].backPlan = order[p]
        BY <3>2, <3>3 DEF FallbackFound
      <4>2. p \in Pay /\ log[p] = "approved"
        BY DEF BestValidPriorPayment, Latest, ValidPayments
      <4> QED BY <3>1, <3>3, <4>1, <4>2 DEF BackedPlan, ApprovedOf
    <3> QED BY <2>4, <2>5, <3>1, <3>3
  <2>13. ASSUME NEW b \in Runner, DowngradeUpdate(b)
         PROVE  BackedPlan' /\ BackedPending'
    <3>1. /\ sub'.plan = downgrade[b].plan /\ sub'.pending = NoPlan
          /\ downgrade[b] # NoTarget
      BY <1>1, <2>13 DEF DowngradeUpdate, TypeOK, Row
    <3>2. downgrade[b].plan = sub.pending /\ downgrade[b].plan \in PaidPlan
      BY <3>1 DEF SeqInv, BatchesCurrent, IInv, LocalsStayTrue, BatchLocals
    <3>3. ApprovedOf(sub.pending) # {}
      BY <1>2, <3>2 DEF BackedPending, PaidPlan, NoPlan
    <3>4. BackedPlan'
      BY <2>1, <3>1, <3>2, <3>3 DEF BackedPlan, ApprovedOf
    <3> QED BY <2>4, <3>1, <3>4
  <2>14. ASSUME NEW b \in Runner, CancellationUpdate(b)
         PROVE  BackedPlan' /\ BackedPending'
    <3>1. sub'.plan = Free /\ sub'.pending = sub.pending
      BY <1>1, <2>14 DEF CancellationUpdate, TypeOK, Row
    <3> QED BY <2>3, <2>5, <3>1
  <2> QED
    BY <1>6, <2>6, <2>8, <2>9, <2>10, <2>11, <2>12, <2>13, <2>14 DEF RowWrite
<1> QED BY <1>4, <1>5, <1>6

LEMMA SeqStutter == ASSUME SeqInv, UNCHANGED vars PROVE SeqInv'
<1> USE DEF vars
<1>1. Alone'
  BY DEF SeqInv, Alone, Running
<1>2. ConfirmationsCurrent'
  BY DEF SeqInv, ConfirmationsCurrent, EffectivePlan, EffectivePlanFromRow
<1>3. BatchesCurrent'
  BY DEF SeqInv, BatchesCurrent, Due
<1>4. RefundsCurrent'
  <2>1. \A r \in Refund : FallbackFound(r) => FallbackFound(r)'
    BY SameFallback DEF FallbackFound
  <2> QED BY <2>1 DEF SeqInv, RefundsCurrent, InPhase, ActivePaid
<1>5. PendingIsLower'
  BY DEF SeqInv, PendingIsLower
<1>6. PlansAreBacked'
  BY DEF SeqInv, PlansAreBacked, ApprovedOf, InPhase
<1> QED BY <1>1, <1>2, <1>3, <1>4, <1>5, <1>6 DEF SeqInv

LEMMA SeqInit == Init => SeqInv
<1> SUFFICES ASSUME Init PROVE SeqInv
  OBVIOUS
<1>1. Idle
  BY DEF Init, Idle, NoConf, NoRef
<1>2. Alone
  BY <1>1, RunningIsIdle DEF Alone
<1>3. ConfirmationsCurrent /\ BatchesCurrent
  BY <1>1 DEF Idle, ConfirmationsCurrent, BatchesCurrent
<1>4. RefundsCurrent
  BY DEF Init, NoRef, RefundsCurrent, InPhase
<1>5. PendingIsLower /\ PlansAreBacked
  BY DEF Init, NoRow, NoConf, PendingIsLower, PlansAreBacked
<1> QED BY <1>2, <1>3, <1>4, <1>5 DEF SeqInv

FullInv == IInv /\ LedgerComplete /\ SeqInv

LEMMA SeqInductive == FullInv /\ [Next /\ OneAtATime]_vars => FullInv'
<1>1. ASSUME FullInv, Next, OneAtATime PROVE FullInv'
  <2>1. IInv' /\ LedgerComplete'
    BY <1>1, Inductive DEF FullInv
  <2>2. Alone'
    BY <1>1 DEF OneAtATime
  <2>3. SeqInv'
    BY <1>1, <2>2, ConfirmationsStep, BatchesStep, RefundsStep, PendingStep,
       BackedStep DEF FullInv, SeqInv
  <2> QED BY <2>1, <2>3 DEF FullInv
<1>2. ASSUME FullInv, UNCHANGED vars PROVE FullInv'
  <2>1. IInv' /\ LedgerComplete'
    BY <1>2, Inductive DEF FullInv
  <2> QED BY <1>2, <2>1, SeqStutter DEF FullInv
<1> QED BY <1>1, <1>2

(* What a handler read is still so when it writes, in every run without     *)
(* overlap, whatever fails.                                                *)
THEOREM SequentialInvariance == SequentialSpec => []FullInv
<1>1. Init => FullInv
  BY InitIInv, SeqInit DEF FullInv
<1> QED BY <1>1, SeqInductive, PTL DEF SequentialSpec

(* When no handler is in flight and nothing failed, the paid plan in force  *)
(* rests on an approved payment of that plan which Toss still holds         *)
(* (billing.go:531, billing_refund.go:231): for any number of payments,     *)
(* refunds and batch runs one after the other.                             *)
THEOREM PlanBacked == SequentialSpec => []PlanInForceIsBacked
<1>1. FullInv => PlanInForceIsBacked
  <2> SUFFICES ASSUME FullInv, Running = {}, faults = 0, EffectivePlan # Free
               PROVE  \E p \in Pay : /\ order[p] = EffectivePlan
                                     /\ toss[p] = "captured"
                                     /\ log[p] = "approved"
    BY DEF PlanInForceIsBacked
  <2>1. Idle /\ TypeOK
    BY RunningIsIdle DEF FullInv, IInv
  <2>2. EffectivePlan = sub.plan /\ sub.status = "active" /\ sub.plan # Free
    BY <2>1, RowPlans
  <2>3. ~Refunding
    BY <2>1 DEF Idle, Refunding, InPhase
  <2>4. BackedPlan
    BY BackedParts DEF FullInv, SeqInv
  <2>5. PICK p \in Pay : order[p] = sub.plan /\ log[p] = "approved"
    BY <2>2, <2>3, <2>4 DEF BackedPlan, ApprovedOf
  <2>6. toss[p] = "captured"
    BY <2>1, <2>5
    DEF FullInv, IInv, LedgerNotAhead, LedgerComplete, Idle, TypeOK
  <2> QED BY <2>2, <2>5, <2>6
<1> QED BY <1>1, SequentialInvariance, PTL

(* A paid plan that still runs is replaced by a lower one only by a refund  *)
(* (billing.go:640-644): in every run without overlap, whatever fails.      *)
THEOREM NothingLostEarly == SequentialSpec => NoEarlyLoss
<1>1. ASSUME FullInv, [Next /\ OneAtATime]_vars
      PROVE  [(EffectivePlan # Free /\ sub.expires > now /\ sub'.plan < sub.plan) =>
                  \E r \in Refund : Restores(r)]_vars
  <2> SUFFICES ASSUME Next, OneAtATime, EffectivePlan # Free,
                      sub.expires > now, sub'.plan < sub.plan
               PROVE  \E r \in Refund : Restores(r)
    BY <1>1
  <2>1. /\ TypeOK /\ SeqInv /\ LocalsStayTrue
        /\ now \in Int /\ sub.expires \in Int /\ sub.plan \in Nat
    BY <1>1, RowPlans DEF FullInv, IInv, TypeOK, Row, OptTime, Time, NoTime
  <2>2. EffectivePlan = sub.plan /\ sub.status = "active"
    BY <2>1, RowPlans
  <2>3. ~Due
    BY <2>1 DEF Due
  <2>4. sub'.plan # sub.plan
    BY <2>1
  <2>5. ASSUME NEW p \in Pay, ConfirmActivate(p) PROVE FALSE
    <3>1. ~(order[p] < EffectivePlan) /\ sub'.plan = order[p]
      BY <2>1, <2>5 DEF ConfirmActivate, SeqInv, ConfirmationsCurrent, TypeOK, Row
    <3> QED BY <2>2, <3>1
  <2>6. ASSUME NEW b \in Runner, DowngradeUpdate(b) \/ CancellationUpdate(b)
        PROVE  FALSE
    BY <2>1, <2>3, <2>6 DEF DowngradeUpdate, CancellationUpdate, SeqInv, BatchesCurrent
  <2>7. ASSUME \/ \E p \in Pay : \E q \in PaidPlan : HandleBillingCheckout(p, q)
               \/ \E p \in Pay : ConfirmSchedule(p)
               \/ HandleCancelDowngrade \/ CancelRenewalUpdate
               \/ HandleResumeRenewal \/ Tick
        PROVE  sub'.plan = sub.plan
    BY <2>1, <2>2, <2>7
    DEF HandleBillingCheckout, ConfirmSchedule, HandleCancelDowngrade,
        CancelRenewalUpdate, HandleResumeRenewal, Tick, TypeOK, Row
  <2>8. ASSUME NEW r \in Refund, RefundRestore(r) PROVE Restores(r)
    BY <2>1, <2>4, <2>8 DEF RefundRestore, Restores, NoRef, TypeOK
  <2> QED BY <2>4, <2>5, <2>6, <2>7, <2>8, RowSteps DEF RowWrite
<1> QED BY <1>1, SequentialInvariance, PTL DEF SequentialSpec, NoEarlyLoss

(* The money a refund gives back is that of the plan in force               *)
(* (billing_refund.go:171-176), and the plan it falls back to is the best   *)
(* that is still paid for (billing_refund.go:16-45).                        *)
THEOREM RefundRight == SequentialSpec => RefundIsRight
<1>1. ASSUME FullInv, [Next /\ OneAtATime]_vars
      PROVE  [\A r \in Refund : Cancels(r) =>
                 /\ order[ref[r].pay] = sub.plan
                 /\ order[ref[r].pay] # sub.pending]_vars
  <2> SUFFICES ASSUME NEW r \in Refund, Cancels(r)
               PROVE  /\ order[ref[r].pay] = sub.plan
                      /\ order[ref[r].pay] # sub.pending
    OBVIOUS
  <2>1. /\ order[ref[r].pay] = sub.plan /\ ActivePaid(sub) /\ TypeOK
        /\ PendingIsLower
    BY <1>1 DEF FullInv, IInv, SeqInv, RefundsCurrent, Cancels, InPhase
  <2>2. sub.pending # sub.plan
    BY <2>1, RowPlans DEF PendingIsLower, ActivePaid, PaidPlan
  <2> QED BY <2>1, <2>2
<1>2. ASSUME FullInv, [Next /\ OneAtATime]_vars
      PROVE  [\A r \in Refund : Restores(r) /\ faults = 0 =>
                 \A p \in ValidPayments(now) :
                     /\ order[p] <= EffectivePlan'
                     /\ order[p] = sub'.plan =>
                            approvedAt[p] + Month <= sub'.expires]_vars
  <2> SUFFICES ASSUME Next, OneAtATime, NEW r \in Refund, Restores(r), faults = 0,
                      NEW p \in ValidPayments(now)
               PROVE  /\ order[p] <= EffectivePlan'
                      /\ order[p] = sub'.plan =>
                             approvedAt[p] + Month <= sub'.expires
    BY <1>2
  <2>1. TypeOK /\ SeqInv /\ IInv /\ now \in Int /\ now # NoTime
    BY <1>2 DEF FullInv, IInv, TypeOK, Time, NoTime
  <2>2. RefundRestore(r)
    <3>1. ref[r].phase = "found" /\ ref'[r].phase = "idle" /\ sub' # sub
      BY DEF Restores
    <3>2. RowWrite
      BY <3>1, RowSteps DEF Tick
    <3>3. faults' = faults
      BY <2>1, <3>2, RowWriteKeeps
    <3>4. ref'[r] = NoRef => RefundRestore(r)
      BY <2>1, <3>1, <3>2, <3>3 DEF RowWrite, HandleBillingCheckout, ConfirmSchedule,
         ConfirmActivate, HandleCancelDowngrade, CancelRenewalUpdate,
         HandleResumeRenewal, RefundRestore, DowngradeUpdate, CancellationUpdate,
         requests, NoRef, TypeOK
    <3>5. ref'[r] # ref[r]
      BY <3>1
    <3> QED BY <2>1, <3>1, <3>2, <3>4, <3>5 DEF RowWrite, HandleBillingCheckout,
         ConfirmSchedule, ConfirmActivate, HandleCancelDowngrade,
         CancelRenewalUpdate, HandleResumeRenewal, RefundRestore, DowngradeUpdate,
         CancellationUpdate, requests, NoRef, TypeOK
  <2>3. FallbackFound(r)
    BY <2>1, <2>2 DEF RefundRestore, SeqInv, RefundsCurrent
  <2>4. ref[r].backPlan # NoPlan
    BY <2>3 DEF FallbackFound
  <2>5. PICK o \in BestValidPriorPayment(now) :
            ref[r].backPlan = order[o] /\ ref[r].backAt = approvedAt[o]
    BY <2>3, <2>4 DEF FallbackFound
  <2>6. /\ order[p] <= order[o]
        /\ order[p] = order[o] => approvedAt[p] <= approvedAt[o]
        /\ o \in ValidPayments(now)
    <3>1. /\ o \in {x \in ValidPayments(now) :
                       \A y \in ValidPayments(now) : order[y] <= order[x]}
          /\ \A x \in {x \in ValidPayments(now) :
                          \A y \in ValidPayments(now) : order[y] <= order[x]} :
                 approvedAt[x] <= approvedAt[o]
      BY DEF BestValidPriorPayment, Latest
    <3> QED BY <3>1
  <2>7. /\ o \in Pay /\ p \in Pay /\ order[o] \in PaidPlan
        /\ approvedAt[o] + Month > now
    BY <2>6 DEF ValidPayments
  <2>8. /\ approvedAt[o] \in Int /\ approvedAt[p] \in Int /\ Month \in Int
        /\ order[o] \in Int /\ order[p] \in Int
    BY <2>1, <2>7, MonthAssumption, RowPlans DEF TypeOK, OptTime, Time, NoTime
  <2>9. /\ sub'.plan = order[o] /\ sub'.status = "active"
        /\ sub'.expires = approvedAt[o] + Month /\ now' = now
    BY <2>1, <2>2, <2>4, <2>5 DEF RefundRestore, RefundedRow, TypeOK, Row
  <2>10. EffectivePlan' = order[o]
    BY <2>1, <2>7, <2>8, <2>9 DEF EffectivePlan, EffectivePlanFromRow
  <2> QED BY <2>6, <2>8, <2>9, <2>10
<1>3. SequentialSpec => RefundReturnsCurrentPlan
  BY <1>1, SequentialInvariance, PTL DEF SequentialSpec, RefundReturnsCurrentPlan
<1>4. SequentialSpec => RefundKeepsPaidPlans
  BY <1>2, SequentialInvariance, PTL DEF SequentialSpec, RefundKeepsPaidPlans
<1> QED BY <1>3, <1>4 DEF RefundIsRight
=============================================================================
