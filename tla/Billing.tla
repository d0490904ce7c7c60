------------------------------- MODULE Billing -------------------------------
(***************************************************************************)
(* Subscription billing of one organisation (api/billing.go,               *)
(* api/billing_refund.go, billing/plan.go, billing/toss.go).               *)
(*                                                                         *)
(* The database holds one `subscriptions' row per organisation and one     *)
(* `payment_log' row per answered payment confirmation; the payment        *)
(* provider (Toss) holds the money.  None of the handlers runs in a        *)
(* transaction: each SQL statement is atomic on its own and a handler that *)
(* calls Toss holds what it read before the call while everything else     *)
(* goes on.  A handler is therefore a sequence of actions, one per place   *)
(* where another actor can get in between, and its record (conf, ref,      *)
(* downgrade, ...) keeps the values the code holds in local variables.     *)
(*                                                                         *)
(* A plan is its index in billing.PlanOrder, so PlanRank is the identity.  *)
(* SQL NULL is NoPlan or NoTime.                                           *)
(***************************************************************************)
EXTENDS Integers, FiniteSets

CONSTANTS
    MaxRank,        \* index of the highest plan (3 in billing.PlanOrder)
    Month,          \* clock ticks of one billing period (AddDate(0, 1, 0))
    Pay,            \* payment keys, one for each order that is ever created
    NoPay,          \* no payment key
    Refund,         \* concurrent POST /api/billing/refund-request handlers
    Runner,         \* who runs a batch: the daily ticker, the admin endpoint
    LastRequest,    \* bound: no confirmation starts after this instant
    MaxTime,        \* bound: the clock stops here
    UploadEnd,      \* bound: documents are uploaded before this instant
    MaxEntries,     \* bound: pipeline entries alive at the same time
    MaxFaults       \* bound: failed statements, lost answers, restarts

ASSUME MaxRankAssumption == MaxRank \in Nat \ {0}
ASSUME MonthAssumption == Month \in Nat \ {0}
ASSUME PayAssumption == NoPay \notin Pay
ASSUME BoundsAssumption == /\ MaxTime \in Nat
                           /\ LastRequest \in Nat /\ UploadEnd \in Nat
                           /\ MaxEntries \in Nat /\ MaxFaults \in Nat

NoPlan == -1
NoTime == -1
Free == 0
PaidPlan == 1 .. MaxRank
Plan == 0 .. MaxRank

VARIABLES
    now,            \* the clock
    sub,            \* the organisation's subscriptions row
    order,          \* plan encoded in the order id of each payment
    toss,           \* what Toss did with each payment
    approvedAt,     \* Toss' approval time of each payment
    log,            \* payment_log status of each payment
    conf,           \* confirmation request of each payment
    ref,            \* refund requests
    cancelReq,      \* a cancel-renewal request that has passed its check
    downgrade,      \* target loaded by each run of ApplyScheduledDowngrades
    cancellation,   \* target loaded by each run of ApplyScheduledCancellations
    docAt,          \* upload time of the latest company_documents row
    entryAt,        \* creation times of the live notice_pipeline_entries rows
    faults          \* faults so far

usage == <<docAt, entryAt>>
money == <<order, toss, approvedAt>>
requests == <<conf, ref, cancelReq, downgrade, cancellation>>
vars == <<now, sub, order, toss, approvedAt, log, conf, ref, cancelReq,
          downgrade, cancellation, docAt, entryAt, faults>>

NoRow == [status |-> "none", plan |-> Free, started |-> NoTime,
          expires |-> NoTime, pending |-> NoPlan, cancel |-> FALSE,
          prevPlan |-> NoPlan, prevExpires |-> NoTime]
NoConf == [phase |-> "idle", downgrade |-> FALSE, at |-> NoTime,
           prevPlan |-> NoPlan, prevExpires |-> NoTime]
NoRef == [phase |-> "idle", plan |-> NoPlan, pay |-> NoPay, at |-> NoTime,
          backPlan |-> NoPlan, backAt |-> NoTime]
NoTarget == [plan |-> NoPlan, expires |-> NoTime]

Init ==
    /\ now = 0
    /\ sub = NoRow
    /\ order = [p \in Pay |-> NoPlan]
    /\ toss = [p \in Pay |-> "none"]
    /\ approvedAt = [p \in Pay |-> NoTime]
    /\ log = [p \in Pay |-> "none"]
    /\ conf = [p \in Pay |-> NoConf]
    /\ ref = [r \in Refund |-> NoRef]
    /\ cancelReq = FALSE
    /\ downgrade = [b \in Runner |-> NoTarget]
    /\ cancellation = [b \in Runner |-> FALSE]
    /\ docAt = NoTime
    /\ entryAt = {}
    /\ faults = 0

-----------------------------------------------------------------------------
(* Which plan governs the feature limits right now. *)
EffectivePlanFromRow(s) ==
    IF s.status # "active" \/ (s.expires # NoTime /\ s.expires < now)
    THEN Free ELSE s.plan

EffectivePlan == EffectivePlanFromRow(sub)

ActivePaid(s) == s.plan # Free /\ s.status = "active" /\ s.started # NoTime

(* serviceUsageSince(since).hasUsage(): rows that still exist and were      *)
(* created in the billing period.                                          *)
HasUsageSince(since) ==
    \/ docAt # NoTime /\ docAt >= since
    \/ \E t \in entryAt : t >= since

Tick ==
    /\ now < MaxTime
    /\ now' = now + 1
    /\ UNCHANGED <<sub, money, log, requests, usage, faults>>

-----------------------------------------------------------------------------
(* POST /api/billing/checkout: a fresh order id; a placeholder row only if  *)
(* the organisation never had one.                                         *)
HandleBillingCheckout(p, q) ==
    /\ order[p] = NoPlan
    /\ order' = [order EXCEPT ![p] = q]
    /\ sub' = IF sub.status = "none"
              THEN [sub EXCEPT !.status = "pending", !.plan = q]
              ELSE sub
    /\ UNCHANGED <<now, toss, approvedAt, log, requests, usage, faults>>

(* POST /api/billing/confirm up to the Toss call: the downgrade decision    *)
(* and the previous_plan snapshot come from the row as it is now.          *)
ConfirmRequest(p) ==
    /\ order[p] # NoPlan
    /\ conf[p].phase = "idle"
    /\ now <= LastRequest
    /\ conf' = [conf EXCEPT ![p] =
           [phase |-> "sent",
            downgrade |-> order[p] < EffectivePlan,
            at |-> now,
            prevPlan |-> IF EffectivePlan # Free THEN sub.plan ELSE NoPlan,
            prevExpires |-> IF EffectivePlan # Free THEN sub.expires
                                                    ELSE NoTime]]
    /\ UNCHANGED <<now, sub, money, log, ref, cancelReq, downgrade,
                   cancellation, usage, faults>>

(* Toss captures the money and the answer arrives. *)
TossConfirm(p) ==
    /\ conf[p].phase = "sent"
    /\ toss[p] = "none"
    /\ toss' = [toss EXCEPT ![p] = "captured"]
    /\ approvedAt' = [approvedAt EXCEPT ![p] = now]
    /\ conf' = [conf EXCEPT ![p].phase = "approved"]
    /\ UNCHANGED <<now, sub, order, log, ref, cancelReq, downgrade,
                   cancellation, usage, faults>>

(* Toss refuses: declined, or a key it has already processed. *)
TossReject(p) ==
    /\ conf[p].phase = "sent"
    /\ conf' = [conf EXCEPT ![p].phase = "rejected"]
    /\ UNCHANGED <<now, sub, money, log, ref, cancelReq, downgrade,
                   cancellation, usage, faults>>

(* The payment_log insert of an approved payment. *)
ConfirmLogApproved(p) ==
    /\ conf[p].phase = "approved"
    /\ log' = [log EXCEPT ![p] = "approved"]
    /\ conf' = [conf EXCEPT ![p].phase = "logged"]
    /\ UNCHANGED <<now, sub, money, ref, cancelReq, downgrade,
                   cancellation, usage, faults>>

(* Mutant: no return after a refused payment. *)
GoesOnAfterRefusal(p) ==
    /\ conf[p].phase = "rejected"
    /\ log' = [log EXCEPT ![p] = IF @ = "none" THEN "failed" ELSE @]
    /\ conf' = [conf EXCEPT ![p].phase = "logged"]
    /\ UNCHANGED <<now, sub, money, ref, cancelReq, downgrade,
                   cancellation, usage, faults>>

(* The payment_log insert of a refused payment; the handler ends with 402. *)
ConfirmLogFailed(p) ==
    /\ conf[p].phase = "rejected"
    /\ log' = [log EXCEPT ![p] = IF @ = "none" THEN "failed" ELSE @]
    /\ conf' = [conf EXCEPT ![p] = NoConf]
    /\ UNCHANGED <<now, sub, money, ref, cancelReq, downgrade,
                   cancellation, usage, faults>>

(* A lower plan than the one read before the Toss call: only pending_plan.  *)
ConfirmSchedule(p) ==
    /\ conf[p].phase = "logged"
    /\ conf[p].downgrade
    /\ sub' = [sub EXCEPT !.pending = order[p]]
    /\ conf' = [conf EXCEPT ![p] = NoConf]
    /\ UNCHANGED <<now, money, log, ref, cancelReq, downgrade,
                   cancellation, usage, faults>>

(* Immediate application: upgrade, same plan, or new subscription. *)
ConfirmActivate(p) ==
    /\ conf[p].phase = "logged"
    /\ ~conf[p].downgrade
    /\ sub' = [sub EXCEPT !.plan = order[p],
                          !.status = "active",
                          !.started = conf[p].at,
                          !.expires = conf[p].at + Month,
                          !.pending = NoPlan,
                          !.prevPlan = conf[p].prevPlan,
                          !.prevExpires = conf[p].prevExpires]
    /\ conf' = [conf EXCEPT ![p] = NoConf]
    /\ UNCHANGED <<now, money, log, ref, cancelReq, downgrade,
                   cancellation, usage, faults>>

-----------------------------------------------------------------------------
(* POST /api/billing/cancel-downgrade: one guarded UPDATE. *)
HandleCancelDowngrade ==
    /\ sub.pending # NoPlan
    /\ sub' = [sub EXCEPT !.pending = NoPlan]
    /\ UNCHANGED <<now, money, log, requests, usage, faults>>

(* POST /api/billing/cancel-renewal: the check ... *)
CancelRenewalFetch ==
    /\ ~cancelReq
    /\ ActivePaid(sub)
    /\ cancelReq' = TRUE
    /\ UNCHANGED <<now, sub, money, log, conf, ref, downgrade, cancellation,
                   usage, faults>>

(* ... and the UPDATE by id. *)
CancelRenewalUpdate ==
    /\ cancelReq
    /\ cancelReq' = FALSE
    /\ sub' = [sub EXCEPT !.cancel = TRUE, !.pending = NoPlan]
    /\ UNCHANGED <<now, money, log, conf, ref, downgrade, cancellation,
                   usage, faults>>

(* POST /api/billing/resume-renewal: one guarded UPDATE. *)
HandleResumeRenewal ==
    /\ sub.cancel
    /\ sub' = [sub EXCEPT !.cancel = FALSE]
    /\ UNCHANGED <<now, money, log, requests, usage, faults>>

-----------------------------------------------------------------------------
(* POST /api/billing/refund-request. *)

(* fetchActivePaidSubscription and serviceUsageSince. *)
RefundCheck(r) ==
    /\ ref[r].phase = "idle"
    /\ ActivePaid(sub)
    /\ ~HasUsageSince(sub.started)
    /\ ref' = [ref EXCEPT ![r].phase = "checked", ![r].plan = sub.plan]
    /\ UNCHANGED <<now, sub, money, log, conf, cancelReq, downgrade,
                   cancellation, usage, faults>>

ApprovedOf(q) == {p \in Pay : log[p] = "approved" /\ order[p] = q}

Latest(S) == {p \in S : \A o \in S : approvedAt[o] <= approvedAt[p]}

(* The latest approved payment of the plan that was read. *)
RefundPick(r) ==
    /\ ref[r].phase = "checked"
    /\ \E p \in Latest(ApprovedOf(ref[r].plan)) :
           ref' = [ref EXCEPT ![r].phase = "picked", ![r].pay = p]
    /\ UNCHANGED <<now, sub, money, log, conf, cancelReq, downgrade,
                   cancellation, usage, faults>>

(* no_payment_to_refund *)
RefundNothing(r) ==
    /\ ref[r].phase = "checked"
    /\ ApprovedOf(ref[r].plan) = {}
    /\ ref' = [ref EXCEPT ![r] = NoRef]
    /\ UNCHANGED <<now, sub, money, log, conf, cancelReq, downgrade,
                   cancellation, usage, faults>>

(* Toss cancels the payment and the answer arrives. *)
TossCancel(r) ==
    /\ ref[r].phase = "picked"
    /\ toss[ref[r].pay] = "captured"
    /\ toss' = [toss EXCEPT ![ref[r].pay] = "cancelled"]
    /\ ref' = [ref EXCEPT ![r].phase = "cancelled"]
    /\ UNCHANGED <<now, sub, order, approvedAt, log, conf, cancelReq,
                   downgrade, cancellation, usage, faults>>

(* Mutant: the error of the cancel call is ignored. *)
IgnoresCancelError(r) ==
    /\ ref[r].phase = "picked"
    /\ ref' = [ref EXCEPT ![r].phase = "cancelled"]
    /\ UNCHANGED <<now, sub, money, log, conf, cancelReq, downgrade,
                   cancellation, usage, faults>>

(* Toss refuses (already cancelled, or an error): 502, nothing written. *)
TossCancelReject(r) ==
    /\ ref[r].phase = "picked"
    /\ ref' = [ref EXCEPT ![r] = NoRef]
    /\ UNCHANGED <<now, sub, money, log, conf, cancelReq, downgrade,
                   cancellation, usage, faults>>

(* The payment_log update. *)
RefundLog(r) ==
    /\ ref[r].phase = "cancelled"
    /\ log' = [log EXCEPT ![ref[r].pay] = "refunded"]
    /\ ref' = [ref EXCEPT ![r].phase = "logged", ![r].at = now]
    /\ UNCHANGED <<now, sub, money, conf, cancelReq, downgrade,
                   cancellation, usage, faults>>

(* Mutant: refunded payments still count. *)
CountsRefunded(t) ==
    {p \in Pay : /\ log[p] \in {"approved", "refunded"}
                 /\ order[p] \in PaidPlan
                 /\ approvedAt[p] + Month > t}

(* Approved payments whose month has not passed at time t. *)
ValidPayments(t) ==
    {p \in Pay : /\ log[p] = "approved"
                 /\ order[p] \in PaidPlan
                 /\ approvedAt[p] + Month > t}

(* Mutant: the latest payment, not the highest plan. *)
LatestPriorPayment(t) == Latest(ValidPayments(t))

(* Highest plan first, then the latest approval. *)
BestValidPriorPayment(t) ==
    LET valid == ValidPayments(t)
        top == {p \in valid : \A o \in valid : order[o] <= order[p]}
    IN  Latest(top)

RefundFallback(r) ==
    /\ ref[r].phase = "logged"
    /\ \/ \E p \in BestValidPriorPayment(ref[r].at) :
              ref' = [ref EXCEPT ![r].phase = "found",
                                 ![r].backPlan = order[p],
                                 ![r].backAt = approvedAt[p]]
       \/ /\ ValidPayments(ref[r].at) = {}
          /\ ref' = [ref EXCEPT ![r].phase = "found"]
    /\ UNCHANGED <<now, sub, money, log, conf, cancelReq, downgrade,
                   cancellation, usage, faults>>

(* The row after a refund: the fallback payment's plan and period, or Free. *)
RefundedRow(f) ==
    [sub EXCEPT !.plan = IF f.backPlan = NoPlan THEN Free ELSE f.backPlan,
                !.status = "active",
                !.started = IF f.backPlan = NoPlan THEN f.at ELSE f.backAt,
                !.expires = IF f.backPlan = NoPlan THEN NoTime
                                                   ELSE f.backAt + Month,
                !.pending = NoPlan,
                !.cancel = FALSE,
                !.prevPlan = NoPlan,
                !.prevExpires = NoTime]

RefundRestore(r) ==
    /\ ref[r].phase = "found"
    /\ sub' = RefundedRow(ref[r])
    /\ ref' = [ref EXCEPT ![r] = NoRef]
    /\ UNCHANGED <<now, money, log, conf, cancelReq, downgrade,
                   cancellation, usage, faults>>

-----------------------------------------------------------------------------
(* Mutant: rows without an end (NULL) are due. *)
SelectsEndless(b) ==
    /\ downgrade[b] = NoTarget
    /\ sub.pending # NoPlan
    /\ sub.status = "active"
    /\ sub.expires <= now
    /\ downgrade' = [downgrade EXCEPT ![b] = [plan |-> sub.pending,
                                              expires |-> sub.expires]]
    /\ UNCHANGED <<now, sub, money, log, conf, ref, cancelReq, cancellation,
                   usage, faults>>

(* Mutant: rows whose period is not over are due. *)
SelectsRunning(b) ==
    /\ downgrade[b] = NoTarget
    /\ sub.pending # NoPlan
    /\ sub.status = "active"
    /\ sub.expires # NoTime
    /\ downgrade' = [downgrade EXCEPT ![b] = [plan |-> sub.pending,
                                              expires |-> sub.expires]]
    /\ UNCHANGED <<now, sub, money, log, conf, ref, cancelReq, cancellation,
                   usage, faults>>

(* ApplyScheduledDowngrades: SELECT, then UPDATE by id with what was read.  *)
DowngradeSelect(b) ==
    /\ downgrade[b] = NoTarget
    /\ sub.pending # NoPlan
    /\ sub.status = "active"
    /\ sub.expires # NoTime
    /\ sub.expires <= now
    /\ downgrade' = [downgrade EXCEPT ![b] = [plan |-> sub.pending,
                                              expires |-> sub.expires]]
    /\ UNCHANGED <<now, sub, money, log, conf, ref, cancelReq, cancellation,
                   usage, faults>>

DowngradeUpdate(b) ==
    /\ downgrade[b] # NoTarget
    /\ sub' = [sub EXCEPT !.plan = downgrade[b].plan,
                          !.started = downgrade[b].expires,
                          !.expires = downgrade[b].expires + Month,
                          !.pending = NoPlan,
                          !.prevPlan = NoPlan,
                          !.prevExpires = NoTime]
    /\ downgrade' = [downgrade EXCEPT ![b] = NoTarget]
    /\ UNCHANGED <<now, money, log, conf, ref, cancelReq, cancellation,
                   usage, faults>>

(* ApplyScheduledCancellations: SELECT ids, then UPDATE by id. *)
CancellationSelect(b) ==
    /\ ~cancellation[b]
    /\ sub.cancel
    /\ sub.status = "active"
    /\ sub.expires # NoTime
    /\ sub.expires <= now
    /\ cancellation' = [cancellation EXCEPT ![b] = TRUE]
    /\ UNCHANGED <<now, sub, money, log, conf, ref, cancelReq, downgrade,
                   usage, faults>>

CancellationUpdate(b) ==
    /\ cancellation[b]
    /\ sub' = [sub EXCEPT !.plan = Free,
                          !.status = "active",
                          !.started = now,
                          !.expires = NoTime,
                          !.cancel = FALSE,
                          !.prevPlan = NoPlan,
                          !.prevExpires = NoTime]
    /\ cancellation' = [cancellation EXCEPT ![b] = FALSE]
    /\ UNCHANGED <<now, money, log, conf, ref, cancelReq, downgrade,
                   usage, faults>>

-----------------------------------------------------------------------------
(* The two uses of the service that serviceUsageSince looks at. *)

(* A document upload passes checkAIAnalysisQuota, which is 0 on Free. *)
UploadDocument ==
    /\ EffectivePlan # Free
    /\ now < UploadEnd
    /\ docAt' = now
    /\ UNCHANGED <<now, sub, money, log, requests, entryAt, faults>>

CreatePipelineEntry ==
    /\ Cardinality(entryAt) < MaxEntries
    /\ entryAt' = entryAt \cup {now}
    /\ UNCHANGED <<now, sub, money, log, requests, docAt, faults>>

HandleDeletePipelineEntry ==
    /\ \E t \in entryAt : entryAt' = entryAt \ {t}
    /\ UNCHANGED <<now, sub, money, log, requests, docAt, faults>>

-----------------------------------------------------------------------------
(* What goes wrong.  Every handler runs on the request's context: when the  *)
(* client goes away, or the process stops, the Toss call in progress        *)
(* returns an error although Toss may still act on it, and every later      *)
(* statement fails.                                                        *)
Fault == faults < MaxFaults /\ faults' = faults + 1

(* Toss acts on the calls of the payments in S, and nobody hears of it. *)
TossActsUnheard(S, C) ==
    /\ toss' = [p \in Pay |-> IF p \in S THEN "captured"
                              ELSE IF p \in C THEN "cancelled" ELSE toss[p]]
    /\ approvedAt' = [p \in Pay |-> IF p \in S THEN now ELSE approvedAt[p]]

(* A timeout (15 s) of the Toss call that captured the money. *)
TossConfirmTimeout(p) ==
    /\ Fault
    /\ conf[p].phase = "sent"
    /\ toss[p] = "none"
    /\ TossActsUnheard({p}, {})
    /\ conf' = [conf EXCEPT ![p].phase = "rejected"]
    /\ UNCHANGED <<now, sub, order, log, ref, cancelReq, downgrade,
                   cancellation, usage>>

(* The payment_log insert fails: logged and ignored. *)
ConfirmLogLost(p) ==
    /\ Fault
    /\ conf[p].phase = "approved"
    /\ conf' = [conf EXCEPT ![p].phase = "logged"]
    /\ UNCHANGED <<now, sub, money, log, ref, cancelReq, downgrade,
                   cancellation, usage>>

(* The client goes away, or the last UPDATE fails. *)
ConfirmAbort(p) ==
    /\ Fault
    /\ conf[p].phase # "idle"
    /\ \E S \in SUBSET {o \in {p} : conf[o].phase = "sent" /\ toss[o] = "none"} :
           TossActsUnheard(S, {})
    /\ conf' = [conf EXCEPT ![p] = NoConf]
    /\ UNCHANGED <<now, sub, order, log, ref, cancelReq, downgrade,
                   cancellation, usage>>

(* The same for a refund. *)
RefundAbort(r) ==
    /\ Fault
    /\ ref[r].phase # "idle"
    /\ \E C \in SUBSET {p \in Pay : /\ ref[r].phase = "picked"
                                    /\ ref[r].pay = p
                                    /\ toss[p] = "captured"} :
           TossActsUnheard({}, C)
    /\ ref' = [ref EXCEPT ![r] = NoRef]
    /\ UNCHANGED <<now, sub, order, log, conf, cancelReq, downgrade,
                   cancellation, usage>>

(* The fallback lookup fails: Free is written. *)
RefundFallbackLost(r) ==
    /\ Fault
    /\ ref[r].phase = "logged"
    /\ ref' = [ref EXCEPT ![r].phase = "found"]
    /\ UNCHANGED <<now, sub, money, log, conf, cancelReq, downgrade,
                   cancellation, usage>>

(* A cancel-renewal UPDATE, or the UPDATE of one batch row, fails: the row  *)
(* stays as it is.                                                         *)
CancelRenewalAbort ==
    /\ Fault
    /\ cancelReq
    /\ cancelReq' = FALSE
    /\ UNCHANGED <<now, sub, money, log, conf, ref, downgrade, cancellation,
                   usage>>

BatchAbort(b) ==
    /\ Fault
    /\ \/ /\ downgrade[b] # NoTarget
          /\ downgrade' = [downgrade EXCEPT ![b] = NoTarget]
          /\ cancellation' = cancellation
       \/ /\ cancellation[b]
          /\ cancellation' = [cancellation EXCEPT ![b] = FALSE]
          /\ downgrade' = downgrade
    /\ UNCHANGED <<now, sub, money, log, conf, ref, cancelReq, usage>>

(* The API server stops and starts again: nothing in flight survives. *)
Restart ==
    /\ Fault
    /\ \E S \in SUBSET {p \in Pay : conf[p].phase = "sent" /\ toss[p] = "none"},
          C \in SUBSET {p \in Pay : /\ toss[p] = "captured"
                                    /\ \E r \in Refund : /\ ref[r].phase = "picked"
                                                         /\ ref[r].pay = p} :
           TossActsUnheard(S, C)
    /\ conf' = [p \in Pay |-> NoConf]
    /\ ref' = [r \in Refund |-> NoRef]
    /\ cancelReq' = FALSE
    /\ downgrade' = [b \in Runner |-> NoTarget]
    /\ cancellation' = [b \in Runner |-> FALSE]
    /\ UNCHANGED <<now, sub, order, log, usage>>

-----------------------------------------------------------------------------
ConfirmNext(p) ==
    \/ \E q \in PaidPlan : HandleBillingCheckout(p, q)
    \/ ConfirmRequest(p) \/ TossConfirm(p) \/ TossReject(p)
    \/ ConfirmLogApproved(p) \/ ConfirmLogFailed(p)
    \/ ConfirmSchedule(p) \/ ConfirmActivate(p)
    \/ TossConfirmTimeout(p) \/ ConfirmLogLost(p) \/ ConfirmAbort(p)

RefundNext(r) ==
    \/ RefundCheck(r) \/ RefundPick(r) \/ RefundNothing(r)
    \/ TossCancel(r) \/ TossCancelReject(r)
    \/ RefundLog(r) \/ RefundFallback(r) \/ RefundRestore(r)
    \/ RefundAbort(r) \/ RefundFallbackLost(r)

BatchNext(b) ==
    \/ DowngradeSelect(b) \/ DowngradeUpdate(b)
    \/ CancellationSelect(b) \/ CancellationUpdate(b)
    \/ BatchAbort(b)

Next ==
    \/ Tick
    \/ \E p \in Pay : ConfirmNext(p)
    \/ \E r \in Refund : RefundNext(r)
    \/ \E b \in Runner : BatchNext(b)
    \/ HandleCancelDowngrade \/ CancelRenewalFetch \/ CancelRenewalUpdate
    \/ HandleResumeRenewal
    \/ UploadDocument \/ CreatePipelineEntry \/ HandleDeletePipelineEntry
    \/ CancelRenewalAbort \/ Restart

Spec == Init /\ [][Next]_vars

(* The handlers and batch runs between their first and last statement.      *)
Running ==
    {<<"confirm", p>> : p \in {o \in Pay : conf[o].phase # "idle"}}
    \cup {<<"refund", r>> : r \in {o \in Refund : ref[o].phase # "idle"}}
    \cup {<<"downgrade", b>> : b \in {o \in Runner : downgrade[o] # NoTarget}}
    \cup {<<"cancellation", b>> : b \in {o \in Runner : cancellation[o]}}
    \cup (IF cancelReq THEN {<<"renewal">>} ELSE {})

Alone == \A x, y \in Running : x = y

(* The schedule in which handlers and batches do not overlap: one runs from *)
(* its first to its last statement before anything else happens.           *)
OneAtATime ==
    /\ Alone'
    /\ Running # {} => requests' # requests

SequentialSpec == Init /\ [][Next /\ OneAtATime]_vars

-----------------------------------------------------------------------------
(* Type invariant of the two databases and of the handlers' local state.   *)
Time == Nat
OptTime == Time \cup {NoTime}
OptPaid == PaidPlan \cup {NoPlan}

Row == [status : {"none", "pending", "active"}, plan : Plan,
        started : OptTime, expires : OptTime, pending : OptPaid,
        cancel : BOOLEAN, prevPlan : OptPaid, prevExpires : OptTime]
Conf == [phase : {"idle", "sent", "approved", "rejected", "logged"},
         downgrade : BOOLEAN, at : OptTime, prevPlan : OptPaid,
         prevExpires : OptTime]
Ref == [phase : {"idle", "checked", "picked", "cancelled", "logged", "found"},
        plan : OptPaid, pay : Pay \cup {NoPay}, at : OptTime,
        backPlan : OptPaid, backAt : OptTime]
Target == [plan : OptPaid, expires : OptTime]

TypeOK ==
    /\ now \in Time
    /\ sub \in Row
    /\ order \in [Pay -> OptPaid]
    /\ toss \in [Pay -> {"none", "captured", "cancelled"}]
    /\ approvedAt \in [Pay -> OptTime]
    /\ log \in [Pay -> {"none", "failed", "approved", "refunded"}]
    /\ conf \in [Pay -> Conf]
    /\ ref \in [Refund -> Ref]
    /\ cancelReq \in BOOLEAN
    /\ downgrade \in [Runner -> Target]
    /\ cancellation \in [Runner -> BOOLEAN]
    /\ docAt \in OptTime
    /\ entryAt \in SUBSET Time
    /\ faults \in Nat

-----------------------------------------------------------------------------
(* Whatever overlaps or fails: a paid plan in force began at or before now  *)
(* and ends exactly one billing period after it began.  Nobody holds a paid *)
(* plan without an end, and no sequence of purchases, scheduled downgrades, *)
(* refunds and stale batch updates runs further ahead than one period.      *)
PaidPeriodBounded ==
    (sub.status = "active" /\ sub.plan # Free) =>
        /\ sub.started \in 0 .. now
        /\ sub.expires = sub.started + Month

(* The previous_plan snapshot, when there is one, is of a paid plan that    *)
(* is not above the plan of the row and does not outlast it, although it is *)
(* read before the Toss call and written after it (billing.go:662-672).     *)
SnapshotIsOlder ==
    sub.prevPlan # NoPlan =>
        /\ sub.status = "active"
        /\ sub.prevPlan <= sub.plan
        /\ sub.prevExpires # NoTime
        /\ sub.prevExpires <= sub.expires

(* Types, the period of the plan in force and the snapshot of the plan      *)
(* before it: whatever overlaps, the row describes a period that was sold.  *)
RowIsSound == TypeOK /\ PaidPeriodBounded /\ SnapshotIsOlder

Paid(q) == \E p \in Pay : order[p] = q /\ toss[p] # "none"

(* Every paid plan that is in force or scheduled was paid for: Toss has     *)
(* captured a payment of that very plan (handleBillingConfirm is the only   *)
(* way in, billing.go:531).                                                *)
PlanWasPaid ==
    \A q \in PaidPlan :
        (sub.status = "active" /\ sub.plan = q) \/ sub.pending = q => Paid(q)

(* payment_log is never ahead of Toss: what it calls approved has been      *)
(* captured, what it calls refunded has been given back.                   *)
LedgerNotAhead ==
    \A p \in Pay :
        /\ log[p] = "approved" => toss[p] # "none"
        /\ log[p] = "refunded" => toss[p] = "cancelled"

(* As long as nothing fails payment_log is not behind either, but for the   *)
(* step a handler in flight is about to take.                              *)
LedgerComplete ==
    faults = 0 =>
        \A p \in Pay :
            /\ toss[p] = "captured" /\ log[p] # "approved" =>
                   conf[p].phase = "approved"
            /\ toss[p] = "cancelled" /\ log[p] # "refunded" =>
                   \E r \in Refund : ref[r].phase = "cancelled" /\ ref[r].pay = p

(* payment_log and Toss tell the same story of the money (billing.go:615,   *)
(* billing_refund.go:204): never ahead, and behind only after a failure.    *)
LedgerMatchesToss == LedgerNotAhead /\ LedgerComplete

(* What a handler keeps in its local variables across a Toss call or        *)
(* between two statements stays true of the rest of the system: a           *)
(* confirmation is for a plan that was ordered, at a past instant, its      *)
(* snapshot is below what it will write, and until it has logged its own    *)
(* payment nobody can have refunded it;                                    *)
ConfirmLocals(p) ==
    /\ toss[p] # "none" => approvedAt[p] \in 0 .. now
    /\ conf[p].phase # "idle" => /\ order[p] # NoPlan
                                 /\ conf[p].at \in 0 .. now
    /\ (/\ conf[p].phase # "idle"
        /\ conf[p].prevPlan # NoPlan
        /\ ~conf[p].downgrade) => /\ conf[p].prevPlan <= order[p]
                                  /\ conf[p].prevExpires # NoTime
                                  /\ conf[p].prevExpires <= conf[p].at + Month
    /\ conf[p].phase \in {"approved", "logged"} => toss[p] # "none"
    /\ conf[p].phase = "approved" => /\ toss[p] = "captured"
                                     /\ log[p] \in {"none", "failed"}

(* a refund that reports success was cancelled at Toss, and falls back to a *)
(* plan that was paid for;                                                 *)
RefundLocals(r) ==
    /\ ref[r].phase \in {"picked", "cancelled"} =>
          /\ ref[r].pay \in Pay
          /\ log[ref[r].pay] \in {"approved", "refunded"}
    /\ ref[r].phase = "cancelled" => toss[ref[r].pay] = "cancelled"
    /\ ref[r].phase \in {"logged", "found"} => ref[r].at \in 0 .. now
    /\ ref[r].backPlan # NoPlan => /\ ref[r].backAt \in 0 .. now
                                   /\ Paid(ref[r].backPlan)

(* a batch target was due when it was read.                                *)
BatchLocals(b) ==
    downgrade[b] # NoTarget => /\ downgrade[b].plan \in PaidPlan
                               /\ downgrade[b].expires \in 0 .. now
                               /\ Paid(downgrade[b].plan)

(* With the invariants above it is inductive: an interleaving that makes a  *)
(* carried value wrong makes the row wrong later (billing.go:606-662).      *)
LocalsStayTrue ==
    /\ \A p \in Pay : ConfirmLocals(p)
    /\ \A r \in Refund : RefundLocals(r)
    /\ \A b \in Runner : BatchLocals(b)

-----------------------------------------------------------------------------
(* Properties of the schedule without overlap (OneAtATime).                *)

Restores(r) == ref[r].phase = "found" /\ ref'[r].phase = "idle" /\ sub' # sub
Cancels(r) == ref[r].phase = "picked" /\ ref'[r].phase = "cancelled"

(* A plan that is paid for and still runs is never replaced by a lower one, *)
(* except by a refund: a lower purchase waits as pending_plan, and the      *)
(* batches touch only rows whose period is over (billing.go:640-644).       *)
NoEarlyLoss ==
    [][(EffectivePlan # Free /\ sub.expires > now /\ sub'.plan < sub.plan) =>
           \E r \in Refund : Restores(r)]_vars

(* After a refund the organisation has the highest plan among the payments  *)
(* that are approved and whose month has not passed, for as long as the     *)
(* latest of them runs: refunding an upgrade does not take the lower plan   *)
(* that was there before (billing_refund.go:16-45), unless something failed. *)
RefundKeepsPaidPlans ==
    [][\A r \in Refund : Restores(r) /\ faults = 0 =>
           \A p \in ValidPayments(now) :
               /\ order[p] <= EffectivePlan'
               /\ order[p] = sub'.plan => approvedAt[p] + Month <= sub'.expires]_vars

(* The money a refund gives back is that of the plan in force, never the    *)
(* advance payment of a scheduled downgrade (billing_refund.go:171-176).    *)
RefundReturnsCurrentPlan ==
    [][\A r \in Refund : Cancels(r) =>
           /\ order[ref[r].pay] = sub.plan
           /\ order[ref[r].pay] # sub.pending]_vars

(* A refund gives back the right payment and falls back to the right plan.  *)
RefundIsRight == RefundKeepsPaidPlans /\ RefundReturnsCurrentPlan

(* Between handlers a paid plan in force rests on a payment of that plan    *)
(* that is approved in payment_log and has not been given back.            *)
PlanInForceIsBacked ==
    (Running = {} /\ faults = 0 /\ EffectivePlan # Free) =>
        \E p \in Pay : /\ order[p] = EffectivePlan
                       /\ toss[p] = "captured"
                       /\ log[p] = "approved"

=============================================================================
