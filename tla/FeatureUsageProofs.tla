------------------------- MODULE FeatureUsageProofs -------------------------
(***************************************************************************)
(* What holds of FeatureUsage for every set of requests and targets, every *)
(* table of limits and every bound.                                        *)
(***************************************************************************)
EXTENDS FeatureUsage, FiniteSetTheorems, TLAPS

LEMMA Constants ==
    /\ Free \in Plan /\ 0 \in Period /\ Lifetime \in Period
    /\ \A f \in Feature, q \in Plan : LimitFor(f, q) \in Int
    /\ \A f \in Feature, q \in Plan : TypeOK => PeriodFor(f, q) \in Period
  BY MaxRankAssumption, LimitAssumption, TrialAssumption, MaxMonthAssumption
  DEF Free, Plan, Period, Lifetime, LimitFor, PeriodFor, TypeOK

LEMMA InitTypeOK == Init => TypeOK
<1> SUFFICES ASSUME Init PROVE TypeOK
  OBVIOUS
<1>1. PICK t \in Target :
         req = [r \in Request |->
                 [phase |-> "idle", feature |-> "review", target |-> t, force |-> FALSE,
                  period |-> 0, limit |-> 0, exists |-> FALSE, used |-> 0,
                  allowed |-> FALSE, reserved |-> FALSE]]
  BY DEF Init
<1>2. req \in [Request -> Rec]
  BY <1>1, Constants DEF Rec, Phase, Feature
<1>3. 0 \in 0..MaxMonth /\ 0 \in 0..MaxPlanChanges /\ 0 \in 0..MaxFaults
  BY BoundAssumption, MaxMonthAssumption
<1>4. plan \in Plan /\ seen \in SUBSET Plan
  BY DEF Init
<1>5. usage = {} /\ drafts = {} /\ changes = 0 /\ month = 0 /\ faults = 0
  BY DEF Init
<1> QED BY <1>2, <1>3, <1>4, <1>5 DEF TypeOK

(* Replacing one request's record keeps the type of all. *)
LEMMA Replace ==
  ASSUME req \in [Request -> Rec], NEW r \in Request, NEW c \in Rec
  PROVE  /\ [req EXCEPT ![r] = c] \in [Request -> Rec]
         /\ [req EXCEPT ![r] = c][r] = c
         /\ \A q \in Request \ {r} : [req EXCEPT ![r] = c][q] = req[q]
  OBVIOUS

LEMMA GotoType ==
  ASSUME req \in [Request -> Rec], NEW r \in Request, NEW p \in Phase, Goto(r, p)
  PROVE  /\ req' \in [Request -> Rec]
         /\ req' = [req EXCEPT ![r].phase = p]
  BY DEF Goto, Rec

LEMMA RowType ==
  ASSUME req \in [Request -> Rec], NEW r \in Request
  PROVE  Row(r) \in [key: Key, subject: Subject] /\ KeyOf(r) \in Key
<1>1. req[r] \in Rec
  OBVIOUS
<1> QED BY <1>1 DEF Row, KeyOf, SubjectOf, Key, Subject, Rec

(* What is fixed once a request has asked: everything its row is made of. *)
Fixed(q) ==
    /\ req'[q].feature = req[q].feature
    /\ req'[q].target = req[q].target
    /\ req'[q].period = req[q].period
    /\ req'[q].limit = req[q].limit

LEMMA FixedRow ==
  ASSUME NEW q, Fixed(q)
  PROVE  Row(q)' = Row(q) /\ KeyOf(q)' = KeyOf(q) /\ SubjectOf(q)' = SubjectOf(q)
  BY DEF Fixed, Row, KeyOf, SubjectOf

(* A step of request r that only moves it to phase p. *)
Moves(r, p) ==
    /\ req' \in [Request -> Rec]
    /\ req'[r].phase = p
    /\ \A q \in Request : q # r => req'[q] = req[q]
    /\ Fixed(r)
    /\ req'[r].allowed = req[r].allowed
    /\ req'[r].reserved = req[r].reserved
    /\ req'[r].exists = req[r].exists
    /\ req'[r].used = req[r].used

LEMMA GotoMoves ==
  ASSUME req \in [Request -> Rec], NEW r \in Request, NEW p \in Phase, Goto(r, p)
  PROVE  Moves(r, p)
<1>1. req[r] \in Rec
  OBVIOUS
<1>2. [req[r] EXCEPT !.phase = p] \in Rec
  BY <1>1 DEF Rec
<1>3. req' = [req EXCEPT ![r] = [req[r] EXCEPT !.phase = p]]
  BY DEF Goto
<1>4. req'[r] = [req[r] EXCEPT !.phase = p]
  BY <1>3
<1> QED BY <1>1, <1>2, <1>3, <1>4 DEF Moves, Fixed, Rec

(* What is counted is finite, so its cardinality is a number. *)
LEMMA Counting ==
  ASSUME IsFiniteSet(usage), NEW k
  PROVE  IsFiniteSet(Used(k)) /\ Cardinality(Used(k)) \in Nat
  BY FS_Subset, FS_CardinalityType DEF Used

-----------------------------------------------------------------------------
(* What each step does to the records of the requests. *)

(* A step of request r leaves the other requests alone. *)
Only(r) ==
    /\ req' \in [Request -> Rec]
    /\ \A q \in Request : q # r => req'[q] = req[q]

LEMMA OnlyReplaced ==
  ASSUME req \in [Request -> Rec], NEW r \in Request, NEW c \in Rec,
         req' = [req EXCEPT ![r] = c]
  PROVE  Only(r) /\ req'[r] = c
  BY Replace DEF Only

LEMMA AskStep ==
  ASSUME TypeOK, NEW r \in Request, NEW f \in Feature, NEW t \in Target, Ask(r, f, t)
  PROVE  /\ Only(r)
         /\ req'[r] = [req[r] EXCEPT !.phase = "admitted", !.feature = f, !.target = t]
<1>1. req[r] \in Rec
  BY DEF TypeOK
<1>2. [req[r] EXCEPT !.phase = "admitted", !.feature = f, !.target = t] \in Rec
  BY <1>1 DEF Rec, Phase
<1>3. req' = [req EXCEPT ![r] =
                [req[r] EXCEPT !.phase = "admitted", !.feature = f, !.target = t]]
  BY DEF Ask
<1> QED BY <1>2, <1>3, OnlyReplaced DEF TypeOK

LEMMA AskDraftStep ==
  ASSUME TypeOK, NEW r \in Request, NEW t \in Target, NEW b \in BOOLEAN, AskDraft(r, t, b)
  PROVE  /\ Only(r)
         /\ req'[r].phase \in {"gated", "refused"}
         /\ req'[r].reserved = req[r].reserved /\ req'[r].allowed = req[r].allowed
<1>1. req[r] \in Rec
  BY DEF TypeOK
<1>2. PICK p \in {"gated", "refused"} :
        req' = [req EXCEPT ![r].phase = p, ![r].feature = "draft",
                           ![r].target = t, ![r].force = b]
  BY Zenon DEF AskDraft
<1>3. [req[r] EXCEPT !.phase = p, !.feature = "draft", !.target = t, !.force = b] \in Rec
  BY <1>1 DEF Rec, Phase, Answered, Feature
<1>4. req' = [req EXCEPT ![r] =
                [req[r] EXCEPT !.phase = p, !.feature = "draft", !.target = t, !.force = b]]
  BY <1>2
<1>5. Only(r) /\ req'[r] = [req[r] EXCEPT !.phase = p, !.feature = "draft",
                                          !.target = t, !.force = b]
  BY <1>3, <1>4, OnlyReplaced DEF TypeOK
<1> QED BY <1>1, <1>5 DEF Rec

LEMMA PriceStep ==
  ASSUME TypeOK, NEW r \in Request, Price(r)
  PROVE  /\ Only(r)
         /\ \E p \in {"priced", "asking"} :
              req'[r] = [req[r] EXCEPT !.phase = p,
                           !.period = PeriodFor(req[r].feature, plan),
                           !.limit = LimitFor(req[r].feature, plan)]
<1>1. req[r] \in Rec /\ req[r].feature \in Feature /\ plan \in Plan
  BY DEF TypeOK, Rec
<1>2. PICK p \in {"priced", "asking"} :
        req' = [req EXCEPT ![r].phase = p,
                           ![r].period = PeriodFor(req[r].feature, plan),
                           ![r].limit = LimitFor(req[r].feature, plan)]
  BY Zenon DEF Price
<1>3. PeriodFor(req[r].feature, plan) \in Period /\ LimitFor(req[r].feature, plan) \in Int
  BY <1>1, Constants
<1>4. [req[r] EXCEPT !.phase = p, !.period = PeriodFor(req[r].feature, plan),
                     !.limit = LimitFor(req[r].feature, plan)] \in Rec
  BY <1>1, <1>3 DEF Rec, Phase
<1>5. req' = [req EXCEPT ![r] =
                [req[r] EXCEPT !.phase = p, !.period = PeriodFor(req[r].feature, plan),
                               !.limit = LimitFor(req[r].feature, plan)]]
  BY <1>2
<1> QED BY <1>4, <1>5, OnlyReplaced DEF TypeOK

LEMMA PeekStep ==
  ASSUME TypeOK, NEW r \in Request, Peek(r)
  PROVE  \/ /\ Only(r) /\ Row(r) \in usage
            /\ req'[r] = [req[r] EXCEPT !.phase = "served", !.allowed = TRUE]
         \/ Moves(r, "asking")
<1>1. req[r] \in Rec
  BY DEF TypeOK
<1>2. CASE Row(r) \in usage
  <2>1. [req[r] EXCEPT !.phase = "served", !.allowed = TRUE] \in Rec
    BY <1>1 DEF Rec, Phase, Answered
  <2>2. req' = [req EXCEPT ![r] = [req[r] EXCEPT !.phase = "served", !.allowed = TRUE]]
    BY <1>2 DEF Peek
  <2> QED BY <1>2, <2>1, <2>2, OnlyReplaced DEF TypeOK
<1>3. CASE Row(r) \notin usage
  BY <1>3, GotoMoves DEF Peek, TypeOK, Phase
<1> QED BY <1>2, <1>3

LEMMA ReadExistsStep ==
  ASSUME TypeOK, NEW r \in Request, ReadExists(r)
  PROVE  /\ Only(r)
         /\ \E b \in BOOLEAN :
              /\ b <=> Row(r) \in usage
              /\ req'[r] = [req[r] EXCEPT !.phase = "looked", !.exists = b]
<1>1. req[r] \in Rec
  BY DEF TypeOK
<1>2. ASSUME NEW b \in BOOLEAN, b <=> Row(r) \in usage
      PROVE  /\ Only(r)
             /\ req'[r] = [req[r] EXCEPT !.phase = "looked", !.exists = b]
  <2>1. b = (Row(r) \in usage)
    BY <1>2, Zenon
  <2>2. req' = [req EXCEPT ![r].phase = "looked", ![r].exists = b]
    BY <2>1, Zenon DEF ReadExists
  <2>3. req' = [req EXCEPT ![r] = [req[r] EXCEPT !.phase = "looked", !.exists = b]]
    BY <2>2
  <2>4. [req[r] EXCEPT !.phase = "looked", !.exists = b] \in Rec
    BY <1>1 DEF Rec, Phase, InTx
  <2> QED BY <2>3, <2>4, OnlyReplaced DEF TypeOK
<1>3. \E b \in BOOLEAN : b <=> Row(r) \in usage
  BY Zenon
<1> QED BY <1>2, <1>3, Zenon

LEMMA ReadUsedStep ==
  ASSUME TypeOK, IsFiniteSet(usage), NEW r \in Request, ReadUsed(r)
  PROVE  /\ Only(r)
         /\ req'[r] = [req[r] EXCEPT !.phase = "counted",
                                     !.used = Cardinality(Used(KeyOf(r)))]
<1>1. req[r] \in Rec
  BY DEF TypeOK
<1>2. Cardinality(Used(KeyOf(r))) \in Int
  BY Counting
<1>4. [req[r] EXCEPT !.phase = "counted", !.used = Cardinality(Used(KeyOf(r)))] \in Rec
  BY <1>1, <1>2 DEF Rec, Phase, InTx
<1>3. req' = [req EXCEPT ![r] =
                [req[r] EXCEPT !.phase = "counted", !.used = Cardinality(Used(KeyOf(r)))]]
  BY DEF ReadUsed
<1> QED BY <1>3, <1>4, OnlyReplaced DEF TypeOK

LEMMA AllowStep ==
  ASSUME TypeOK, NEW r \in Request, Allow(r)
  PROVE  /\ Only(r)
         /\ req'[r] = [req[r] EXCEPT !.phase = Allowed(req[r].feature), !.allowed = TRUE,
                                     !.reserved = ~req[r].exists]
<1>1. req[r] \in Rec
  BY DEF TypeOK
<1>2. Allowed(req[r].feature) \in Phase
  BY DEF Allowed, Phase, Answered
<1>3. (~req[r].exists) \in BOOLEAN
  BY Zenon
<1>4. [req[r] EXCEPT !.phase = Allowed(req[r].feature), !.allowed = TRUE,
                     !.reserved = ~req[r].exists] \in Rec
  BY <1>1, <1>2, <1>3 DEF Rec
<1>5. req' = [req EXCEPT ![r] =
                [req[r] EXCEPT !.phase = Allowed(req[r].feature), !.allowed = TRUE,
                               !.reserved = ~req[r].exists]]
  BY DEF Allow
<1> QED BY <1>4, <1>5, OnlyReplaced DEF TypeOK

LEMMA CheckExistingStep ==
  ASSUME TypeOK, NEW r \in Request, CheckExisting(r)
  PROVE  Moves(r, "admitted") \/ Moves(r, "refused")
  BY GotoMoves DEF CheckExisting, TypeOK, Phase, Answered

LEMMA AfterErrorType ==
  ASSUME NEW f \in Feature
  PROVE  /\ AfterError(f) \in {"served", "calling", "failed"}
         /\ AfterError(f) = "calling" => f \in Metered
  BY DEF AfterError, Feature, Metered

(* The phases that the remaining steps move to. *)
LEMMA MoveSteps ==
  ASSUME TypeOK, NEW r \in Request
  PROVE  /\ RefuseZero(r) \/ Deny(r) => Moves(r, "refused")
         /\ TakeLock(r) => Moves(r, "locked")
         /\ CallSucceeds(r) => Moves(r, "served")
         /\ CallFails(r) => Moves(r, IF req[r].reserved THEN "releasing" ELSE "failed")
         /\ Release(r) \/ ReleaseFails(r) => Moves(r, "failed")
         /\ ClientLeaves(r) => Moves(r, "gone")
         /\ LookupFails(r) =>
              /\ req[r].phase \in {"gated", "priced"}
              /\ Moves(r, IF req[r].phase = "gated" THEN "admitted" ELSE "asking")
         /\ TxFails(r) \/ CommitAnswerLost(r) => Moves(r, AfterError(req[r].feature))
         /\ PlanUnreadable(r) =>
              Moves(r, IF req[r].feature = "ocr" THEN "calling" ELSE AfterError(req[r].feature))
<1>1. {"refused", "locked", "served", "releasing", "failed", "gone", "calling",
       "admitted", "asking"} \subseteq Phase
  BY DEF Phase, InTx, Answered
<1>2. req[r].feature \in Feature /\ req \in [Request -> Rec]
  BY DEF TypeOK, Rec
<1>3. AfterError(req[r].feature) \in Phase
  BY <1>1, <1>2, AfterErrorType
<1>4. RefuseZero(r) \/ Deny(r) => Moves(r, "refused")
  BY <1>1, <1>2, GotoMoves DEF RefuseZero, Deny
<1>5. TakeLock(r) => Moves(r, "locked")
  BY <1>1, <1>2, GotoMoves DEF TakeLock
<1>6. CallSucceeds(r) => Moves(r, "served")
  BY <1>1, <1>2, GotoMoves DEF CallSucceeds
<1>7. CallFails(r) => Moves(r, IF req[r].reserved THEN "releasing" ELSE "failed")
  BY <1>1, <1>2, GotoMoves DEF CallFails
<1>8. Release(r) \/ ReleaseFails(r) => Moves(r, "failed")
  BY <1>1, <1>2, GotoMoves DEF Release, ReleaseFails
<1>9. ClientLeaves(r) => Moves(r, "gone")
  BY <1>1, <1>2, GotoMoves DEF ClientLeaves
<1>10. TxFails(r) \/ CommitAnswerLost(r) => Moves(r, AfterError(req[r].feature))
  BY <1>2, <1>3, GotoMoves DEF TxFails, CommitAnswerLost
<1>11. PlanUnreadable(r) =>
        Moves(r, IF req[r].feature = "ocr" THEN "calling" ELSE AfterError(req[r].feature))
  BY <1>1, <1>2, <1>3, GotoMoves DEF PlanUnreadable
<1>12. LookupFails(r) =>
         /\ req[r].phase \in {"gated", "priced"}
         /\ Moves(r, IF req[r].phase = "gated" THEN "admitted" ELSE "asking")
  BY <1>1, <1>2, GotoMoves DEF LookupFails
<1> QED BY <1>4, <1>5, <1>6, <1>7, <1>8, <1>9, <1>10, <1>11, <1>12

LEMMA MovesOnly ==
  ASSUME NEW r, NEW p, Moves(r, p)
  PROVE  Only(r)
  BY DEF Moves, Only

(* A restart ends every request that is running. *)
LEMMA RestartStep ==
  ASSUME TypeOK, Restart, NEW q \in Request
  PROVE  /\ req' \in [Request -> Rec]
         /\ IF req[q].phase \in {"idle"} \cup Answered
              THEN req'[q] = req[q]
              ELSE req'[q] = [req[q] EXCEPT !.phase = "failed"]
<1>1. req[q] \in Rec
  BY DEF TypeOK
<1>2. ASSUME NEW r \in Request PROVE [req[r] EXCEPT !.phase = "failed"] \in Rec
  <2>1. req[r] \in Rec
    BY DEF TypeOK
  <2> QED BY <2>1 DEF Rec, Phase, Answered
<1> QED BY <1>2 DEF Restart, TypeOK

-----------------------------------------------------------------------------
(* The inductive invariant. *)

(* The phases before the transaction of consumeFeatureUsage ends. *)
Before == {"idle", "gated", "admitted", "priced", "asking"} \cup InTx

(* Nothing is allowed or reserved before the transaction ends. *)
NothingYet(r) == req[r].phase \in Before => ~req[r].reserved /\ ~req[r].allowed

(* Only the callers of a provider wait for one and give back, and only what *)
(* they have reserved.                                                       *)
MeteredCall(r) ==
    /\ req[r].phase \in {"calling", "releasing"} => req[r].feature \in Metered
    /\ req[r].phase = "releasing" => req[r].reserved

(* The limit a request has read is the limit of a plan that was in force. *)
LimitInForce(r) ==
    req[r].phase \in {"priced", "asking"} \cup InTx =>
        \E q \in seen : Cap[q][KeyOf(r)] = req[r].limit

(* What was read under the lock: an absent row stays absent until the      *)
(* transaction ends, and the count can only have gone down.                *)
StillAbsent(r) ==
    req[r].phase \in {"looked", "counted"} /\ ~req[r].exists => Row(r) \notin usage

CountBounds(r) ==
    req[r].phase = "counted" => Cardinality(Used(KeyOf(r))) <= req[r].used

(* A row once seen is there, or its owner failed and gave it back. *)
Charged(r) ==
    \/ Row(r) \in usage
    \/ \E q \in Request : Row(q) = Row(r) /\ req[q].reserved /\ req[q].phase = "failed"

Sees(r) ==
    \/ req[r].phase \in {"looked", "counted"} /\ req[r].exists
    \/ req[r].allowed

SeenRow(r) == Sees(r) => Charged(r)

Knows(r) ==
    /\ NothingYet(r)
    /\ MeteredCall(r)
    /\ LimitInForce(r)
    /\ StillAbsent(r)
    /\ CountBounds(r)
    /\ SeenRow(r)

(* The advisory lock. *)
LockExcludes ==
    \A r, q \in Request :
        r # q /\ req[r].phase \in InTx /\ req[q].phase \in InTx => KeyOf(r) # KeyOf(q)

IInv ==
    /\ TypeOK
    /\ IsFiniteSet(usage)
    /\ plan \in seen
    /\ \A r \in Request : Knows(r)
    /\ LockExcludes
    /\ ReservationHeld
    /\ DraftsMatchCharges
    /\ FailuresAreFree

(* Rows determine their request's key; Cap is a constant. *)
LEMMA SameRequest ==
  ASSUME NEW q, req'[q] = req[q]
  PROVE  /\ Row(q)' = Row(q) /\ KeyOf(q)' = KeyOf(q) /\ SubjectOf(q)' = SubjectOf(q)
         /\ Holding(q)' = Holding(q)
  BY DEF Row, KeyOf, SubjectOf, Holding

(* The rows of a key change only through rows of that key. *)
LEMMA UsedSteps ==
  ASSUME IsFiniteSet(usage), NEW k, NEW x
  PROVE  /\ usage' = usage => Used(k)' = Used(k)
         /\ usage' = usage \cup {x} /\ x.key # k => Used(k)' = Used(k)
         /\ usage' = usage \ {x} =>
              Cardinality(Used(k)') <= Cardinality(Used(k))
<1>1. usage' = usage => Used(k)' = Used(k)
  BY DEF Used
<1>2. usage' = usage \cup {x} /\ x.key # k => Used(k)' = Used(k)
  BY DEF Used
<1>3. ASSUME usage' = usage \ {x}
      PROVE  Cardinality(Used(k)') <= Cardinality(Used(k))
  <2>1. Used(k)' \in SUBSET Used(k)
    BY <1>3 DEF Used
  <2> QED BY <2>1, Counting, FS_Subset
<1> QED BY <1>1, <1>2, <1>3

(* A charge once seen stays, or its owner fails and gives it back. *)
LEMMA ChargedKept ==
  ASSUME NEW r \in Request, Only(r), req[r].phase \notin Answered,
         \/ usage \subseteq usage'
         \/ /\ usage' = usage \ {Row(r)}
            /\ Row(r)' = Row(r) /\ req'[r].phase = "failed" /\ req'[r].reserved,
         NEW q \in Request, Row(q)' = Row(q), Charged(q)
  PROVE  Charged(q)'
<1>1. CASE Row(q) \in usage
  <2>1. CASE Row(q) \in usage'
    BY <2>1 DEF Charged
  <2>2. CASE Row(q) \notin usage'
    <3>1. Row(r)' = Row(q)' /\ req'[r].phase = "failed" /\ req'[r].reserved
      BY <1>1, <2>2
    <3> QED BY <3>1 DEF Charged
  <2> QED BY <2>1, <2>2
<1>2. ASSUME NEW w \in Request, Row(w) = Row(q), req[w].reserved, req[w].phase = "failed"
      PROVE  Charged(q)'
  <2>1. w # r
    BY <1>2 DEF Answered
  <2>2. req'[w] = req[w] /\ Row(w)' = Row(w)
    BY <2>1, SameRequest DEF Only
  <2> QED BY <1>2, <2>2 DEF Charged
<1> QED BY <1>1, <1>2 DEF Charged

(* What the requests know survives a step of another request: it changes   *)
(* usage by nothing, by its own new row under the lock, or by giving back.  *)
LEMMA Bystander ==
  ASSUME IInv, NEW r \in Request, Only(r), seen' = seen, req[r].phase \notin Answered,
         \/ usage' = usage
         \/ usage' = usage \cup {Row(r)} /\ req[r].phase = "counted"
         \/ /\ usage' = usage \ {Row(r)}
            /\ Row(r)' = Row(r) /\ req'[r].phase = "failed" /\ req'[r].reserved,
         NEW q \in Request, q # r
  PROVE  Knows(q)'
<1>1. req'[q] = req[q] /\ Row(q)' = Row(q) /\ KeyOf(q)' = KeyOf(q)
  BY SameRequest DEF Only
<1>2. Knows(q) /\ LockExcludes /\ IsFiniteSet(usage) /\ TypeOK
  BY DEF IInv
<1>3. NothingYet(q)' /\ MeteredCall(q)'
  BY <1>1, <1>2 DEF Knows, NothingYet, MeteredCall
<1>4. LimitInForce(q)'
  BY <1>1, <1>2 DEF Knows, LimitInForce, Cap, LimitFor
<1>5. ASSUME req[q].phase \in InTx, req[r].phase = "counted"
      PROVE  KeyOf(q) # KeyOf(r)
  BY <1>2, <1>5 DEF LockExcludes, InTx
<1>6. KeyOf(r) = Row(r).key /\ KeyOf(q) = Row(q).key
  BY DEF Row
<1>7. StillAbsent(q)'
  <2> SUFFICES ASSUME req[q].phase \in {"looked", "counted"}, ~req[q].exists
               PROVE  Row(q) \notin usage'
    BY <1>1 DEF StillAbsent
  <2>1. Row(q) \notin usage
    BY <1>2 DEF Knows, StillAbsent
  <2>2. req[r].phase = "counted" => Row(q) # Row(r)
    BY <1>5, <1>6 DEF InTx
  <2> QED BY <2>1, <2>2
<1>8. CountBounds(q)'
  <2>1. PICK k : k = KeyOf(q)
    OBVIOUS
  <2> SUFFICES ASSUME req[q].phase = "counted"
               PROVE  Cardinality(Used(k)') <= req[q].used
    BY <1>1, <2>1 DEF CountBounds, Used
  <2>2. Cardinality(Used(k)) <= req[q].used /\ req[q].used \in Int
    BY <1>2, <2>1 DEF Knows, CountBounds, TypeOK, Rec
  <2>3. CASE usage' = usage
    BY <2>2, <2>3, <1>2, UsedSteps
  <2>4. CASE usage' = usage \cup {Row(r)} /\ req[r].phase = "counted"
    <3>1. Row(r).key # k
      BY <1>5, <1>6, <2>1, <2>4 DEF InTx
    <3>2. Used(k)' = Used(k)
      BY <2>4, <3>1, <1>2, UsedSteps
    <3> QED BY <2>2, <3>2
  <2>5. CASE usage' = usage \ {Row(r)}
    <3>1. Cardinality(Used(k)') <= Cardinality(Used(k))
      BY <2>5, <1>2, UsedSteps
    <3>2. Used(k)' \subseteq Used(k)
      BY <2>5 DEF Used
    <3>3. Cardinality(Used(k)') \in Nat /\ Cardinality(Used(k)) \in Nat
      BY <3>2, <1>2, Counting, FS_Subset, FS_CardinalityType
    <3> QED BY <2>2, <3>1, <3>3
  <2> QED BY <2>3, <2>4, <2>5
<1>9. SeenRow(q)'
  <2> SUFFICES ASSUME Sees(q) PROVE Charged(q)'
    BY <1>1 DEF SeenRow, Sees
  <2>1. Charged(q)
    BY <1>2 DEF Knows, SeenRow
  <2>2. usage \subseteq usage' \/ usage' = usage \ {Row(r)}
    OBVIOUS
  <2> QED BY <1>1, <2>1, <2>2, ChargedKept
<1> QED BY <1>3, <1>4, <1>7, <1>8, <1>9 DEF Knows

(* A request that moves on by itself still knows what it knew. *)
LEMMA MoveKnows ==
  ASSUME IInv, NEW r \in Request, NEW p \in Phase, Moves(r, p), seen' = seen,
         req[r].phase \notin Answered,
         p \in Before => req[r].phase \in Before,
         p \in {"calling", "releasing"} => req[r].feature \in Metered,
         p = "releasing" => req[r].reserved,
         p \in {"priced", "asking"} \cup InTx =>
           req[r].phase \in {"priced", "asking"} \cup InTx,
         p \notin {"looked", "counted"},
         \/ usage \subseteq usage'
         \/ usage' = usage \ {Row(r)} /\ p = "failed" /\ req[r].reserved
  PROVE  Knows(r)'
<1>1. Knows(r)
  BY DEF IInv
<1>2. Row(r)' = Row(r) /\ KeyOf(r)' = KeyOf(r)
  BY FixedRow DEF Moves
<1>3. NothingYet(r)' /\ MeteredCall(r)'
  BY <1>1 DEF Knows, NothingYet, MeteredCall, Moves, Fixed
<1>4. LimitInForce(r)'
  BY <1>1, <1>2 DEF Knows, LimitInForce, Cap, LimitFor, Moves, Fixed
<1>5. StillAbsent(r)' /\ CountBounds(r)'
  BY DEF StillAbsent, CountBounds, Moves
<1>6. SeenRow(r)'
  <2> SUFFICES ASSUME req'[r].allowed PROVE Charged(r)'
    BY DEF SeenRow, Sees, Moves
  <2>1. Charged(r)
    BY <1>1 DEF Knows, SeenRow, Sees, Moves
  <2>2. Only(r)
    BY MovesOnly
  <2>3. usage' = usage \ {Row(r)} /\ p = "failed" /\ req[r].reserved =>
          req'[r].phase = "failed" /\ req'[r].reserved
    BY DEF Moves
  <2> QED BY <1>2, <2>1, <2>2, <2>3, ChargedKept
<1> QED BY <1>3, <1>4, <1>5, <1>6 DEF Knows

LEMMA AskKnows ==
  ASSUME IInv, NEW r \in Request, UNCHANGED <<seen, usage>>, req[r].phase = "idle",
         req'[r].phase \in {"admitted", "gated", "refused"},
         req'[r].reserved = req[r].reserved, req'[r].allowed = req[r].allowed
  PROVE  Knows(r)'
<1>1. NothingYet(r)
  BY DEF IInv, Knows
<1>2. ~req'[r].reserved /\ ~req'[r].allowed
  BY <1>1 DEF NothingYet, Before
<1>3. NothingYet(r)' /\ MeteredCall(r)' /\ LimitInForce(r)'
  BY <1>2 DEF NothingYet, MeteredCall, LimitInForce, InTx
<1>4. StillAbsent(r)' /\ CountBounds(r)' /\ SeenRow(r)'
  BY <1>2 DEF StillAbsent, CountBounds, SeenRow, Sees
<1> QED BY <1>3, <1>4 DEF Knows

LEMMA PriceKnows ==
  ASSUME IInv, NEW r \in Request, Price(r)
  PROVE  Knows(r)'
<1>1. TypeOK /\ Knows(r) /\ plan \in seen /\ req[r].phase = "admitted"
  BY DEF IInv, Price
<1>2. PICK f \in Feature : f = req[r].feature
  BY <1>1 DEF TypeOK, Rec
<1>3. PICK k : k = [feature |-> f, period |-> PeriodFor(f, plan)]
  OBVIOUS
<1>4. req[r] \in Rec
  BY <1>1 DEF TypeOK
<1>5. /\ req'[r].phase \in {"priced", "asking"} /\ req'[r].feature = f
      /\ req'[r].period = PeriodFor(f, plan) /\ req'[r].limit = LimitFor(f, plan)
      /\ req'[r].reserved = req[r].reserved /\ req'[r].allowed = req[r].allowed
  BY <1>1, <1>2, <1>4, PriceStep DEF Rec
<1>6. ~req'[r].reserved /\ ~req'[r].allowed
  BY <1>1, <1>5 DEF Knows, NothingYet, Before
<1>7. NothingYet(r)' /\ MeteredCall(r)'
  BY <1>5, <1>6 DEF NothingYet, MeteredCall
<1>8. LimitInForce(r)'
  <2>1. KeyOf(r)' = k
    BY <1>3, <1>5 DEF KeyOf
  <2>2. plan \in Plan /\ month \in Nat
    BY <1>1, MaxMonthAssumption DEF TypeOK
  <2>3. k \in Key /\ k.feature = f /\ k.period = PeriodFor(f, plan)
    BY <1>1, <1>3, <2>2, Constants DEF Key
  <2>4. (k.period = Lifetime) <=> (k.feature = "draft" /\ plan = Free)
    BY <2>2, <2>3 DEF PeriodFor, Lifetime
  <2>5. Cap[plan][k] = LimitFor(f, plan)
    BY <2>2, <2>3, <2>4 DEF Cap
  <2>6. plan \in seen' /\ Cap' = Cap
    BY <1>1 DEF Price, Tables, Cap, LimitFor
  <2> QED BY <1>5, <2>1, <2>5, <2>6 DEF LimitInForce
<1>9. StillAbsent(r)' /\ CountBounds(r)' /\ SeenRow(r)'
  BY <1>5, <1>6 DEF StillAbsent, CountBounds, SeenRow, Sees
<1> QED BY <1>7, <1>8, <1>9 DEF Knows

LEMMA PeekKnows ==
  ASSUME IInv, NEW r \in Request, Peek(r)
  PROVE  Knows(r)'
<1>1. TypeOK /\ Knows(r) /\ req[r].phase = "priced" /\ req[r] \in Rec
  BY DEF IInv, Peek, TypeOK
<1>2. UNCHANGED <<seen, usage>>
  BY DEF Peek, Tables
<1>3. CASE Moves(r, "asking")
  BY <1>1, <1>2, <1>3, MoveKnows DEF Phase, InTx, Before, Answered
<1>4. CASE /\ Only(r) /\ Row(r) \in usage
           /\ req'[r] = [req[r] EXCEPT !.phase = "served", !.allowed = TRUE]
  <2>1. req'[r].phase = "served" /\ Fixed(r)
    BY <1>1, <1>4 DEF Fixed, Rec
  <2>2. NothingYet(r)' /\ MeteredCall(r)' /\ LimitInForce(r)' /\ StillAbsent(r)'
        /\ CountBounds(r)'
    BY <2>1 DEF NothingYet, MeteredCall, LimitInForce, StillAbsent, CountBounds, Before, InTx
  <2>3. SeenRow(r)'
    BY <1>2, <1>4, <2>1, FixedRow DEF SeenRow, Charged
  <2> QED BY <2>2, <2>3 DEF Knows
<1> QED BY <1>1, <1>3, <1>4, PeekStep

LEMMA ReadExistsKnows ==
  ASSUME IInv, NEW r \in Request, ReadExists(r)
  PROVE  Knows(r)'
<1>1. TypeOK /\ Knows(r) /\ req[r].phase = "locked" /\ req[r] \in Rec
  BY DEF IInv, ReadExists, TypeOK
<1>2. UNCHANGED <<seen, usage>>
  BY DEF ReadExists, Tables
<1>3. PICK b \in BOOLEAN :
        /\ b <=> Row(r) \in usage
        /\ req'[r] = [req[r] EXCEPT !.phase = "looked", !.exists = b]
  BY <1>1, ReadExistsStep
<1>4. /\ req'[r].phase = "looked" /\ req'[r].exists = b /\ Fixed(r)
      /\ req'[r].reserved = req[r].reserved /\ req'[r].allowed = req[r].allowed
  BY <1>1, <1>3 DEF Fixed, Rec
<1>5. Row(r)' = Row(r) /\ KeyOf(r)' = KeyOf(r)
  BY <1>4, FixedRow
<1>6. ~req'[r].reserved /\ ~req'[r].allowed
  BY <1>1, <1>4 DEF Knows, NothingYet, Before, InTx
<1>7. NothingYet(r)' /\ MeteredCall(r)' /\ CountBounds(r)'
  BY <1>4, <1>6 DEF NothingYet, MeteredCall, CountBounds
<1>8. LimitInForce(r)'
  BY <1>1, <1>2, <1>4, <1>5 DEF Knows, LimitInForce, Cap, LimitFor, Fixed, InTx
<1>9. StillAbsent(r)'
  BY <1>2, <1>3, <1>4, <1>5 DEF StillAbsent
<1>10. SeenRow(r)'
  BY <1>2, <1>3, <1>4, <1>5, <1>6 DEF SeenRow, Sees, Charged
<1> QED BY <1>7, <1>8, <1>9, <1>10 DEF Knows

LEMMA ReadUsedKnows ==
  ASSUME IInv, NEW r \in Request, ReadUsed(r)
  PROVE  Knows(r)'
<1>1. TypeOK /\ IsFiniteSet(usage) /\ Knows(r) /\ req[r].phase = "looked" /\ req[r] \in Rec
  BY DEF IInv, ReadUsed, TypeOK
<1>2. UNCHANGED <<seen, usage>>
  BY DEF ReadUsed, Tables
<1>3. PICK k, n : k = KeyOf(r) /\ n = Cardinality(Used(k))
  OBVIOUS
<1>4. /\ req'[r].phase = "counted" /\ req'[r].used = n /\ Fixed(r)
      /\ req'[r].reserved = req[r].reserved /\ req'[r].allowed = req[r].allowed
      /\ req'[r].exists = req[r].exists
  BY <1>1, <1>3, ReadUsedStep DEF Fixed, Rec
<1>5. Row(r)' = Row(r) /\ KeyOf(r)' = k
  BY <1>3, <1>4, FixedRow
<1>6. ~req'[r].reserved /\ ~req'[r].allowed
  BY <1>1, <1>4 DEF Knows, NothingYet, Before, InTx
<1>7. NothingYet(r)' /\ MeteredCall(r)'
  BY <1>4, <1>6 DEF NothingYet, MeteredCall
<1>8. LimitInForce(r)'
  BY <1>1, <1>2, <1>3, <1>4, <1>5 DEF Knows, LimitInForce, Cap, LimitFor, Fixed, InTx
<1>9. StillAbsent(r)'
  BY <1>1, <1>2, <1>4, <1>5 DEF Knows, StillAbsent
<1>10. CountBounds(r)'
  <2>1. Used(k)' = Used(k) /\ n \in Nat
    BY <1>1, <1>2, <1>3, Counting DEF Used
  <2> SUFFICES Cardinality(Used(k)') <= n
    BY <1>4, <1>5 DEF CountBounds, Used
  <2>2. Cardinality(Used(k)') = n
    BY <1>3, <2>1, Zenon
  <2> QED BY <2>1, <2>2
<1>11. SeenRow(r)'
  <2> SUFFICES ASSUME req'[r].exists PROVE Charged(r)'
    BY <1>4, <1>6 DEF SeenRow, Sees
  <2>1. Charged(r)
    BY <1>1, <1>4 DEF Knows, SeenRow, Sees
  <2>2. Only(r) /\ usage \subseteq usage'
    BY <1>1, <1>2, ReadUsedStep
  <2> QED BY <1>1, <1>5, <2>1, <2>2, ChargedKept DEF Answered
<1> QED BY <1>7, <1>8, <1>9, <1>10, <1>11 DEF Knows

LEMMA AllowKnows ==
  ASSUME IInv, NEW r \in Request, Allow(r)
  PROVE  Knows(r)'
<1>1. TypeOK /\ Knows(r) /\ req[r].phase = "counted" /\ req[r] \in Rec
  BY DEF IInv, Allow, TypeOK
<1>2. PICK b \in BOOLEAN : b <=> req[r].exists
  BY Zenon
<1>3. /\ Only(r) /\ req'[r].phase = Allowed(req[r].feature) /\ Fixed(r)
  BY <1>1, AllowStep DEF Fixed, Rec
<1>4. Row(r)' = Row(r)
  BY <1>3, FixedRow
<1>5. /\ req'[r].phase \in {"calling", "served"}
      /\ req'[r].phase = "calling" => req'[r].feature \in Metered
  BY <1>3 DEF Allowed, Fixed
<1>6. NothingYet(r)' /\ MeteredCall(r)' /\ LimitInForce(r)' /\ StillAbsent(r)'
      /\ CountBounds(r)'
  BY <1>5 DEF NothingYet, MeteredCall, LimitInForce, StillAbsent, CountBounds, Before, InTx
<1>7. Charged(r)'
  <2>1. CASE req[r].exists
    <3>1. Charged(r)
      BY <1>1, <2>1 DEF Knows, SeenRow, Sees
    <3>2. usage \subseteq usage'
      BY <2>1 DEF Allow, Committed
    <3> QED BY <1>1, <1>3, <1>4, <3>1, <3>2, ChargedKept DEF Answered
  <2>2. CASE ~req[r].exists
    <3>1. Row(r) \in usage'
      BY <2>2 DEF Allow, Committed
    <3> QED BY <1>4, <3>1 DEF Charged
  <2> QED BY <2>1, <2>2
<1> QED BY <1>6, <1>7 DEF Knows, SeenRow

(* A step of request r: it was running, touches nobody else, and adds or    *)
(* removes at most its own row.                                             *)
Acts(r) ==
    \/ \E f \in Feature, t \in Target : Ask(r, f, t)
    \/ \E t \in Target, force \in BOOLEAN : AskDraft(r, t, force)
    \/ Proceed(r) \/ ClientLeaves(r) \/ FailStep(r)

LEMMA Footprint ==
  ASSUME IInv, NEW r \in Request, Acts(r)
  PROVE  /\ Only(r)
         /\ seen' = seen
         /\ req[r].phase \notin Answered
         /\ \/ usage' = usage
            \/ usage' = usage \cup {Row(r)} /\ req[r].phase = "counted"
            \/ /\ usage' = usage \ {Row(r)}
               /\ Row(r)' = Row(r) /\ req'[r].phase = "failed" /\ req'[r].reserved
<1>1. TypeOK /\ IsFiniteSet(usage)
  BY DEF IInv
<1>2. ASSUME NEW f \in Feature, NEW t \in Target, Ask(r, f, t)
      PROVE  Only(r) /\ UNCHANGED <<seen, usage>> /\ req[r].phase \notin Answered
  BY <1>1, <1>2, AskStep DEF Ask, Tables, Answered
<1>3. ASSUME NEW t \in Target, NEW b \in BOOLEAN, AskDraft(r, t, b)
      PROVE  Only(r) /\ UNCHANGED <<seen, usage>> /\ req[r].phase \notin Answered
  BY <1>1, <1>3, AskDraftStep DEF AskDraft, Tables, Answered
<1>4. CASE CheckExisting(r) \/ Price(r) \/ Peek(r)
  <2>1. Only(r)
    BY <1>1, <1>4, CheckExistingStep, PriceStep, PeekStep, MovesOnly
  <2> QED BY <1>4, <2>1 DEF CheckExisting, Price, Peek, Tables, Answered
<1>5. CASE RefuseZero(r) \/ TakeLock(r) \/ ReadExists(r) \/ ReadUsed(r) \/ Deny(r)
  <2>1. Only(r)
    BY <1>1, <1>5, MoveSteps, MovesOnly, ReadExistsStep, ReadUsedStep
  <2> QED BY <1>5, <2>1
          DEF RefuseZero, TakeLock, ReadExists, ReadUsed, Deny, Tables, Answered
<1>6. CASE CallSucceeds(r) \/ CallFails(r) \/ ClientLeaves(r)
  <2>1. Only(r)
    BY <1>1, <1>6, MoveSteps, MovesOnly
  <2> QED BY <1>6, <2>1 DEF CallSucceeds, CallFails, ClientLeaves, Tables, Answered
<1>7. CASE Allow(r)
  BY <1>1, <1>7, AllowStep DEF Allow, Committed, Answered
<1>8. CASE Release(r)
  <2>1. Moves(r, "failed")
    BY <1>1, <1>8, MoveSteps
  <2>2. req[r].reserved
    BY <1>8 DEF IInv, Knows, MeteredCall, Release
  <2>3. Row(r)' = Row(r) /\ req'[r].phase = "failed" /\ req'[r].reserved
    BY <2>1, <2>2, FixedRow DEF Moves
  <2> QED BY <1>8, <2>1, <2>3, MovesOnly DEF Release, Answered
<1>9. CASE FailStep(r)
  <2>1. Only(r)
    BY <1>1, <1>9, MoveSteps, MovesOnly DEF FailStep
  <2> QED BY <1>9, <2>1 DEF FailStep, PlanUnreadable, LookupFails, TxFails, CommitAnswerLost, ReleaseFails,
                            Committed, Fault, Answered, InTx
<1> QED BY <1>2, <1>3, <1>4, <1>5, <1>6, <1>7, <1>8, <1>9 DEF Acts, Proceed

LEMMA ActorKnows ==
  ASSUME IInv, NEW r \in Request, Acts(r)
  PROVE  Knows(r)'
<1>1. TypeOK /\ IsFiniteSet(usage) /\ Knows(r) /\ req[r] \in Rec /\ req[r].feature \in Feature
  BY DEF IInv, TypeOK, Rec
<1>2. ASSUME NEW f \in Feature, NEW t \in Target, Ask(r, f, t) PROVE Knows(r)'
  <2>1. /\ req'[r].phase = "admitted"
        /\ req'[r].reserved = req[r].reserved /\ req'[r].allowed = req[r].allowed
    BY <1>1, <1>2, AskStep DEF Rec
  <2> QED BY <1>2, <2>1, AskKnows DEF Ask, Tables
<1>3. ASSUME NEW t \in Target, NEW b \in BOOLEAN, AskDraft(r, t, b) PROVE Knows(r)'
  <2>1. /\ req'[r].phase \in {"gated", "refused"}
        /\ req'[r].reserved = req[r].reserved /\ req'[r].allowed = req[r].allowed
    BY <1>1, <1>3, AskDraftStep
  <2> QED BY <1>3, <2>1, AskKnows DEF AskDraft, Tables
<1>4. CASE Price(r) BY <1>4, PriceKnows
<1>5. CASE Peek(r) BY <1>5, PeekKnows
<1>6. CASE ReadExists(r) BY <1>6, ReadExistsKnows
<1>7. CASE ReadUsed(r) BY <1>7, ReadUsedKnows
<1>8. CASE Allow(r) BY <1>8, AllowKnows
<1> DEFINE Final == {"served", "refused", "failed", "gone"}
<1>9. ASSUME NEW p \in Phase, Moves(r, p), seen' = seen, usage \subseteq usage',
             req[r].phase \notin Answered,
             p \in Final
      PROVE  Knows(r)'
  BY <1>9, MoveKnows DEF Phase, Answered, Before, InTx
<1>10. CASE RefuseZero(r) \/ Deny(r) \/ CallSucceeds(r) \/ ClientLeaves(r) \/ ReleaseFails(r)
  <2>1. seen' = seen /\ usage \subseteq usage' /\ req[r].phase \notin Answered
    BY <1>10 DEF RefuseZero, Deny, CallSucceeds, ClientLeaves, ReleaseFails, Tables, Fault,
                 Answered
  <2>2. \E p \in Final : Moves(r, p)
    BY <1>1, <1>10, MoveSteps
  <2> QED BY <1>9, <2>1, <2>2 DEF Phase, Answered
<1>11. CASE CheckExisting(r)
  <2>1. UNCHANGED <<seen, usage>> /\ req[r].phase = "gated"
    BY <1>11 DEF CheckExisting, Tables
  <2>2. CASE Moves(r, "refused")
    BY <1>9, <2>1, <2>2 DEF Phase, Answered
  <2>3. CASE Moves(r, "admitted")
    BY <2>1, <2>3, MoveKnows DEF Phase, Answered, Before, InTx
  <2> QED BY <1>1, <1>11, <2>2, <2>3, CheckExistingStep
<1>12. CASE TakeLock(r)
  <2>1. UNCHANGED <<seen, usage>> /\ req[r].phase = "asking" /\ Moves(r, "locked")
    BY <1>1, <1>12, MoveSteps DEF TakeLock, Tables
  <2> QED BY <2>1, MoveKnows DEF Phase, Answered, Before, InTx
<1>13. CASE CallFails(r)
  <2>1. UNCHANGED <<seen, usage>> /\ req[r].phase = "calling"
        /\ Moves(r, IF req[r].reserved THEN "releasing" ELSE "failed")
    BY <1>1, <1>13, MoveSteps DEF CallFails, Tables
  <2>2. CASE req[r].reserved
    <3>1. req[r].feature \in Metered
      BY <1>1, <2>1 DEF Knows, MeteredCall
    <3> QED BY <2>1, <2>2, <3>1, MoveKnows DEF Phase, Answered, Before, InTx
  <2>3. CASE ~req[r].reserved
    BY <1>9, <2>1, <2>3 DEF Phase, Answered
  <2> QED BY <2>2, <2>3
<1>14. CASE Release(r)
  <2>1. /\ seen' = seen /\ usage' = usage \ {Row(r)} /\ req[r].phase = "releasing"
        /\ Moves(r, "failed") /\ req[r].reserved
    BY <1>1, <1>14, MoveSteps DEF Release, Knows, MeteredCall
  <2> QED BY <2>1, MoveKnows DEF Phase, Answered, Before, InTx
<1>15. ASSUME NEW p \in Phase, Moves(r, p), seen' = seen, usage \subseteq usage',
              req[r].phase \notin Answered,
              p \in {"served", "calling", "failed"},
              p = "calling" => req[r].feature \in Metered
       PROVE  Knows(r)'
  BY <1>15, MoveKnows DEF Phase, Answered, Before, InTx
<1>16. CASE PlanUnreadable(r)
  <2>1. seen' = seen /\ usage \subseteq usage' /\ req[r].phase \notin Answered
    BY <1>16 DEF PlanUnreadable, Fault, Answered
  <2>2. Moves(r, IF req[r].feature = "ocr" THEN "calling" ELSE AfterError(req[r].feature))
    BY <1>1, <1>16, MoveSteps
  <2>3. CASE req[r].feature = "ocr"
    BY <1>15, <2>1, <2>2, <2>3 DEF Phase, Answered, Metered
  <2>4. CASE req[r].feature # "ocr"
    BY <1>1, <1>15, <2>1, <2>2, <2>4, AfterErrorType DEF Phase, Answered
  <2> QED BY <2>3, <2>4
<1>17. CASE TxFails(r) \/ CommitAnswerLost(r)
  <2>1. seen' = seen /\ usage \subseteq usage' /\ req[r].phase \notin Answered
    BY <1>17 DEF TxFails, CommitAnswerLost, Committed, Fault, Answered, InTx
  <2>2. Moves(r, AfterError(req[r].feature))
    BY <1>1, <1>17, MoveSteps
  <2> QED BY <1>1, <1>15, <2>1, <2>2, AfterErrorType DEF Phase, Answered
<1>18. CASE LookupFails(r)
  <2>1. seen' = seen /\ usage \subseteq usage' /\ req[r].phase \in {"gated", "priced"}
    BY <1>1, <1>18, MoveSteps DEF LookupFails, Fault
  <2>2. CASE req[r].phase = "gated"
    <3>1. Moves(r, "admitted")
      BY <1>1, <1>18, <2>2, MoveSteps
    <3> QED BY <2>1, <2>2, <3>1, MoveKnows DEF Phase, Answered, Before, InTx
  <2>3. CASE req[r].phase = "priced"
    <3>1. Moves(r, "asking")
      BY <1>1, <1>18, <2>3, MoveSteps
    <3> QED BY <2>1, <2>3, <3>1, MoveKnows DEF Phase, Answered, Before, InTx
  <2> QED BY <2>1, <2>2, <2>3
<1> QED BY <1>2, <1>3, <1>4, <1>5, <1>6, <1>7, <1>8, <1>10, <1>11, <1>12, <1>13, <1>14,
           <1>16, <1>17, <1>18 DEF Acts, Proceed, FailStep

(* A restart: every request ends as it is, the tables are unchanged. *)
LEMMA RestartKnows ==
  ASSUME IInv, Restart, NEW r \in Request
  PROVE  Knows(r)' /\ Row(r)' = Row(r)
<1>1. TypeOK /\ Knows(r) /\ req[r] \in Rec /\ UNCHANGED <<seen, usage>>
  BY DEF IInv, TypeOK, Restart, Fault
<1>2. ASSUME NEW q \in Request
      PROVE  /\ Row(q)' = Row(q)
             /\ req'[q].reserved = req[q].reserved
             /\ req[q].phase = "failed" => req'[q].phase = "failed"
  <2>1. req[q] \in Rec
    BY <1>1 DEF TypeOK
  <2>2. /\ req'[q].reserved = req[q].reserved /\ Fixed(q)
        /\ req[q].phase = "failed" => req'[q].phase = "failed"
    BY <1>1, <2>1, RestartStep DEF Fixed, Rec
  <2> QED BY <2>2, FixedRow
<1>3. Charged(r) => Charged(r)'
  BY <1>1, <1>2 DEF Charged
<1>4. CASE req[r].phase \in {"idle"} \cup Answered
  <2>1. req'[r] = req[r]
    BY <1>1, <1>4, RestartStep
  <2>2. Sees(r)' <=> Sees(r)
    BY <2>1 DEF Sees
  <2>3. NothingYet(r)' /\ MeteredCall(r)'
    BY <1>1, <2>1 DEF Knows, NothingYet, MeteredCall
  <2>4. LimitInForce(r)' /\ StillAbsent(r)' /\ CountBounds(r)'
    BY <1>4, <2>1 DEF LimitInForce, StillAbsent, CountBounds, InTx, Answered
  <2> QED BY <1>1, <1>2, <1>3, <2>2, <2>3, <2>4 DEF Knows, SeenRow
<1>5. CASE req[r].phase \notin {"idle"} \cup Answered
  <2>1. req'[r].phase = "failed" /\ req'[r].allowed = req[r].allowed
    BY <1>1, <1>5, RestartStep DEF Rec
  <2>2. NothingYet(r)' /\ MeteredCall(r)' /\ LimitInForce(r)' /\ StillAbsent(r)'
        /\ CountBounds(r)'
    BY <2>1 DEF NothingYet, MeteredCall, LimitInForce, StillAbsent, CountBounds, Before, InTx
  <2>3. SeenRow(r)'
    BY <1>1, <1>3, <2>1 DEF Knows, SeenRow, Sees
  <2> QED BY <1>2, <2>2, <2>3 DEF Knows
<1> QED BY <1>4, <1>5

(* The environment: more plans have been in force, nothing else changes. *)
LEMMA EnvironmentKnows ==
  ASSUME IInv, UNCHANGED <<usage, req>>, seen \subseteq seen', NEW r \in Request
  PROVE  Knows(r)' /\ Row(r)' = Row(r)
<1>1. Knows(r)
  BY DEF IInv
<1>2. Row(r)' = Row(r) /\ KeyOf(r)' = KeyOf(r) /\ (Charged(r) => Charged(r)')
  BY DEF Row, KeyOf, SubjectOf, Charged
<1>3. NothingYet(r)' /\ MeteredCall(r)' /\ SeenRow(r)'
  BY <1>1, <1>2 DEF Knows, NothingYet, MeteredCall, SeenRow, Sees
<1>4. LimitInForce(r)'
  BY <1>1, <1>2 DEF Knows, LimitInForce, Cap, LimitFor
<1>5. StillAbsent(r)' /\ CountBounds(r)'
  BY <1>1, <1>2 DEF Knows, StillAbsent, CountBounds, Used
<1> QED BY <1>2, <1>3, <1>4, <1>5 DEF Knows

(* One of these happens. *)
LEMMA Steps ==
  ASSUME [Next]_vars
  PROVE  \/ \E r \in Request : Acts(r)
         \/ Restart
         \/ \E q \in Plan : ChangePlan(q)
         \/ NextMonth
         \/ UNCHANGED vars
  BY DEF Next, Acts

LEMMA KnowsStep ==
  ASSUME IInv, [Next]_vars
  PROVE  \A r \in Request : Knows(r)'
<1> SUFFICES ASSUME NEW q \in Request PROVE Knows(q)'
  OBVIOUS
<1>1. ASSUME NEW r \in Request, Acts(r) PROVE Knows(q)'
  <2>1. CASE q = r
    BY <1>1, <2>1, ActorKnows
  <2>2. CASE q # r
    BY <1>1, <2>2, Footprint, Bystander
  <2> QED BY <2>1, <2>2
<1>2. CASE Restart BY <1>2, RestartKnows
<1>3. ASSUME NEW p \in Plan, ChangePlan(p) PROVE Knows(q)'
  BY <1>3, EnvironmentKnows DEF ChangePlan
<1>4. CASE NextMonth \/ UNCHANGED vars
  BY <1>4, EnvironmentKnows DEF NextMonth, vars
<1> QED BY <1>1, <1>2, <1>3, <1>4, Steps

LEMMA TypeStep ==
  ASSUME IInv, [Next]_vars
  PROVE  TypeOK' /\ IsFiniteSet(usage)' /\ plan' \in seen'
<1>1. TypeOK /\ IsFiniteSet(usage) /\ plan \in seen
  BY DEF IInv
<1>2. ASSUME NEW r \in Request, Acts(r)
      PROVE  TypeOK' /\ IsFiniteSet(usage)' /\ plan' \in seen'
  <2>1. req' \in [Request -> Rec]
    BY <1>2, Footprint DEF Only
  <2>2. usage' \in SUBSET [key: Key, subject: Subject] /\ IsFiniteSet(usage')
    <3>1. usage' \subseteq usage \cup {Row(r)}
      BY <1>2, Footprint
    <3>2. Row(r) \in [key: Key, subject: Subject]
      BY <1>1, RowType DEF TypeOK
    <3> QED BY <1>1, <3>1, <3>2, FS_AddElement, FS_Subset DEF TypeOK
  <2>3. [id |-> r, notice |-> req[r].target] \in [id: Request, notice: Target]
    BY <1>1 DEF TypeOK, Rec
  <2>4. \/ drafts' = drafts
        \/ drafts' = drafts \cup {[id |-> r, notice |-> req[r].target]}
    BY <1>2 DEF Acts, Proceed, FailStep, Ask, AskDraft, CheckExisting, Price, Peek, RefuseZero,
                TakeLock, ReadExists, ReadUsed, Allow, Deny, CallSucceeds, CallFails, Release,
                ClientLeaves, PlanUnreadable, LookupFails, TxFails, CommitAnswerLost, ReleaseFails,
                Committed, Tables
  <2>5. drafts' \in SUBSET [id: Request, notice: Target]
    BY <1>1, <2>3, <2>4 DEF TypeOK
  <2>6. UNCHANGED <<plan, seen, changes, month>> /\ (faults' = faults \/ Fault)
    BY <1>2 DEF Acts, Proceed, FailStep, Ask, AskDraft, CheckExisting, Price, Peek, RefuseZero,
                TakeLock, ReadExists, ReadUsed, Allow, Deny, CallSucceeds, CallFails, Release,
                ClientLeaves, PlanUnreadable, LookupFails, TxFails, CommitAnswerLost, ReleaseFails,
                Fault, Tables
  <2>7. faults' \in 0..MaxFaults
    BY <1>1, <2>6, BoundAssumption DEF TypeOK, Fault
  <2> QED BY <1>1, <2>1, <2>2, <2>5, <2>6, <2>7 DEF TypeOK
<1>3. CASE Restart
  <2>1. CASE Request = {}
    BY <1>3, <2>1 DEF Restart
  <2>2. CASE Request # {}
    <3>1. req' \in [Request -> Rec]
      BY <1>1, <1>3, <2>2, RestartStep
    <3>2. faults' \in 0..MaxFaults
      BY <1>1, <1>3, BoundAssumption DEF TypeOK, Restart, Fault
    <3>3. UNCHANGED <<plan, seen, changes, month, usage, drafts>>
      BY <1>3 DEF Restart, Fault
    <3> QED BY <1>1, <3>1, <3>2, <3>3 DEF TypeOK
  <2> QED BY <2>1, <2>2
<1>4. ASSUME NEW q \in Plan, ChangePlan(q)
      PROVE  TypeOK' /\ IsFiniteSet(usage)' /\ plan' \in seen'
  BY <1>1, <1>4, BoundAssumption DEF TypeOK, ChangePlan
<1>5. CASE NextMonth
  BY <1>1, <1>5, MaxMonthAssumption DEF TypeOK, NextMonth
<1>6. CASE UNCHANGED vars
  BY <1>1, <1>6 DEF TypeOK, vars
<1> QED BY <1>2, <1>3, <1>4, <1>5, <1>6, Steps

(* A transaction starts with the lock, and a reservation with the row. *)
LEMMA Acquires ==
  ASSUME IInv, NEW r \in Request, Acts(r)
  PROVE  /\ req'[r].phase \in InTx =>
               /\ Fixed(r)
               /\ req[r].phase \in InTx \/ TakeLock(r)
         /\ Holding(r)' =>
               /\ Fixed(r)
               /\ Holding(r) \/ (Allow(r) /\ ~req[r].exists)
<1>1. TypeOK /\ IsFiniteSet(usage) /\ Knows(r) /\ req[r] \in Rec /\ req[r].feature \in Feature
  BY DEF IInv, TypeOK, Rec
<1> DEFINE Goal == /\ req'[r].phase \in InTx =>
                       Fixed(r) /\ (req[r].phase \in InTx \/ TakeLock(r))
                   /\ Holding(r)' =>
                       Fixed(r) /\ (Holding(r) \/ (Allow(r) /\ ~req[r].exists))
<1>2. ASSUME req'[r].phase \notin InTx \cup {"calling", "releasing"} PROVE Goal
  BY <1>2 DEF Holding
<1>3. ASSUME NEW f \in Feature, NEW t \in Target, Ask(r, f, t) PROVE Goal
  <2>1. req'[r].phase = "admitted"
    BY <1>1, <1>3, AskStep DEF Rec
  <2> QED BY <1>2, <2>1 DEF InTx
<1>4. ASSUME NEW t \in Target, NEW b \in BOOLEAN, AskDraft(r, t, b) PROVE Goal
  <2>1. req'[r].phase \in {"gated", "refused"}
    BY <1>1, <1>4, AskDraftStep
  <2> QED BY <1>2, <2>1 DEF InTx
<1>5. CASE Price(r)
  <2>1. req'[r].phase \in {"priced", "asking"}
    BY <1>1, <1>5, PriceStep DEF Rec
  <2> QED BY <1>2, <2>1 DEF InTx
<1>6. CASE Peek(r)
  <2>1. req'[r].phase \in {"served", "asking"}
    BY <1>1, <1>6, PeekStep DEF Rec, Moves
  <2> QED BY <1>2, <2>1 DEF InTx
<1>7. CASE CheckExisting(r) \/ RefuseZero(r) \/ Deny(r) \/ CallSucceeds(r) \/ ClientLeaves(r)
           \/ Release(r) \/ ReleaseFails(r) \/ LookupFails(r)
  <2>1. req'[r].phase \in {"admitted", "asking", "refused", "served", "failed", "gone"}
    BY <1>1, <1>7, CheckExistingStep, MoveSteps DEF Moves
  <2> QED BY <1>2, <2>1 DEF InTx
<1>8. CASE TakeLock(r)
  <2>1. Moves(r, "locked")
    BY <1>1, <1>8, MoveSteps
  <2> QED BY <1>8, <2>1 DEF Moves, Holding
<1>9. CASE ReadExists(r)
  <2>1. req'[r].phase = "looked" /\ Fixed(r)
    BY <1>1, <1>9, ReadExistsStep DEF Fixed, Rec
  <2> QED BY <1>9, <2>1 DEF ReadExists, InTx, Holding
<1>10. CASE ReadUsed(r)
  <2>1. req'[r].phase = "counted" /\ Fixed(r)
    BY <1>1, <1>10, ReadUsedStep DEF Fixed, Rec
  <2> QED BY <1>10, <2>1 DEF ReadUsed, InTx, Holding
<1>11. CASE Allow(r)
  <2>1. /\ req'[r].phase \in {"calling", "served"} /\ Fixed(r)
        /\ req'[r].reserved = ~req[r].exists
    BY <1>1, <1>11, AllowStep DEF Fixed, Rec, Allowed
  <2>2. Holding(r)' => ~req[r].exists
    BY <2>1 DEF Holding
  <2> QED BY <1>11, <2>1, <2>2 DEF InTx
<1>12. CASE CallFails(r)
  <2>1. /\ req[r].phase = "calling" /\ req'[r].phase \in {"releasing", "failed"}
        /\ Fixed(r) /\ req'[r].reserved = req[r].reserved
    BY <1>1, <1>12, MoveSteps DEF CallFails, Moves
  <2> QED BY <2>1 DEF Holding, InTx
<1>13. CASE PlanUnreadable(r) \/ TxFails(r) \/ CommitAnswerLost(r)
  <2>1. req[r].phase \in Before
    BY <1>13 DEF PlanUnreadable, LookupFails, TxFails, CommitAnswerLost, Before, InTx
  <2>2. ~req[r].reserved
    BY <1>1, <2>1 DEF Knows, NothingYet
  <2>3. PICK p \in {"served", "calling", "failed"} : Moves(r, p)
    BY <1>1, <1>13, MoveSteps, AfterErrorType
  <2> QED BY <2>2, <2>3 DEF Moves, Holding, InTx
<1> QED BY <1>3, <1>4, <1>5, <1>6, <1>7, <1>8, <1>9, <1>10, <1>11, <1>12, <1>13
        DEF Acts, Proceed, FailStep

LEMMA LockStep ==
  ASSUME IInv, [Next]_vars
  PROVE  LockExcludes'
<1>1. TypeOK /\ LockExcludes
  BY DEF IInv
<1>2. ASSUME NEW r \in Request, Acts(r) PROVE LockExcludes'
  <2>1. ASSUME NEW q \in Request, q # r
        PROVE  req'[q] = req[q] /\ KeyOf(q)' = KeyOf(q)
    BY <1>2, <2>1, Footprint, SameRequest DEF Only
  <2>2. ASSUME NEW q \in Request, q # r, req'[r].phase \in InTx, req'[q].phase \in InTx
        PROVE  KeyOf(r)' # KeyOf(q)'
    <3>1. KeyOf(r)' = KeyOf(r) /\ (req[r].phase \in InTx \/ TakeLock(r))
      BY <1>2, <2>2, Acquires, FixedRow
    <3>2. KeyOf(q)' = KeyOf(q) /\ req[q].phase \in InTx
      BY <2>1, <2>2
    <3>3. KeyOf(q) # KeyOf(r)
      BY <1>1, <2>2, <3>1, <3>2 DEF LockExcludes, TakeLock
    <3> QED BY <3>1, <3>2, <3>3
  <2> QED BY <1>1, <2>1, <2>2 DEF LockExcludes
<1>3. CASE Restart
  <2>1. ASSUME NEW q \in Request PROVE req'[q].phase \notin InTx
    <3>1. req[q] \in Rec
      BY <1>1 DEF TypeOK
    <3> QED BY <1>1, <1>3, <3>1, RestartStep DEF Rec, InTx, Answered
  <2> QED BY <2>1 DEF LockExcludes
<1>4. CASE UNCHANGED req
  BY <1>1, <1>4 DEF LockExcludes, KeyOf
<1> QED BY <1>2, <1>3, <1>4, Steps DEF ChangePlan, NextMonth, vars

LEMMA ReservationStep ==
  ASSUME IInv, [Next]_vars
  PROVE  ReservationHeld'
<1>1. TypeOK /\ ReservationHeld
  BY DEF IInv
<1>2. ASSUME NEW r \in Request, Acts(r) PROVE ReservationHeld'
  <2>1. ASSUME NEW q \in Request, q # r
        PROVE  Row(q)' = Row(q) /\ (Holding(q)' <=> Holding(q))
    BY <1>2, <2>1, Footprint, SameRequest DEF Only
  <2>2. ASSUME Holding(r)'
        PROVE  /\ Row(r)' = Row(r) /\ Row(r) \in usage'
               /\ \A q \in Request \ {r} : Holding(q) => Row(q) # Row(r)
    <3>1. Row(r)' = Row(r)
      BY <1>2, <2>2, Acquires, FixedRow
    <3>2. CASE Holding(r)
      <4>1. Row(r) \in usage /\ \A q \in Request \ {r} : Holding(q) => Row(q) # Row(r)
        BY <1>1, <3>2 DEF ReservationHeld
      <4>2. req'[r].phase # "failed"
        BY <2>2 DEF Holding
      <4> QED BY <1>2, <3>1, <4>1, <4>2, Footprint
    <3>3. CASE Allow(r) /\ ~req[r].exists
      <4>1. Row(r) \notin usage
        BY <3>3 DEF IInv, Knows, StillAbsent, Allow
      <4>2. Row(r) \in usage'
        BY <3>3 DEF Allow, Committed
      <4> QED BY <1>1, <3>1, <4>1, <4>2 DEF ReservationHeld
    <3> QED BY <1>2, <2>2, <3>2, <3>3, Acquires
  <2>3. ASSUME NEW q \in Request, q # r, Holding(q)
        PROVE  Row(q) \in usage'
    <3>1. Row(q) \in usage
      BY <1>1, <2>3 DEF ReservationHeld
    <3>2. Release(r) => Row(q) # Row(r)
      <4> SUFFICES ASSUME Release(r) PROVE Row(q) # Row(r)
        OBVIOUS
      <4>1. Holding(r)
        BY DEF Release, IInv, Knows, MeteredCall, Holding
      <4> QED BY <1>1, <2>3, <4>1 DEF ReservationHeld
    <3>3. ~Release(r) => usage \subseteq usage'
      BY <1>2 DEF Acts, Proceed, FailStep, Ask, AskDraft, CheckExisting, Price, Peek, RefuseZero,
                  TakeLock, ReadExists, ReadUsed, Allow, Deny, CallSucceeds, CallFails,
                  ClientLeaves, PlanUnreadable, LookupFails, TxFails, CommitAnswerLost, ReleaseFails,
                  Committed, Tables
    <3>4. Release(r) => usage' = usage \ {Row(r)}
      BY DEF Release
    <3> QED BY <3>1, <3>2, <3>3, <3>4
  <2> QED BY <1>1, <2>1, <2>2, <2>3 DEF ReservationHeld
<1>3. CASE Restart
  <2>1. ASSUME NEW q \in Request PROVE ~Holding(q)'
    <3>1. req[q] \in Rec
      BY <1>1 DEF TypeOK
    <3> QED BY <1>1, <1>3, <3>1, RestartStep DEF Rec, Holding, Answered
  <2> QED BY <2>1 DEF ReservationHeld
<1>4. CASE UNCHANGED <<req, usage>>
  BY <1>1, <1>4 DEF ReservationHeld, Holding, Row, KeyOf, SubjectOf
<1> QED BY <1>2, <1>3, <1>4, Steps DEF ChangePlan, NextMonth, vars

(* DraftsMatchCharges, draft by draft. *)
HasDraft(i) == \E d \in drafts : d.id = i
HasCharge(i) == \E x \in usage : x.key.feature = "draft" /\ x.subject = i

LEMMA DraftByDraft == DraftsMatchCharges <=> \A i : HasDraft(i) <=> HasCharge(i)
  BY DEF DraftsMatchCharges, HasDraft, HasCharge

LEMMA DraftsStep ==
  ASSUME IInv, [Next]_vars
  PROVE  DraftsMatchCharges'
<1>1. TypeOK /\ \A i : HasDraft(i) <=> HasCharge(i)
  BY DraftByDraft DEF IInv
<1>2. CASE UNCHANGED <<usage, drafts>>
  BY <1>2 DEF IInv, DraftsMatchCharges
<1>3. ASSUME NEW r \in Request, req[r].phase = "counted", Committed(r)
      PROVE  DraftsMatchCharges'
  <2>1. Row(r).key.feature = req[r].feature /\ Row(r).subject = SubjectOf(r)
    BY DEF Row, KeyOf
  <2>2. CASE req[r].feature # "draft"
    <3>1. drafts' = drafts /\ (usage' = usage \/ usage' = usage \cup {Row(r)})
      BY <1>3, <2>2 DEF Committed
    <3>2. \A i : (HasDraft(i)' <=> HasDraft(i)) /\ (HasCharge(i)' <=> HasCharge(i))
      BY <2>1, <2>2, <3>1 DEF HasDraft, HasCharge
    <3> QED BY <1>1, <3>2 DEF DraftsMatchCharges, HasDraft, HasCharge
  <2>3. CASE req[r].feature = "draft"
    <3>1. Row(r).subject = r
      BY <2>1, <2>3 DEF SubjectOf
    <3>2. Row(r) \in usage'
      <4>1. CASE ~req[r].exists
        BY <1>3, <4>1 DEF Committed
      <4>2. CASE req[r].exists
        <5>1. Charged(r)
          BY <1>3, <4>2 DEF IInv, Knows, SeenRow, Sees
        <5>2. ASSUME NEW q \in Request, Row(q) = Row(r), req[q].phase = "failed" PROVE FALSE
          <6>1. req[q].feature = "draft"
            BY <2>1, <2>3, <5>2 DEF Row, KeyOf
          <6>2. SubjectOf(q) = SubjectOf(r)
            BY <5>2 DEF Row
          <6>3. q = r
            BY <2>3, <6>1, <6>2 DEF SubjectOf
          <6> QED BY <1>3, <5>2, <6>3
        <5>3. Row(r) \in usage
          BY <5>1, <5>2 DEF Charged
        <5> QED BY <1>3, <5>3 DEF Committed
      <4> QED BY <4>1, <4>2
    <3>3. usage \subseteq usage' /\ usage' \subseteq usage \cup {Row(r)}
      BY <1>3 DEF Committed
    <3>4. drafts' = drafts \cup {[id |-> r, notice |-> req[r].target]}
      BY <1>3, <2>3 DEF Committed
    <3>5. \A i : HasDraft(i)' <=> HasDraft(i) \/ i = r
      <4>1. PICK d : d = [id |-> r, notice |-> req[r].target]
        OBVIOUS
      <4>2. d.id = r /\ drafts' = drafts \cup {d}
        BY <3>4, <4>1
      <4> QED BY <4>2 DEF HasDraft
    <3>6. \A i : HasCharge(i)' <=> HasCharge(i) \/ i = r
      BY <2>1, <2>3, <3>1, <3>2, <3>3 DEF HasCharge
    <3> QED BY <1>1, <3>5, <3>6 DEF DraftsMatchCharges, HasDraft, HasCharge
  <2> QED BY <2>2, <2>3
<1>4. ASSUME NEW r \in Request, Release(r) PROVE DraftsMatchCharges'
  <2>1. req[r].feature # "draft"
    BY <1>4 DEF IInv, Knows, MeteredCall, Release, Metered
  <2>2. Row(r).key.feature # "draft"
    BY <2>1 DEF Row, KeyOf
  <2>3. usage' = usage \ {Row(r)} /\ drafts' = drafts
    BY <1>4 DEF Release
  <2>4. \A i : (HasDraft(i)' <=> HasDraft(i)) /\ (HasCharge(i)' <=> HasCharge(i))
    BY <2>2, <2>3 DEF HasDraft, HasCharge
  <2> QED BY <1>1, <2>4 DEF DraftsMatchCharges, HasDraft, HasCharge
<1>5. ASSUME NEW r \in Request, Acts(r)
      PROVE  \/ UNCHANGED <<usage, drafts>>
             \/ req[r].phase = "counted" /\ Committed(r)
             \/ Release(r)
  BY <1>5 DEF Acts, Proceed, FailStep, Ask, AskDraft, CheckExisting, Price, Peek, RefuseZero,
              TakeLock, ReadExists, ReadUsed, Allow, Deny, CallSucceeds, CallFails,
              ClientLeaves, PlanUnreadable, LookupFails, TxFails, CommitAnswerLost, ReleaseFails, Tables
<1> QED BY <1>2, <1>3, <1>4, <1>5, Steps DEF Restart, ChangePlan, NextMonth, vars

LEMMA FailuresStep ==
  ASSUME IInv, [Next]_vars
  PROVE  FailuresAreFree'
<1>1. TypeOK /\ FailuresAreFree
  BY DEF IInv
<1> DEFINE Owner(w, x) == /\ Row(w) = x
                         /\ req[w].reserved
                         /\ req[w].phase \in {"calling", "releasing", "served"}
<1> SUFFICES ASSUME faults' = 0, \A q \in Request : req'[q].phase # "gone",
                    NEW x \in usage'
             PROVE  \E w \in Request : Owner(w, x)'
  BY DEF FailuresAreFree
<1>2. ~Fault
  BY <1>1 DEF Fault, TypeOK
<1>3. ASSUME NEW r \in Request, Acts(r)
      PROVE  \E w \in Request : Owner(w, x)'
  <2>1. ASSUME NEW q \in Request, q # r
        PROVE  req'[q] = req[q] /\ Row(q)' = Row(q)
    BY <1>3, <2>1, Footprint, SameRequest DEF Only
  <2>2. \A q \in Request : req[q].phase # "gone"
    BY <1>3, <2>1, Footprint DEF Answered
  <2>3. faults = 0 /\ ~FailStep(r)
    BY <1>2, <1>3 DEF Acts, Proceed, FailStep, Ask, AskDraft, CheckExisting, Price, Peek,
       RefuseZero, TakeLock, ReadExists, ReadUsed, Allow, Deny, CallSucceeds, CallFails, Release,
       ClientLeaves, PlanUnreadable, LookupFails, TxFails, CommitAnswerLost, ReleaseFails, Tables
  <2>4. CASE x \in usage
    <3>1. PICK w \in Request : Owner(w, x)
      BY <1>1, <2>2, <2>3, <2>4 DEF FailuresAreFree
    <3>2. CASE w # r
      BY <2>1, <3>1, <3>2
    <3>3. CASE w = r
      <4>1. req[r].phase \in {"calling", "releasing"}
        BY <1>3, <3>1, <3>3, Footprint DEF Answered
      <4>2. CallSucceeds(r) \/ CallFails(r) \/ Release(r)
        <5>1. ~ClientLeaves(r)
          BY <1>1, MoveSteps DEF Moves
        <5> QED BY <1>3, <2>3, <4>1, <5>1
                DEF Acts, Proceed, Ask, AskDraft, CheckExisting, Price, Peek, RefuseZero,
                    TakeLock, ReadExists, ReadUsed, Allow, Deny
      <4>3. ~Release(r)
        BY <3>1, <3>3 DEF Release
      <4>4. PICK p \in {"served", "releasing"} : Moves(r, p)
        BY <1>1, <3>1, <3>3, <4>2, <4>3, MoveSteps
      <4>5. Row(r)' = Row(r) /\ req'[r].reserved = req[r].reserved /\ req'[r].phase = p
        BY <4>4, FixedRow DEF Moves
      <4> QED BY <3>1, <3>3, <4>5
    <3> QED BY <3>2, <3>3
  <2>5. CASE x \notin usage
    <3>1. Allow(r) /\ x = Row(r) /\ ~req[r].exists
      BY <1>3, <2>3, <2>5 DEF Acts, Proceed, Ask, AskDraft, CheckExisting, Price, Peek,
         RefuseZero, TakeLock, ReadExists, ReadUsed, Allow, Committed, Deny, CallSucceeds,
         CallFails, Release, ClientLeaves, Tables
    <3>2. /\ req'[r].phase \in {"calling", "served"} /\ Fixed(r)
          /\ req'[r].reserved = ~req[r].exists
      <4>1. req[r] \in Rec
        BY <1>1 DEF TypeOK
      <4> QED BY <1>1, <3>1, <4>1, AllowStep DEF Fixed, Rec, Allowed
    <3>3. req'[r].reserved
      BY <3>1, <3>2
    <3> QED BY <3>1, <3>2, <3>3, FixedRow
  <2> QED BY <2>4, <2>5
<1>4. CASE UNCHANGED <<req, usage, faults>>
  BY <1>1, <1>4 DEF FailuresAreFree, Row, KeyOf, SubjectOf
<1> QED BY <1>2, <1>3, <1>4, Steps DEF Restart, ChangePlan, NextMonth, vars

LEMMA InitIInv == Init => IInv
<1> SUFFICES ASSUME Init PROVE IInv
  OBVIOUS
<1>1. TypeOK
  BY InitTypeOK
<1>2. \A r \in Request : req[r].phase = "idle" /\ req[r].allowed = FALSE
                         /\ req[r].reserved = FALSE
  BY DEF Init
<1>3. usage = {} /\ drafts = {} /\ plan \in seen
  BY DEF Init
<1>4. IsFiniteSet(usage)
  BY <1>3, FS_EmptySet
<1>5. ASSUME NEW r \in Request PROVE Knows(r)
  BY <1>2 DEF Knows, NothingYet, MeteredCall, LimitInForce, StillAbsent, CountBounds, SeenRow,
              Sees, InTx
<1>6. LockExcludes /\ ReservationHeld
  BY <1>2 DEF LockExcludes, ReservationHeld, Holding, InTx
<1>7. DraftsMatchCharges /\ FailuresAreFree
  BY <1>3 DEF DraftsMatchCharges, FailuresAreFree
<1> QED BY <1>1, <1>3, <1>4, <1>5, <1>6, <1>7 DEF IInv

LEMMA Inductive == IInv /\ [Next]_vars => IInv'
<1> SUFFICES ASSUME IInv, [Next]_vars PROVE IInv'
  OBVIOUS
<1>1. TypeOK' /\ IsFiniteSet(usage)' /\ plan' \in seen'
  BY TypeStep
<1>2. \A r \in Request : Knows(r)'
  BY KnowsStep
<1>3. LockExcludes' /\ ReservationHeld' /\ DraftsMatchCharges' /\ FailuresAreFree'
  BY LockStep, ReservationStep, DraftsStep, FailuresStep
<1> QED BY <1>1, <1>2, <1>3 DEF IInv

LEMMA Invariance == Spec => []IInv
  BY InitIInv, Inductive, PTL DEF Spec

-----------------------------------------------------------------------------
(* The theorems. *)

(* The state variables keep their types, whatever fails. *)
THEOREM TypeCorrect == Spec => []TypeOK
<1>1. IInv => TypeOK
  BY DEF IInv
<1> QED BY <1>1, Invariance, PTL

(* releaseFeatureUsage, without the lock, deletes only its own row. *)
THEOREM ReservationsHold == Spec => []ReservationHeld
<1>1. IInv => ReservationHeld
  BY DEF IInv
<1> QED BY <1>1, Invariance, PTL

(* Without faults and departed clients no failed use is charged. *)
THEOREM NoFailureCharged == Spec => []FailuresAreFree
<1>1. IInv => FailuresAreFree
  BY DEF IInv
<1> QED BY <1>1, Invariance, PTL

(* A served use is uncharged only if the request it relied on gave its row back. *)
THEOREM UnchargedByRelease == Spec => []UnchargedOnlyByRelease
<1>1. ASSUME IInv PROVE UnchargedOnlyByRelease
  <2> SUFFICES ASSUME NEW r \in Request, req[r].allowed, Row(r) \notin usage
               PROVE  \E q \in Request :
                        Row(q) = Row(r) /\ req[q].reserved /\ req[q].phase = "failed"
    BY DEF UnchargedOnlyByRelease
  <2>1. Charged(r)
    BY <1>1 DEF IInv, Knows, SeenRow, Sees
  <2> QED BY <2>1 DEF Charged
<1> QED BY <1>1, Invariance, PTL

(* Nobody loses the row they rely on through another request that releases its own *)
(* (feature_usage.go:122-129), whatever the requests and the targets.               *)
THEOREM ReleaseSafe == Spec => []ReleaseIsSafe
<1>1. ReservationHeld /\ UnchargedOnlyByRelease => ReleaseIsSafe
  BY DEF ReleaseIsSafe
<1> QED BY <1>1, ReservationsHold, UnchargedByRelease, PTL

(* Drafts and their charges commit together. *)
THEOREM DraftsCharged == Spec => []DraftsMatchCharges
<1>1. IInv => DraftsMatchCharges
  BY DEF IInv
<1> QED BY <1>1, Invariance, PTL

-----------------------------------------------------------------------------
(* The refinement: one step of a request is one step of the quota. *)

(* The held rows change only through the row of the request that acts. *)
LEMMA HeldStep ==
  ASSUME IInv, NEW r \in Request, Acts(r)
  PROVE  /\ Held' \subseteq Held \cup {Row(r)}
         /\ Held \ {Row(r)} \subseteq Held'
         /\ Row(r) \in Held' \ Held => Allow(r) /\ ~req[r].exists
<1>1. ASSUME NEW q \in Request, q # r
      PROVE  Row(q)' = Row(q) /\ (Holding(q)' <=> Holding(q))
  BY <1>1, Footprint, SameRequest DEF Only
<1>2. Holding(r)' => /\ Row(r)' = Row(r)
                     /\ Holding(r) \/ (Allow(r) /\ ~req[r].exists)
  BY Acquires, FixedRow
<1>3. \A x : x \in Held <=> \E q \in Request : Holding(q) /\ x = Row(q)
  BY DEF Held
<1>4. \A x : x \in Held' <=> \E q \in Request : Holding(q)' /\ x = Row(q)'
  BY DEF Held
<1> QED BY <1>1, <1>2, <1>3, <1>4

LEMMA CapType == Cap \in [Plan -> [Key -> Int]]
  BY Constants DEF Cap, Key

LEMMA RefinesInit == Init => Q!Init
<1> SUFFICES ASSUME Init PROVE Q!Init
  OBVIOUS
<1>1. Held = {}
  BY DEF Init, Held, Holding
<1> QED BY <1>1 DEF Init, Q!Init

(* A request that finds room charges its row within a limit in force. *)
LEMMA RefinesCharge ==
  ASSUME IInv, NEW r \in Request, req[r].phase = "counted", ~req[r].exists, HasRoom(r),
         usage' = usage \cup {Row(r)}, seen' = seen,
         Held' \subseteq Held \cup {Row(r)}, Held \ {Row(r)} \subseteq Held'
  PROVE  Row(r) \in Q!Item /\ Q!Charge(Row(r))
<1>1. TypeOK /\ ReservationHeld /\ Knows(r) /\ IsFiniteSet(usage)
  BY DEF IInv
<1>2. Row(r) \in [key: Key, subject: Subject] /\ Row(r).key = KeyOf(r) /\ KeyOf(r) \in Key
  BY <1>1, RowType DEF TypeOK, Row
<1>3. Row(r) \notin usage
  BY <1>1 DEF Knows, StillAbsent
<1>4. Row(r) \notin Held
  BY <1>1, <1>3 DEF Held, ReservationHeld
<1>5. PICK q \in seen : Cap[q][KeyOf(r)] = req[r].limit
  BY <1>1 DEF Knows, LimitInForce, InTx
<1>6. /\ Cardinality(Used(KeyOf(r))) <= req[r].used
      /\ Cardinality(Used(KeyOf(r))) \in Nat /\ req[r].used \in Int /\ req[r].limit \in Int
  BY <1>1, Counting DEF Knows, CountBounds, TypeOK, Rec
<1>7. Cap[q][KeyOf(r)] < 0 \/ Cardinality(Used(KeyOf(r))) < Cap[q][KeyOf(r)]
  BY <1>5, <1>6 DEF HasRoom
<1>8. Held' \in {Held, Held \cup {Row(r)}}
  BY <1>4
<1>9. Used(Row(r).key) = Q!Used(Row(r).key)
  BY DEF Used, Q!Used
<1>10. Q!Cardinality(Used(KeyOf(r))) = Cardinality(Used(KeyOf(r)))
  BY DEF Cardinality, Q!Cardinality
<1> QED BY <1>2, <1>3, <1>5, <1>7, <1>8, <1>9, <1>10 DEF Q!Charge, Q!Item, Q!Unlimited

LEMMA RefinesStep == IInv /\ [Next]_vars => [Q!Next]_(Q!vars)
<1> SUFFICES ASSUME IInv, [Next]_vars PROVE [Q!Next]_(Q!vars)
  OBVIOUS
<1>1. ASSUME NEW r \in Request, Acts(r) PROVE Q!Next
  <2>1. /\ Held' \subseteq Held \cup {Row(r)}
        /\ Held \ {Row(r)} \subseteq Held'
        /\ Row(r) \in Held' \ Held => Allow(r) /\ ~req[r].exists
        /\ seen' = seen
    BY <1>1, HeldStep, Footprint
  <2>2. CASE Release(r)
    <3>1. Holding(r)
      BY <2>2 DEF IInv, Knows, MeteredCall, Release, Holding
    <3>2. Row(r) \in Held /\ Row(r) \in usage
      BY <3>1 DEF Held, IInv, ReservationHeld
    <3>3. Row(r) \in Q!Item
      BY RowType DEF IInv, TypeOK, Q!Item
    <3>4. usage' = usage \ {Row(r)}
      BY <2>2 DEF Release
    <3>5. Row(r) \notin Held'
      <4>1. Row(r) \notin usage'
        BY <3>4
      <4>2. ReservationHeld'
        BY ReservationStep
      <4> QED BY <4>1, <4>2 DEF Held, ReservationHeld
    <3>6. Held' = Held \ {Row(r)}
      BY <2>1, <3>5
    <3>7. Q!Refund(Row(r))
      BY <2>1, <3>2, <3>4, <3>6 DEF Q!Refund
    <3> QED BY <3>3, <3>7 DEF Q!Next
  <2>3. CASE usage' = usage
    <3>1. Row(r) \notin Held' \ Held
      <4> SUFFICES ASSUME Row(r) \in Held' \ Held PROVE FALSE
        OBVIOUS
      <4>1. Allow(r) /\ ~req[r].exists
        BY <2>1
      <4>2. Row(r) \in usage' /\ Row(r) \notin usage
        BY <4>1 DEF Allow, Committed, IInv, Knows, StillAbsent
      <4> QED BY <2>3, <4>2
    <3>2. Held' \in SUBSET Held
      BY <2>1, <3>1
    <3> QED BY <2>1, <2>3, <3>2 DEF Q!Next, Q!Settle
  <2>4. CASE /\ Allow(r) \/ CommitAnswerLost(r)
             /\ usage' # usage
    <3>1. req[r].phase = "counted" /\ Committed(r) /\ (req[r].exists \/ HasRoom(r))
      BY <2>4 DEF Allow, CommitAnswerLost
    <3>2. ~req[r].exists /\ usage' = usage \cup {Row(r)}
      BY <2>4, <3>1 DEF Committed
    <3>3. Row(r) \in Q!Item /\ Q!Charge(Row(r))
      BY <2>1, <3>1, <3>2, RefinesCharge
    <3> QED BY <3>3 DEF Q!Next
  <2>5. usage' = usage \/ Allow(r) \/ CommitAnswerLost(r) \/ Release(r)
    BY <1>1 DEF Acts, Proceed, FailStep, Ask, AskDraft, CheckExisting, Price, Peek, RefuseZero,
                TakeLock, ReadExists, ReadUsed, Deny, CallSucceeds, CallFails,
                ClientLeaves, PlanUnreadable, LookupFails, TxFails, ReleaseFails, Tables
  <2> QED BY <2>2, <2>3, <2>4, <2>5
<1>2. CASE Restart
  <2>1. ASSUME NEW q \in Request PROVE ~Holding(q)'
    <3>1. req[q] \in Rec /\ TypeOK
      BY DEF IInv, TypeOK
    <3> QED BY <1>2, <3>1, RestartStep DEF Rec, Holding, Answered
  <2>2. Held' = {} /\ UNCHANGED <<seen, usage>>
    BY <1>2, <2>1 DEF Held, Restart, Fault
  <2> QED BY <2>2 DEF Q!Next, Q!Settle
<1>3. ASSUME UNCHANGED req PROVE Held' = Held
  BY <1>3 DEF Held, Holding, Row, KeyOf, SubjectOf
<1>4. ASSUME NEW q \in Plan, ChangePlan(q) PROVE Q!Next
  BY <1>3, <1>4 DEF ChangePlan, Q!Next, Q!Offer
<1>5. CASE NextMonth \/ UNCHANGED vars
  BY <1>3, <1>5 DEF NextMonth, vars, Q!vars
<1> QED BY <1>1, <1>2, <1>4, <1>5, Steps

(* Requests, advisory lock and unlocked release implement the quota. *)
THEOREM QuotaImplemented == Spec => ImplementsQuota
  BY RefinesInit, RefinesStep, Invariance, PTL DEF Spec, ImplementsQuota, Q!Spec

-----------------------------------------------------------------------------
(* The limit, from the promise alone: whatever implements Quota keeps it.    *)

LEMMA SameCardinality == ASSUME NEW S PROVE Q!Cardinality(S) = Cardinality(S)
  BY DEF Cardinality, Q!Cardinality

QuotaInv ==
    /\ seen \in SUBSET Plan
    /\ usage \in SUBSET Q!Item
    /\ IsFiniteSet(usage)
    /\ Q!WithinCap

LEMMA ChargeKeepsCap ==
  ASSUME QuotaInv, NEW x \in Q!Item, Q!Charge(x)
  PROVE  QuotaInv'
<1>1. IsFiniteSet(usage')
  BY FS_AddElement DEF Q!Charge, QuotaInv
<1>2. ASSUME NEW k \in Key, Q!Used(k)' # {}
      PROVE  \E q \in seen' : Q!Unlimited(q, k) \/ Cardinality(Q!Used(k)') <= Cap[q][k]
  <2>1. CASE x.key = k
    <3>1. IsFiniteSet(Q!Used(k)) /\ x \notin Q!Used(k)
      BY FS_Subset DEF Q!Charge, Q!Used, QuotaInv
    <3>2. Q!Used(k)' = Q!Used(k) \cup {x}
      BY <2>1 DEF Q!Charge, Q!Used
    <3>3. Cardinality(Q!Used(k)') = Cardinality(Q!Used(k)) + 1 /\ Cardinality(Q!Used(k)) \in Nat
      BY <3>1, <3>2, FS_AddElement, FS_CardinalityType
    <3>4. PICK q \in seen : Q!Unlimited(q, k) \/ Cardinality(Q!Used(k)) < Cap[q][k]
      BY <2>1, SameCardinality DEF Q!Charge
    <3>5. Cap[q][k] \in Int
      BY <3>4, CapType DEF QuotaInv
    <3> QED BY <3>3, <3>4, <3>5 DEF Q!Charge
  <2>2. CASE x.key # k
    <3>1. Q!Used(k)' = Q!Used(k)
      BY <2>2 DEF Q!Charge, Q!Used
    <3> QED BY <1>2, <3>1, SameCardinality DEF Q!Charge, Q!WithinCap, QuotaInv
  <2> QED BY <2>1, <2>2
<1>3. Q!WithinCap'
  BY <1>2, SameCardinality DEF Q!WithinCap, Q!Unlimited
<1> QED BY <1>1, <1>3 DEF Q!Charge, QuotaInv

LEMMA RefundKeepsCap ==
  ASSUME QuotaInv, NEW x \in Q!Item, Q!Refund(x)
  PROVE  QuotaInv'
<1>1. IsFiniteSet(usage')
  BY FS_RemoveElement DEF Q!Refund, QuotaInv
<1>2. ASSUME NEW k \in Key, Q!Used(k)' # {}
      PROVE  \E q \in seen' : Q!Unlimited(q, k) \/ Cardinality(Q!Used(k)') <= Cap[q][k]
  <2>1. IsFiniteSet(Q!Used(k)) /\ Q!Used(k)' \subseteq Q!Used(k)
    BY FS_Subset DEF Q!Refund, Q!Used, QuotaInv
  <2>2. /\ Cardinality(Q!Used(k)') <= Cardinality(Q!Used(k))
        /\ Cardinality(Q!Used(k)) \in Nat /\ Cardinality(Q!Used(k)') \in Nat
    BY <2>1, FS_Subset, FS_CardinalityType
  <2>3. PICK q \in seen : Q!Unlimited(q, k) \/ Cardinality(Q!Used(k)) <= Cap[q][k]
    BY <1>2, <2>1, SameCardinality DEF Q!WithinCap, QuotaInv
  <2>4. Cap[q][k] \in Int
    BY <2>3, CapType DEF QuotaInv
  <2> QED BY <2>2, <2>3, <2>4 DEF Q!Refund
<1>3. Q!WithinCap'
  BY <1>2, SameCardinality DEF Q!WithinCap, Q!Unlimited
<1> QED BY <1>1, <1>3 DEF Q!Refund, QuotaInv

(* A quota never has more charged items than the largest limit in force so far. *)
THEOREM QuotaKeepsCap == Q!Spec => []Q!WithinCap
<1>1. Q!Init => QuotaInv
  BY FS_EmptySet DEF Q!Init, QuotaInv, Q!WithinCap, Q!Used
<1>2. QuotaInv /\ [Q!Next]_(Q!vars) => QuotaInv'
  <2> SUFFICES ASSUME QuotaInv, [Q!Next]_(Q!vars) PROVE QuotaInv'
    OBVIOUS
  <2>1. ASSUME NEW q \in Plan, Q!Offer(q) PROVE QuotaInv'
    BY <2>1 DEF Q!Offer, QuotaInv, Q!WithinCap, Q!Used, Q!Unlimited
  <2>2. CASE Q!Settle \/ UNCHANGED Q!vars
    BY <2>2 DEF Q!Settle, Q!vars, QuotaInv, Q!WithinCap, Q!Used, Q!Unlimited
  <2> QED BY <2>1, <2>2, ChargeKeepsCap, RefundKeepsCap DEF Q!Next
<1>3. QuotaInv => Q!WithinCap
  BY DEF QuotaInv
<1> QED BY <1>1, <1>2, <1>3, PTL DEF Q!Spec

(* No feature has more rows in a month than the largest limit in force so far. *)
THEOREM RowsWithinLimit == Spec => []Q!WithinCap
  BY QuotaImplemented, QuotaKeepsCap, PTL DEF ImplementsQuota
=============================================================================
