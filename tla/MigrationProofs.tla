--------------------------- MODULE MigrationProofs ---------------------------
(* What holds of migrate.Apply for every script that obeys the assumptions  *)
(* of Migration, any number of collectors and starts.  Most facts are about *)
(* how far the server has got: what it has done nobody undoes, but for the  *)
(* lists the collectors narrow.                                             *)
EXTENDS Migration, TLAPS

Reminder == "saved_search_deadline"

-----------------------------------------------------------------------------
(* The invariants.                                                          *)

\* The server has gone past step i.
Past(i) == i < pc["server"]

\* The database has all that the steps before the server's have made, and the
\* first tables as soon as it has any; collectors run while it serves.
Progress ==
    /\ \A q \in Collector : pc[q] # 0 => Serving
    /\ pc["server"] > 1 => "notices" \in objects
    /\ "notices" \in objects => FirstTables \subseteq objects
    /\ \A i \in 2..LastStep : Past(i) => Script[i].makes \subseteq objects

\* Without the column there are only old rows, and nothing to fill.
ColumnsFirst ==
    \A b \in DOMAIN Backfilled :
        b \notin objects => row[b] # "new" /\ mark[b] = "null"

\* Rows have values that handlers write, or an old status.
ValuesKnown ==
    \A c \in DOMAIN Written :
        values[c] \subseteq Written[c] \union (IF c = "stage" THEN Old[c] ELSE {})

\* What the server has converted does not come back.
Converted ==
    \A i \in StepsOf({"remap"}) :
        Past(i) => values[Script[i].on] \intersect DOMAIN Script[i].map = {}

\* No list the server has set is narrowed by more than the reminders.
ListsWide ==
    \A i \in StepsOf({"widen", "add"}) :
        Past(i) /\ Listed(Script[i].on) =>
            Written[Script[i].on] \ {Reminder} \subseteq check[Script[i].on]

\* The other lists are there for good.
OthersStay ==
    \A i \in StepsOf({"widen"}) :
        Past(i) /\ Script[i].on # "event" =>
            /\ Listed(Script[i].on)
            /\ Written[Script[i].on] \subseteq check[Script[i].on]

\* Reminders are only written while the server serves, and no list is set
\* against them.
RemindersLate ==
    Reminder \in values["event"] =>
        /\ \A i \in 2..LastStep : Script[i].makes \subseteq objects
        /\ "notices" \in objects
        /\ Listed("event") => Reminder \in check["event"]

\* A collector that has dropped the list of the stages will set it again.
WillAdd == \E q \in Collector : pc[q] \in (DropStep + 1)..AddStep

StagesListed == Past(AddStep) => Listed("stage") \/ WillAdd

\* A collector that will set the list of all events: nothing can stop it, or
\* another that has come further will.
WillRestore ==
    \E q \in Collector :
        \/ pc[q] \in 1..DropStep
        \/ pc[q] \in (DropStep + 1)..AddStep /\ ~Listed("stage")
        \/ pc[q] \in (AddStep + 1)..EventStep

EventsListed ==
    Past(EventStep) =>
        /\ Listed("event")
        /\ Written["event"] \subseteq check["event"] \/ WillRestore

-----------------------------------------------------------------------------
(* The constants.                                                           *)

LEMMA WrittenFacts ==
    /\ DOMAIN Written = {"event", "delivery", "payment", "lookup", "stage"}
    /\ Written["stage"] = SixStages
    /\ Reminder \in Written["event"]
    /\ \A c \in DOMAIN Written : c # "event" => Reminder \notin Written[c]
    /\ DOMAIN Old = {"stage", "industry"}
    /\ \A v \in SixStages : v \notin Old["stage"]
    /\ \A c \in DOMAIN Old : \A v \in Old[c] : v # Reminder
    /\ Constraints = DOMAIN Written \union {"industry"}
    /\ "group" \in Old["industry"]
  BY DEF Written, Old, Constraints, SixStages, NineStages, EventsFinal,
         DeliveryFinal, PaymentsFinal, LookupsFinal, Reminder

LEMMA TableFacts ==
    /\ DOMAIN Backfilled = {"onboarding_completed_at", "email_verified_at",
                            "recipient_contact_ids"}
    /\ FirstTables \intersect DOMAIN Backfilled = {}
    /\ EmbeddedTables \intersect DOMAIN Backfilled = {}
    /\ FirstTables \subseteq EmbeddedTables
    /\ "notices" \in FirstTables
  BY DEF Backfilled, FirstTables, EmbeddedTables

LEMMA ScriptFacts ==
    /\ LastStep \in Nat \ {0}
    /\ Done = LastStep + 1
    /\ Script[1].op = "init" /\ Script[1].needs = {}
    /\ Script[1].makes = EmbeddedTables
    /\ \A i \in 2..LastStep : Script[i].op # "init" /\ "notices" \notin Script[i].makes
    /\ \A i \in 1..LastStep : Script[i].makes \subseteq AllObjects
    /\ \A i \in StepsOf({"seed"}) : Script[i].list \subseteq Keys
    /\ "banners" \in Keys
  BY ScriptAssumption DEF InitFirst, StepsOf, Done, AllObjects, Keys

-----------------------------------------------------------------------------
(* Types.                                                                   *)

LEMMA FoundFacts ==
    ASSUME NEW r \in Release
    PROVE  /\ Found[r].objects \subseteq AllObjects
           /\ "notices" \in Found[r].objects => FirstTables \subseteq Found[r].objects
           /\ \A c \in DOMAIN Found[r].check : c \in DOMAIN Written
           /\ \A c \in DOMAIN Found[r].check :
                  Found[r].check[c] \subseteq
                      Written[c] \union (IF c = "stage" THEN Old[c] ELSE {})
<1>1. 1 \in 1..LastStep /\ EmbeddedTables \subseteq AllObjects
  BY ScriptFacts
<1>2. FirstTables \subseteq AllObjects \ DOMAIN Backfilled
  BY <1>1, TableFacts
<1>3. r \in {"empty", "first", "embedded", "earlier", "current"}
  BY ReleaseAssumption DEF Found
<1>4. /\ Found[r].objects \subseteq AllObjects
      /\ "notices" \in Found[r].objects => FirstTables \subseteq Found[r].objects
  BY <1>1, <1>2, <1>3, TableFacts DEF Found
<1>5. CASE r \in {"empty", "first"}
  BY <1>4, <1>5 DEF Found, NoMap
<1>6. CASE r = "embedded"
  BY <1>4, <1>6 DEF Found, EmbeddedChecks, Written, Old, EventsCreated,
     EventsFinal, DeliveryCreated, DeliveryFinal, PaymentsCreated,
     PaymentsFinal, LookupsFinal, NineStages, SixStages
<1>7. CASE r = "earlier"
  BY <1>4, <1>7 DEF Found, Latest, Written, EventsNarrow, EventsFinal
<1>8. CASE r = "current"
  BY <1>4, <1>8 DEF Found, Latest, Written
<1>9. QED
  BY <1>3, <1>5, <1>6, <1>7, <1>8

LEMMA GoesFacts ==
    ASSUME TypeOK, NEW p \in Process, pc[p] \in 1..LastStep, Goes(p)
    PROVE  /\ pc' \in [Process -> 0..Done]
           /\ pc'[p] = pc[p] + 1
           /\ \A q \in Process : q # p =>
                  \/ pc'[q] = pc[q]
                  \/ pc'[q] = 1 /\ p = "server" /\ pc[p] = LastStep
           /\ p = "server" /\ pc[p] = LastStep => \A q \in Process : q # p => pc'[q] = 1
<1>1. CASE p = "server" /\ pc[p] = LastStep
  <2>1. pc' = [q \in Process |-> IF q = p THEN Done ELSE 1]
    BY <1>1 DEF Goes
  <2>2. QED
    BY <1>1, <2>1, ScriptFacts
<1>2. CASE ~(p = "server" /\ pc[p] = LastStep)
  <2>1. pc' = [pc EXCEPT ![p] = @ + 1]
    BY <1>2 DEF Goes
  <2>2. pc[p] + 1 \in 0..Done
    BY ScriptFacts
  <2>3. QED
    <3>1. pc \in [Process -> 0..Done]
      BY DEF TypeOK
    <3>2. pc' \in [Process -> 0..Done]
      BY <2>1, <2>2, <3>1
    <3>3. pc'[p] = pc[p] + 1 /\ \A q \in Process : q # p => pc'[q] = pc[q]
      BY <2>1, <3>1
    <3>4. QED
      BY <1>2, <3>2, <3>3
<1>3. QED
  BY <1>1, <1>2

LEMMA TypeInit == Init => TypeOK
<1> SUFFICES ASSUME Init PROVE TypeOK
  OBVIOUS
<1>1. PICK r \in Release :
        /\ objects = Found[r].objects
        /\ DOMAIN values = Constraints
        /\ content \in [Keys -> {"absent", "seeded", "edited"}]
        /\ row \in [DOMAIN Backfilled -> {"none", "old", "new"}]
        /\ mark \in [DOMAIN Backfilled -> {"null", "given", "earned"}]
        /\ pc \in [Process -> 0..Done]
  BY ScriptFacts DEF Init
<1>2. QED
  BY <1>1, FoundFacts DEF TypeOK

LEMMA TypeNext == TypeOK /\ [Next]_vars => TypeOK'
<1> SUFFICES ASSUME TypeOK, [Next]_vars PROVE TypeOK'
  OBVIOUS
<1> USE DEF TypeOK
<1>1. CASE Boot
  BY <1>1, ScriptFacts DEF Boot, database, Process
<1>2. CASE Crash
  BY <1>2, ScriptFacts DEF Crash, database
<1>3. ASSUME NEW p \in Process, pc[p] \in 1..LastStep,
             ApplyStep(p, Script[pc[p]])
      PROVE  TypeOK'
  <2> DEFINE s == Script[pc[p]]
  <2>1. s.makes \subseteq AllObjects
    BY <1>3, ScriptFacts
  <2>2. CASE Fail(p, s)
    BY <2>2, ScriptFacts DEF Fail, database
  <2>3. CASE Goes(p) /\ ~Fail(p, s)
    <3>1. pc' \in [Process -> 0..Done]
      BY <1>3, <2>3, GoesFacts
    <3>2. row' = row
      BY <2>3 DEF Goes
    <3>3. objects' = objects \/ objects' = objects \union s.makes
      BY <1>3, <2>3 DEF ApplyStep, Create, CreateAll, CreateChecked, Widen, Drop,
         Remap, Add, Seed, Backfill, Runs
    <3>4. values' = values \/ values' = [values EXCEPT ![s.on] = Remapped(s.on, s.map)]
      BY <1>3, <2>3 DEF ApplyStep, Create, CreateAll, CreateChecked, Widen, Drop,
         Remap, Add, Seed, Backfill
    <3>5. content' \in [Keys -> {"absent", "seeded", "edited"}]
      BY <1>3, <2>3 DEF ApplyStep, Create, CreateAll, CreateChecked, Widen, Drop,
         Remap, Add, Seed, Backfill, Seeded
    <3>6. mark' \in [DOMAIN Backfilled -> {"null", "given", "earned"}]
      BY <1>3, <2>3 DEF ApplyStep, Create, CreateAll, CreateChecked, Widen, Drop,
         Remap, Add, Seed, Backfill, Filled
    <3>7. QED
      BY <2>1, <3>1, <3>2, <3>3, <3>4, <3>5, <3>6
  <2>4. QED
    BY <1>3, <2>2, <2>3 DEF ApplyStep, Create, CreateAll, CreateChecked, Widen,
       Drop, Remap, Add, Seed, Backfill, Runs
<1>4. CASE UserStep
  <2>1. UNCHANGED <<objects, pc>>
    BY <1>4 DEF UserStep, WriteRow, Edit, RemoveBanners, SignUp, Earn, Acts
  <2>2. /\ Constraints \subseteq DOMAIN values'
        /\ content' \in [Keys -> {"absent", "seeded", "edited"}]
        /\ row' \in [DOMAIN Backfilled -> {"none", "old", "new"}]
        /\ mark' \in [DOMAIN Backfilled -> {"null", "given", "earned"}]
    BY <1>4 DEF UserStep, WriteRow, Edit, RemoveBanners, SignUp, Earn
  <2>3. QED
    BY <2>1, <2>2
<1>5. CASE UNCHANGED vars
  BY <1>5 DEF vars
<1>6. QED
  BY <1>1, <1>2, <1>3, <1>4, <1>5 DEF Next

-----------------------------------------------------------------------------
(* How far the server has got.                                              *)

\* Nothing is ever taken away.
LEMMA ObjectsGrow ==
    ASSUME [Next]_vars
    PROVE  objects \subseteq objects'
<1>1. ASSUME NEW p \in Process, pc[p] \in 1..LastStep,
             ApplyStep(p, Script[pc[p]])
      PROVE  objects \subseteq objects'
  BY <1>1 DEF ApplyStep, Create, CreateAll, CreateChecked, Widen, Drop, Remap,
     Add, Seed, Backfill, Fail, Runs, database
<1>2. CASE UserStep
  BY <1>2 DEF UserStep, WriteRow, Edit, RemoveBanners, SignUp, Earn, Acts
<1>3. QED
  BY <1>1, <1>2 DEF Next, Boot, Crash, vars, database

\* A step makes its tables, or finds the notices and makes none.
LEMMA StepMakes ==
    ASSUME NEW p \in Process, pc[p] \in 1..LastStep,
           ApplyStep(p, Script[pc[p]]), ~Fail(p, Script[pc[p]])
    PROVE  /\ Goes(p)
           /\ \/ objects' = objects \union Script[pc[p]].makes
              \/ objects' = objects /\ Script[pc[p]].op = "init" /\ "notices" \in objects
  BY DEF ApplyStep, Create, CreateAll, CreateChecked, Widen, Drop, Remap, Add,
     Seed, Backfill, Runs

LEMMA ProgressInit == Init => Progress
<1> SUFFICES ASSUME Init PROVE Progress
  OBVIOUS
<1>1. PICK r \in Release : objects = Found[r].objects
  BY DEF Init
<1>2. pc = [p \in Process |-> 0]
  BY DEF Init
<1>3. "notices" \in objects => FirstTables \subseteq objects
  BY <1>1, FoundFacts
<1>4. QED
  BY <1>2, <1>3 DEF Progress, Past, Process

LEMMA ProgressNext == TypeOK /\ Progress /\ [Next]_vars => Progress'
<1> SUFFICES ASSUME TypeOK, Progress, [Next]_vars PROVE Progress'
  OBVIOUS
<1>0. objects \subseteq objects'
  BY ObjectsGrow
<1>1. CASE Boot \/ Crash
  <2>1. objects' = objects
    BY <1>1 DEF Boot, Crash, database
  <2>2. pc'["server"] \in {0, 1} /\ \A q \in Collector : pc'[q] = 0
    BY <1>1, CollectorAssumption DEF Boot, Crash, TypeOK, Process
  <2>3. QED
    BY <2>1, <2>2, ScriptFacts DEF Progress, Past
<1>2. ASSUME NEW p \in Process, pc[p] \in 1..LastStep,
             ApplyStep(p, Script[pc[p]])
      PROVE  Progress'
  <2> DEFINE s == Script[pc[p]]
  <2>1. CASE Fail(p, s)
    <3>1. CASE p = "server"
      BY <2>1, <3>1, ScriptFacts DEF Fail, database, Progress, Past, Process
    <3>2. CASE p # "server"
      <4>1. pc' = [pc EXCEPT ![p] = 0] /\ objects' = objects
        BY <2>1, <3>2 DEF Fail, database
      <4>2. pc'["server"] = pc["server"] /\ \A q \in Collector : pc'[q] \in {0, pc[q]}
        BY <4>1, <3>2 DEF TypeOK
      <4>3. QED
        BY <4>1, <4>2 DEF Progress, Past, Serving
    <3>3. QED
      BY <3>1, <3>2
  <2>2. CASE ~Fail(p, s)
    <3>1. /\ Goes(p)
          /\ \/ objects' = objects \union s.makes
             \/ objects' = objects /\ s.op = "init" /\ "notices" \in objects
      BY <1>2, <2>2, StepMakes
    <3>2. "notices" \in objects' => FirstTables \subseteq objects'
      BY <1>0, <3>1, <1>2, ScriptFacts, TableFacts DEF Progress
    <3>3. CASE p = "server"
      <4>1. pc'["server"] = pc["server"] + 1
        BY <1>2, <3>1, <3>3, GoesFacts
      <4>2. pc'["server"] > 1 => "notices" \in objects'
        <5>1. CASE pc["server"] = 1
          BY <5>1, <3>1, <3>3, ScriptFacts, TableFacts
        <5>2. CASE pc["server"] > 1
          BY <5>2, <1>0 DEF Progress
        <5>3. QED
          BY <5>1, <5>2, <1>2, <3>3, ScriptFacts
      <4>3. ASSUME NEW i \in 2..LastStep, i < pc'["server"]
            PROVE  Script[i].makes \subseteq objects'
        <5>1. CASE i < pc["server"]
          BY <5>1, <1>0 DEF Progress, Past
        <5>2. CASE i = pc["server"]
          BY <5>2, <3>1, <3>3, ScriptFacts
        <5>3. QED
          BY <4>1, <4>3, <5>1, <5>2, <1>2, <3>3, ScriptFacts
      <4>4. \A q \in Collector : pc'[q] # 0 => pc'["server"] = Done
        <5>1. \A q \in Collector : pc[q] = 0
          BY <1>2, <3>3, ScriptFacts DEF Progress, Serving
        <5>2. CASE pc["server"] = LastStep
          BY <4>1, <5>2, ScriptFacts
        <5>3. CASE pc["server"] # LastStep
          <6>1. \A q \in Process : q # "server" => pc'[q] = pc[q]
            BY <5>3, <1>2, <3>1, <3>3, GoesFacts
          <6>2. QED
            BY <5>1, <6>1, CollectorAssumption DEF Process
        <5>4. QED
          BY <5>2, <5>3
      <4>5. QED
        BY <3>2, <4>2, <4>3, <4>4 DEF Progress, Past, Serving
    <3>4. CASE p # "server"
      <4>1. pc'["server"] = pc["server"] /\ Serving
        BY <1>2, <3>1, <3>4, GoesFacts, ScriptFacts DEF Process, Progress
      <4>2. QED
        BY <1>0, <3>2, <4>1 DEF Progress, Past, Serving
    <3>5. QED
      BY <3>3, <3>4
  <2>3. QED
    BY <2>1, <2>2
<1>3. CASE UserStep
  BY <1>3 DEF UserStep, WriteRow, Edit, RemoveBanners, SignUp, Earn, Acts,
     Progress, Past, Serving
<1>4. CASE UNCHANGED vars
  BY <1>4 DEF vars, Progress, Past, Serving
<1>5. QED
  BY <1>1, <1>2, <1>3, <1>4 DEF Next

\* Who gets past the first step finds all tables that come before.
LEMMA NothingMissing ==
    ASSUME TypeOK, Progress, NEW p \in Process, pc[p] \in 1..LastStep
    PROVE  Script[pc[p]].needs \subseteq objects
<1>1. CASE pc[p] = 1
  BY <1>1, ScriptFacts
<1>2. CASE pc[p] # 1
  <2>1. pc[p] \in 2..LastStep
    BY <1>2, ScriptFacts
  <2>2. pc["server"] >= pc[p]
    BY ScriptFacts DEF Progress, Serving, Process
  <2>3. pc["server"] \in 0..Done
    BY DEF TypeOK, Process
  <2>4. FirstTables \subseteq objects
    BY <2>1, <2>2, <2>3, ScriptFacts DEF Progress
  <2>5. \A j \in 2..(pc[p] - 1) : Script[j].makes \subseteq objects
    BY <2>1, <2>2, <2>3, ScriptFacts DEF Progress, Past
  <2>6. QED
    BY <2>1, <2>4, <2>5, ScriptAssumption DEF NeedsAreMadeBefore
<1>3. QED
  BY <1>1, <1>2

\* A server that serves has made everything.
LEMMA ServingHasAll ==
    ASSUME TypeOK, Progress, Serving
    PROVE  /\ \A i \in 2..LastStep : Script[i].makes \subseteq objects
           /\ "notices" \in objects
           /\ \A i \in 1..LastStep : Past(i)
  BY ScriptFacts DEF Progress, Past, Serving

-----------------------------------------------------------------------------
(* Every row keeps its requirement.                                         *)

LEMMA MarksInit == Init => ColumnsFirst /\ GrandfatheredOnce
<1> SUFFICES ASSUME Init PROVE ColumnsFirst /\ GrandfatheredOnce
  OBVIOUS
<1>1. PICK r \in Release :
        /\ objects = Found[r].objects
        /\ row = [b \in DOMAIN Backfilled |->
                     IF Backfilled[b] \notin Found[r].objects THEN "none"
                     ELSE IF b \in Found[r].objects THEN "new" ELSE "old"]
        /\ mark = [b \in DOMAIN Backfilled |-> "null"]
  BY DEF Init
<1>2. QED
  BY <1>1 DEF ColumnsFirst, GrandfatheredOnce

\* A column comes with the step that fills it.
LEMMA ColumnsComeFilled ==
    ASSUME NEW i \in 1..LastStep, NEW b \in DOMAIN Backfilled,
           b \in Script[i].makes
    PROVE  Script[i].op = "backfill" /\ Script[i].on = b
  BY ScriptAssumption DEF ColumnsAreFilled

LEMMA ServingHasColumns ==
    ASSUME TypeOK, Progress, Serving
    PROVE  DOMAIN Backfilled \subseteq objects
<1> SUFFICES ASSUME NEW b \in DOMAIN Backfilled PROVE b \in objects
  OBVIOUS
<1>1. PICK i \in 1..LastStep : Script[i].op = "backfill" /\ Script[i].on = b
  BY ScriptAssumption DEF ColumnsAreFilled, On, StepsOf
<1>2. b \in Script[i].makes
  BY <1>1, ScriptAssumption DEF ColumnsAreFilled
<1>3. i # 1
  BY <1>1, ScriptFacts
<1>4. QED
  BY <1>2, <1>3, ServingHasAll, ScriptFacts

LEMMA MarksNext ==
    TypeOK /\ Progress /\ ColumnsFirst /\ GrandfatheredOnce /\ [Next]_vars
        => ColumnsFirst' /\ GrandfatheredOnce'
<1> SUFFICES ASSUME TypeOK, Progress, ColumnsFirst, GrandfatheredOnce, [Next]_vars
             PROVE  ColumnsFirst' /\ GrandfatheredOnce'
  OBVIOUS
<1>0. ASSUME UNCHANGED <<objects, row, mark>>
      PROVE  ColumnsFirst' /\ GrandfatheredOnce'
  BY <1>0 DEF ColumnsFirst, GrandfatheredOnce
<1>1. CASE Boot \/ Crash
  BY <1>0, <1>1 DEF Boot, Crash, database
<1>2. ASSUME NEW p \in Process, pc[p] \in 1..LastStep,
             ApplyStep(p, Script[pc[p]])
      PROVE  ColumnsFirst' /\ GrandfatheredOnce'
  <2> DEFINE s == Script[pc[p]]
  <2>1. CASE Fail(p, s)
    BY <1>0, <2>1 DEF Fail, database
  <2>2. CASE ~Fail(p, s)
    <3>1. /\ row' = row
          /\ \/ objects' = objects \union s.makes
             \/ objects' = objects
      BY <1>2, <2>2, StepMakes DEF Goes
    <3>2. CASE s.op = "backfill"
      <4>1. mark' = [mark EXCEPT ![s.on] = Filled(s.on)]
        BY <1>2, <2>2, <3>2 DEF ApplyStep, Create, CreateAll, CreateChecked, Widen,
           Drop, Remap, Add, Seed, Backfill
      <4>2. objects' = objects \union s.makes
        BY <1>2, <2>2, <3>2, StepMakes
      <4>3. s.makes \intersect DOMAIN Backfilled = {s.on}
        BY <1>2, <3>2, ScriptAssumption DEF ColumnsAreFilled
      <4>4. ASSUME NEW b \in DOMAIN Backfilled, b # s.on
            PROVE  mark'[b] = mark[b] /\ (b \in objects' <=> b \in objects)
        BY <4>1, <4>2, <4>3, <4>4 DEF TypeOK
      <4>5. s.on \in objects' /\ mark'[s.on] = Filled(s.on) /\ s.on \in DOMAIN Backfilled
        BY <4>1, <4>2, <4>3 DEF TypeOK
      <4>6. mark'[s.on] = "given" <=> row[s.on] = "old"
        BY <4>5 DEF Filled, ColumnsFirst, GrandfatheredOnce, TypeOK
      <4>7. QED
        BY <3>1, <4>4, <4>5, <4>6 DEF ColumnsFirst, GrandfatheredOnce
    <3>3. CASE s.op # "backfill"
      <4>1. mark' = mark
        BY <1>2, <2>2, <3>3 DEF ApplyStep, Create, CreateAll, CreateChecked, Widen,
           Drop, Remap, Add, Seed, Backfill
      <4>2. \A b \in DOMAIN Backfilled : b \in objects' <=> b \in objects
        BY <1>2, <3>1, <3>3, ColumnsComeFilled
      <4>3. QED
        BY <3>1, <4>1, <4>2 DEF ColumnsFirst, GrandfatheredOnce
    <3>4. QED
      BY <3>2, <3>3
  <2>3. QED
    BY <2>1, <2>2
<1>3. CASE UserStep
  <2>1. objects' = objects /\ Serving
    BY <1>3 DEF UserStep, WriteRow, Edit, RemoveBanners, SignUp, Earn, Acts
  <2>2. DOMAIN Backfilled \subseteq objects
    BY <2>1, ServingHasColumns
  <2>3. CASE UNCHANGED <<row, mark>>
    BY <1>0, <2>1, <2>3
  <2>4. ASSUME NEW b \in DOMAIN Backfilled, SignUp(b)
        PROVE  ColumnsFirst' /\ GrandfatheredOnce'
    BY <2>1, <2>2, <2>4 DEF SignUp, ColumnsFirst, GrandfatheredOnce, TypeOK
  <2>5. ASSUME NEW b \in DOMAIN Backfilled, Earn(b)
        PROVE  ColumnsFirst' /\ GrandfatheredOnce'
    BY <2>1, <2>2, <2>5 DEF Earn, ColumnsFirst, GrandfatheredOnce, TypeOK
  <2>6. QED
    BY <1>3, <2>3, <2>4, <2>5 DEF UserStep, WriteRow, Edit, RemoveBanners
<1>4. CASE UNCHANGED vars
  BY <1>0, <1>4 DEF vars
<1>5. QED
  BY <1>1, <1>2, <1>3, <1>4 DEF Next

-----------------------------------------------------------------------------
(* The values of rows.                                                      *)

\* What a step does to the values: only a conversion changes them.
LEMMA StepValues ==
    ASSUME NEW p \in Process, pc[p] \in 1..LastStep,
           ApplyStep(p, Script[pc[p]])
    PROVE  \/ values' = values /\ (Script[pc[p]].op = "remap" => Fail(p, Script[pc[p]]))
           \/ Remap(p, Script[pc[p]])
  BY DEF ApplyStep, Create, CreateAll, CreateChecked, Widen, Drop, Remap, Add,
     Seed, Backfill, Fail, database

\* A conversion leaves nothing of what it converts, and nothing old is new.
LEMMA RemapFacts ==
    ASSUME TypeOK, NEW p, NEW i \in StepsOf({"remap"}), Remap(p, Script[i])
    PROVE  /\ Script[i].on \in DOMAIN Old
           /\ \A c \in Constraints : c # Script[i].on => values'[c] = values[c]
           /\ values'[Script[i].on] \intersect DOMAIN Script[i].map = {}
           /\ values'[Script[i].on] \intersect Old[Script[i].on]
                  \subseteq values[Script[i].on]
           /\ Script[i].on = "stage" => values'["stage"] \subseteq values["stage"] \union SixStages
<1> DEFINE s == Script[i]
<1>1. /\ s.on \in DOMAIN Old
      /\ DOMAIN s.map \subseteq Old[s.on]
      /\ \A v \in DOMAIN s.map :
             /\ s.map[v] \notin Old[s.on]
             /\ s.on = "stage" => s.map[v] \in SixStages
  BY ScriptAssumption DEF StagesAreReplaced
<1>2. s.on \in DOMAIN values
  BY <1>1, WrittenFacts DEF TypeOK
<1>3. values' = [values EXCEPT ![s.on] = Remapped(s.on, s.map)]
  BY DEF Remap
<1>4. values'[s.on] = {IF v \in DOMAIN s.map THEN s.map[v] ELSE v : v \in values[s.on]}
  BY <1>2, <1>3 DEF Remapped
<1>5. \A c \in Constraints : c # s.on => values'[c] = values[c]
  BY <1>3 DEF TypeOK
<1>6. QED
  BY <1>1, <1>4, <1>5

LEMMA ValuesInit == Init => ValuesKnown /\ Converted
<1> SUFFICES ASSUME Init PROVE ValuesKnown /\ Converted
  OBVIOUS
<1>1. PICK r \in Release :
        values = [c \in Constraints |->
               IF c \in DOMAIN Found[r].check
               THEN Found[r].check[c] \ {Reminder}
               ELSE IF c = "industry" /\ r \in {"first", "embedded"}
                    THEN {"group", "mid"} ELSE {}]
  BY DEF Init, Reminder
<1>2. ValuesKnown
  BY <1>1, FoundFacts, WrittenFacts DEF ValuesKnown
<1>3. ~ \E i \in 1..LastStep : Past(i)
  BY ScriptFacts DEF Init, Past, Process
<1>4. QED
  BY <1>2, <1>3 DEF Converted, StepsOf

\* The server gets past a step only by this step, or is past it already.
LEMMA PastStep ==
    ASSUME TypeOK, [Next]_vars, NEW i \in 1..LastStep, Past(i)'
    PROVE  \/ Past(i)
           \/ pc["server"] = i /\ ApplyStep("server", Script[i]) /\ ~Fail("server", Script[i])
<1>1. pc["server"] \in 0..Done /\ "server" \in Process
  BY DEF TypeOK, Process
<1>2. ~Boot /\ ~Crash
  BY <1>1, ScriptFacts DEF Boot, Crash, Past, TypeOK
<1>3. ASSUME NEW p \in Process, pc[p] \in 1..LastStep,
             ApplyStep(p, Script[pc[p]])
      PROVE  \/ Past(i)
             \/ pc["server"] = i /\ ApplyStep("server", Script[i]) /\ ~Fail("server", Script[i])
  <2>1. CASE Fail(p, Script[pc[p]])
    <3>1. pc'["server"] \in {0, pc["server"]}
      BY <1>1, <2>1 DEF Fail, TypeOK
    <3>2. QED
      BY <1>1, <3>1, ScriptFacts DEF Past
  <2>2. CASE p = "server" /\ ~Fail(p, Script[pc[p]])
    <3>1. pc'["server"] = pc["server"] + 1
      BY <1>3, <2>2, StepMakes, GoesFacts
    <3>2. QED
      BY <1>1, <1>3, <2>2, <3>1, ScriptFacts DEF Past
  <2>3. CASE p # "server" /\ ~Fail(p, Script[pc[p]])
    <3>1. pc'["server"] = pc["server"]
      BY <1>1, <1>3, <2>3, StepMakes, GoesFacts
    <3>2. QED
      BY <3>1 DEF Past
  <2>4. QED
    BY <2>1, <2>2, <2>3
<1>4. CASE UserStep
  BY <1>4 DEF UserStep, WriteRow, Edit, RemoveBanners, SignUp, Earn, Acts, Past
<1>5. CASE UNCHANGED vars
  BY <1>5 DEF vars, Past
<1>6. QED
  BY <1>2, <1>3, <1>4, <1>5 DEF Next

LEMMA WriteFacts ==
    ASSUME TypeOK, NEW c \in DOMAIN Written, NEW v \in Written[c], WriteRow(c, v)
    PROVE  /\ Serving
           /\ UNCHANGED <<objects, check, pc>>
           /\ \A d \in Constraints : d # c => values'[d] = values[d]
           /\ values'[c] = values[c] \/ values'[c] = values[c] \union {v}
           /\ v \in values'[c] => v \in values[c] \/ (Listed(c) => v \in check[c])
           /\ lost' = lost \/ (lost' = lost \union {v} /\ Listed(c) /\ v \notin check[c])
  BY WrittenFacts DEF WriteRow, Acts, TypeOK

\* The rows change by conversions and by what the handlers write.
LEMMA ValuesChange ==
    ASSUME [Next]_vars
    PROVE  \/ values' = values
           \/ \E p \in Process : pc[p] \in StepsOf({"remap"}) /\ Remap(p, Script[pc[p]])
           \/ \E c \in DOMAIN Written : \E v \in Written[c] : WriteRow(c, v)
<1>1. ASSUME NEW p \in Process, pc[p] \in 1..LastStep,
             ApplyStep(p, Script[pc[p]])
      PROVE  values' = values \/ (pc[p] \in StepsOf({"remap"}) /\ Remap(p, Script[pc[p]]))
  BY <1>1, StepValues DEF Remap, StepsOf
<1>2. CASE UserStep
  BY <1>2 DEF UserStep, Edit, RemoveBanners, SignUp, Earn
<1>3. QED
  BY <1>1, <1>2 DEF Next, Boot, Crash, vars, database

LEMMA ValuesNext ==
    TypeOK /\ ValuesKnown /\ Converted /\ [Next]_vars
        => ValuesKnown' /\ Converted'
<1> SUFFICES ASSUME TypeOK, ValuesKnown, Converted, [Next]_vars
             PROVE  ValuesKnown' /\ Converted'
  OBVIOUS
<1>1. ValuesKnown'
  <2>1. ASSUME NEW p \in Process, NEW i \in StepsOf({"remap"}), Remap(p, Script[i]),
               NEW c \in DOMAIN Written
        PROVE  values'[c] \subseteq Written[c] \union (IF c = "stage" THEN Old[c] ELSE {})
    <3>1. CASE c # Script[i].on
      BY <2>1, <3>1, RemapFacts, WrittenFacts DEF ValuesKnown
    <3>2. CASE c = Script[i].on
      BY <2>1, <3>2, RemapFacts, WrittenFacts DEF ValuesKnown
    <3>3. QED
      BY <3>1, <3>2
  <2>2. ASSUME NEW c \in DOMAIN Written, NEW v \in Written[c], WriteRow(c, v)
        PROVE  ValuesKnown'
    BY <2>2, WriteFacts, WrittenFacts DEF ValuesKnown
  <2>3. QED
    BY <2>1, <2>2, ValuesChange DEF ValuesKnown
<1>2. ASSUME NEW i \in StepsOf({"remap"}), Past(i)'
      PROVE  values'[Script[i].on] \intersect DOMAIN Script[i].map = {}
  <2> DEFINE c == Script[i].on
             old == DOMAIN Script[i].map
  <2>0. c \in DOMAIN Old /\ old \subseteq Old[c] /\ i \in 1..LastStep
    BY <1>2, ScriptAssumption DEF StagesAreReplaced, StepsOf
  <2>1. CASE Past(i)
    <3>1. values[c] \intersect old = {}
      BY <1>2, <2>1 DEF Converted
    <3>2. ASSUME NEW p \in Process, NEW j \in StepsOf({"remap"}), Remap(p, Script[j])
          PROVE  values'[c] \intersect old = {}
      <4>1. CASE c # Script[j].on
        BY <2>0, <3>1, <3>2, <4>1, RemapFacts, WrittenFacts
      <4>2. CASE c = Script[j].on
        BY <2>0, <3>1, <3>2, <4>2, RemapFacts
      <4>3. QED
        BY <4>1, <4>2
    <3>3. ASSUME NEW d \in DOMAIN Written, NEW v \in Written[d], WriteRow(d, v)
          PROVE  values'[c] \intersect old = {}
      <4>1. CASE c # d
        BY <2>0, <3>1, <3>3, <4>1, WriteFacts, WrittenFacts
      <4>2. CASE c = d
        <5>1. v \notin old
          BY <2>0, <3>3, <4>2, WrittenFacts
        <5>2. QED
          BY <3>1, <3>3, <4>2, <5>1, WriteFacts
      <4>3. QED
        BY <4>1, <4>2
    <3>4. QED
      BY <3>1, <3>2, <3>3, ValuesChange
  <2>2. CASE ~Past(i)
    <3>1. Remap("server", Script[i])
      <4>1. pc["server"] = i /\ ApplyStep("server", Script[i]) /\ ~Fail("server", Script[i])
        BY <1>2, <2>0, <2>2, PastStep
      <4>2. Script[i].op = "remap" /\ "server" \in Process
        BY DEF StepsOf, Process
      <4>3. QED
        BY <2>0, <4>1, <4>2, StepValues
    <3>2. QED
      BY <3>1, RemapFacts
  <2>3. QED
    BY <2>1, <2>2
<1>3. Converted'
  BY <1>2 DEF Converted
<1>4. QED
  BY <1>1, <1>3

\* What the server serves is converted.
LEMMA ServesConverted ==
    ASSUME TypeOK, Progress, Converted, Serving, NEW c \in DOMAIN Old
    PROVE  values[c] \intersect Old[c] = {}
<1> SUFFICES ASSUME NEW v \in Old[c] PROVE v \notin values[c]
  OBVIOUS
<1>1. PICK i \in On({"remap"}, c) : v \in DOMAIN Script[i].map
  BY ScriptAssumption DEF StagesAreReplaced
<1>2. i \in StepsOf({"remap"}) /\ Script[i].on = c /\ i \in 1..LastStep
  BY DEF On, StepsOf
<1>3. QED
  BY <1>1, <1>2, ServingHasAll DEF Converted

-----------------------------------------------------------------------------
(* Why steps fail.                                                          *)

\* Before the list of the six stages is set, no entry has one of the nine.
LEMMA StagesConverted ==
    ASSUME TypeOK, Progress, ValuesKnown, Converted,
           NEW p \in Process, pc[p] = AddStep
    PROVE  values["stage"] \subseteq SixStages
<1>1. AddStep \in 1..LastStep /\ DOMAIN Old = {"stage", "industry"}
  BY ScriptAssumption, WrittenFacts DEF StagesAreReplaced, StepsOf
<1>2. pc["server"] >= AddStep /\ pc["server"] \in 0..Done
  BY <1>1, ScriptFacts DEF Progress, Serving, Process, TypeOK
<1>3. ASSUME NEW v \in Old["stage"]
      PROVE  v \notin values["stage"]
  <2>1. PICK i \in On({"remap"}, "stage") : v \in DOMAIN Script[i].map /\ i < AddStep
    BY <1>1, ScriptAssumption DEF StagesAreReplaced
  <2>2. i \in StepsOf({"remap"}) /\ Script[i].on = "stage" /\ i \in 1..LastStep
    BY DEF On, StepsOf
  <2>3. Past(i)
    BY <1>1, <1>2, <2>1, <2>2, ScriptFacts DEF Past
  <2>4. QED
    BY <2>1, <2>2, <2>3 DEF Converted
<1>4. QED
  BY <1>3, WrittenFacts DEF ValuesKnown

LEMMA KnownFailures ==
    ASSUME TypeOK, Progress, ValuesKnown, Converted,
           NEW p \in Process, pc[p] \in 1..LastStep,
           NEW f \in Failures(p, Script[pc[p]])
    PROVE  \/ /\ f.why = "narrow" /\ f.what = Reminder
              /\ pc[p] \in On({"widen"}, "event") /\ pc[p] < DropStep
              /\ Reminder \in values["event"]
           \/ /\ f.why = "exists" /\ f.what = "stage"
              /\ pc[p] = AddStep /\ Listed("stage")
<1> DEFINE s == Script[pc[p]]
<1>0. s.needs \ objects = {}
  BY NothingMissing
<1>1. CASE \E v \in IF s.op \in {"widen", "add"} THEN values[s.on] \ s.list ELSE {} :
              f = [by |-> p, why |-> "narrow", what |-> v]
  <2>1. PICK v \in values[s.on] \ s.list :
              f = [by |-> p, why |-> "narrow", what |-> v]
    BY <1>1
  <2>2. pc[p] \in StepsOf({"widen", "add"}) /\ s.op \in {"widen", "add"}
    BY <1>1 DEF StepsOf
  <2>3. s.on \in DOMAIN Written /\ Written[s.on] \ {Reminder} \subseteq s.list
    BY <2>2, ScriptAssumption DEF ListsFollow, Reminder
  <2>4. CASE s.op = "add"
    <3>1. pc[p] = AddStep /\ s.on = "stage"
      BY <2>4, ScriptAssumption DEF StagesAreReplaced, StepsOf
    <3>2. values["stage"] \subseteq SixStages
      BY <3>1, StagesConverted
    <3>3. QED
      BY <2>1, <2>3, <3>1, <3>2, WrittenFacts
  <2>5. CASE s.op = "widen"
    <3>1. pc[p] \in StepsOf({"widen"})
      BY <2>5 DEF StepsOf
    <3>2. /\ s.on # "stage"
          /\ Written[s.on] \subseteq s.list \/ (s.on = "event" /\ pc[p] < DropStep)
      BY <3>1, ScriptAssumption DEF StagesAreReplaced
    <3>3. values[s.on] \subseteq Written[s.on]
      BY <2>3, <3>2 DEF ValuesKnown
    <3>4. v = Reminder /\ s.on = "event" /\ pc[p] < DropStep
      BY <2>1, <2>3, <3>2, <3>3
    <3>5. pc[p] \in On({"widen"}, "event")
      BY <3>1, <3>4 DEF On
    <3>6. QED
      BY <2>1, <3>4, <3>5
  <2>6. QED
    BY <2>2, <2>4, <2>5
<1>2. CASE \E c \in IF s.op = "add" /\ Listed(s.on) THEN {s.on} ELSE {} :
              f = [by |-> p, why |-> "exists", what |-> c]
  <2>1. s.op = "add" /\ Listed(s.on) /\ f = [by |-> p, why |-> "exists", what |-> s.on]
    BY <1>2
  <2>2. pc[p] = AddStep /\ s.on = "stage"
    BY <2>1, ScriptAssumption DEF StagesAreReplaced, StepsOf
  <2>3. QED
    BY <2>1, <2>2
<1>3. QED
  BY <1>0, <1>1, <1>2 DEF Failures

LEMMA FailuresNext ==
    TypeOK /\ Progress /\ ValuesKnown /\ Converted /\ OnlyKnownFailures /\ [Next]_vars
        => OnlyKnownFailures'
<1> SUFFICES ASSUME TypeOK, Progress, ValuesKnown, Converted, OnlyKnownFailures,
                    [Next]_vars
             PROVE  OnlyKnownFailures'
  OBVIOUS
<1>1. \/ refused' = refused
      \/ \E p \in Process : /\ pc[p] \in 1..LastStep
                            /\ refused' = refused \union Failures(p, Script[pc[p]])
  <2>1. ASSUME NEW p \in Process, pc[p] \in 1..LastStep,
               ApplyStep(p, Script[pc[p]])
        PROVE  \/ refused' = refused
               \/ refused' = refused \union Failures(p, Script[pc[p]])
    BY <2>1, StepMakes DEF Fail, Goes
  <2>2. CASE UserStep
    BY <2>2 DEF UserStep, WriteRow, Edit, RemoveBanners, SignUp, Earn, Acts
  <2>3. QED
    BY <2>1, <2>2 DEF Next, Boot, Crash, vars
<1>2. QED
  BY <1>1, KnownFailures DEF OnlyKnownFailures, Reminder

-----------------------------------------------------------------------------
(* The lists.                                                               *)

\* The lists of c stay as they are.
Same(c) == /\ Listed(c)' <=> Listed(c)
           /\ Listed(c) => check'[c] = check[c]

\* p sets the list of c.
Sets(p, c) ==
    LET s == Script[pc[p]] IN
    /\ pc[p] \in On({"widen", "add"}, c)
    /\ c \in DOMAIN check' /\ check'[c] = s.list
    /\ values[c] \subseteq s.list /\ values' = values
    /\ s.op = "add" => ~Listed(c)
    /\ Goes(p)

\* p takes the list of c away.
Drops1(p, c) ==
    /\ c = "stage" /\ pc[p] = DropStep /\ Goes(p) /\ values' = values
    /\ c \notin DOMAIN check'

\* The server makes c's table, with a list, and its later steps set others.
Makes(c) ==
    /\ pc["server"] \in 1..LastStep /\ Goes("server") /\ values' = values
    /\ \/ "notices" \notin objects
       \/ \E i \in 2..LastStep : ~(Script[i].makes \subseteq objects)
    /\ \A i \in On({"widen", "add"}, c) : pc["server"] < i

LEMMA ChecksChange ==
    ASSUME TypeOK, Progress, [Next]_vars, NEW c \in DOMAIN Written
    PROVE  \/ Same(c)
           \/ \E p \in Process : Sets(p, c) \/ Drops1(p, c)
           \/ Makes(c)
<1>1. CASE check' = check
  BY <1>1 DEF Same, Listed
<1>2. ASSUME NEW p \in Process, pc[p] \in 1..LastStep,
             ApplyStep(p, Script[pc[p]])
      PROVE  \/ Same(c)
             \/ \E q \in Process : Sets(q, c) \/ Drops1(q, c)
             \/ Makes(c)
  <2> DEFINE s == Script[pc[p]]
  <2>1. CASE Widen(p, s) \/ Add(p, s)
    <3>1. check' = With(s.on, s.list) /\ Goes(p) /\ values' = values
      BY <2>1 DEF Widen, Add, Runs
    <3>2. CASE c # s.on
      BY <3>1, <3>2 DEF With, Same, Listed
    <3>3. CASE c = s.on
      <4>1. pc[p] \in On({"widen", "add"}, c)
        BY <1>2, <2>1, <3>3 DEF Widen, Add, On, StepsOf
      <4>2. c \in DOMAIN check' /\ check'[c] = s.list
        BY <3>1, <3>3 DEF With
      <4>3. values[c] \subseteq s.list /\ (s.op = "add" => ~Listed(c))
        BY <2>1, <3>3 DEF Widen, Add
      <4>4. QED
        BY <3>1, <4>1, <4>2, <4>3 DEF Sets
    <3>4. QED
      BY <3>2, <3>3
  <2>2. CASE Drop(p, s)
    <3>1. check' = [d \in DOMAIN check \ {s.on} |-> check[d]] /\ Goes(p) /\ values' = values
      BY <2>2 DEF Drop, Runs
    <3>2. pc[p] = DropStep /\ s.on = "stage"
      BY <1>2, <2>2, ScriptAssumption DEF Drop, StagesAreReplaced, StepsOf
    <3>3. QED
      BY <3>1, <3>2 DEF Same, Drops1, Listed
  <2>3. CASE CreateAll(p, s)
    <3>1. CASE "notices" \in objects
      BY <1>1, <2>3, <3>1 DEF CreateAll
    <3>2. CASE "notices" \notin objects
      <4>1. s.op = "init" /\ values' = values /\ Goes(p) /\ pc[p] = 1
        BY <1>2, <2>3, <3>2, ScriptFacts DEF CreateAll, Runs
      <4>2. p = "server"
        BY <1>2, <3>2, ServingHasAll DEF Progress, Process
      <4>3. \A i \in On({"widen", "add"}, c) : 1 < i
        BY ScriptFacts DEF On, StepsOf
      <4>4. QED
        BY <1>2, <3>2, <4>1, <4>2, <4>3 DEF Makes
    <3>3. QED
      BY <3>1, <3>2
  <2>4. CASE CreateChecked(p, s)
    <3>1. CASE s.list \subseteq objects
      BY <1>1, <2>4, <3>1 DEF CreateChecked
    <3>2. CASE ~(s.list \subseteq objects)
      <4>1. s.op = "checked" /\ values' = values /\ Goes(p) /\ Created(s.map)
        BY <2>4, <3>2 DEF CreateChecked, Runs
      <4>2. pc[p] \in StepsOf({"checked"}) /\ pc[p] \in 2..LastStep
        BY <1>2, <4>1, ScriptFacts DEF StepsOf
      <4>3. ~(s.makes \subseteq objects)
        BY <3>2, <4>2, ScriptAssumption DEF ListsFollow
      <4>4. p = "server"
        BY <1>2, <4>2, <4>3, ServingHasAll DEF Progress, Process
      <4>5. CASE c \notin DOMAIN s.map
        BY <4>1, <4>5 DEF Created, Same, Listed
      <4>6. CASE c \in DOMAIN s.map
        <5>1. \A i \in On({"widen", "add"}, c) : pc["server"] < i
          BY <4>2, <4>4, <4>6, ScriptAssumption DEF On, ListsFollow
        <5>2. QED
          BY <1>2, <4>1, <4>2, <4>3, <4>4, <5>1 DEF Makes
      <4>7. QED
        BY <4>5, <4>6
    <3>3. QED
      BY <3>1, <3>2
  <2>5. QED
    BY <1>1, <1>2, <2>1, <2>2, <2>3, <2>4 DEF ApplyStep, Create, Remap, Seed,
       Backfill, Fail, database
<1>3. CASE UserStep
  BY <1>1, <1>3 DEF UserStep, WriteRow, Edit, RemoveBanners, SignUp, Earn, Acts
<1>4. QED
  BY <1>1, <1>2, <1>3 DEF Next, Boot, Crash, vars, database

\* What a step that sets a list does when it does not fail.
LEMMA SetsOwn ==
    ASSUME NEW p \in Process, NEW c, pc[p] \in On({"widen", "add"}, c),
           ApplyStep(p, Script[pc[p]]), ~Fail(p, Script[pc[p]])
    PROVE  Sets(p, c)
<1> DEFINE s == Script[pc[p]]
<1>1. Widen(p, s) \/ Add(p, s)
  BY DEF ApplyStep, Create, CreateAll, CreateChecked, Drop, Remap, Seed, Backfill,
     On, StepsOf
<1>2. s.on = c
  BY DEF On
<1>3. check' = With(s.on, s.list) /\ Goes(p) /\ values' = values
  BY <1>1 DEF Widen, Add, Runs
<1>4. c \in DOMAIN check' /\ check'[c] = s.list
  BY <1>2, <1>3 DEF With
<1>5. values[c] \subseteq s.list /\ (s.op = "add" => ~Listed(c))
  BY <1>1, <1>2 DEF Widen, Add
<1>6. QED
  BY <1>3, <1>4, <1>5 DEF Sets

\* Every list that is set takes all that handlers write but the reminders, and
\* only early lists of events leave those out.
LEMMA ListFacts ==
    ASSUME NEW c \in DOMAIN Written, NEW i \in On({"widen", "add"}, c)
    PROVE  /\ i \in 1..LastStep
           /\ Written[c] \ {Reminder} \subseteq Script[i].list
           /\ \/ Written[c] \subseteq Script[i].list
              \/ c = "event" /\ i < DropStep
           /\ c = "stage" => i = AddStep
           /\ c # "stage" => i \in StepsOf({"widen"})
<1>1. /\ i \in 1..LastStep /\ Script[i].op \in {"widen", "add"}
      /\ Script[i].on = c /\ i \in StepsOf({"widen", "add"})
  BY DEF On, StepsOf
<1>2. Written[c] \ {Reminder} \subseteq Script[i].list
  BY <1>1, ScriptAssumption DEF ListsFollow, Reminder
<1>3. CASE Script[i].op = "add"
  <2>1. c = "stage" /\ i = AddStep
    BY <1>1, <1>3, ScriptAssumption DEF StagesAreReplaced, StepsOf
  <2>2. QED
    BY <1>1, <1>2, <2>1, WrittenFacts
<1>4. CASE Script[i].op = "widen"
  <2>1. i \in StepsOf({"widen"})
    BY <1>1, <1>4 DEF StepsOf
  <2>2. /\ c # "stage"
        /\ Written[c] \subseteq Script[i].list \/ (c = "event" /\ i < DropStep)
    BY <1>1, <2>1, ScriptAssumption DEF StagesAreReplaced
  <2>3. QED
    BY <1>1, <1>2, <2>1, <2>2
<1>5. QED
  BY <1>1, <1>3, <1>4

LEMMA ListsWideNext ==
    TypeOK /\ Progress /\ ListsWide /\ [Next]_vars => ListsWide'
<1> SUFFICES ASSUME TypeOK, Progress, ListsWide, [Next]_vars,
                    NEW i \in StepsOf({"widen", "add"}), NEW c, c = Script[i].on,
                    Past(i)', Listed(c)'
             PROVE  Written[c] \ {Reminder} \subseteq check'[c]
  BY DEF ListsWide, Listed
<1>1. /\ i \in 1..LastStep /\ i \in On({"widen", "add"}, c)
      /\ c \in DOMAIN Written /\ "server" \in Process
  BY ScriptAssumption DEF On, StepsOf, ListsFollow, Process
<1>2. CASE \E p \in Process : Sets(p, c)
  BY <1>1, <1>2, ListFacts DEF Sets
<1>3. CASE Past(i)
  <2>1. ~Makes(c)
    BY <1>1, <1>3, ScriptFacts DEF Makes, Past
  <2>2. ~ \E p \in Process : Drops1(p, c)
    BY DEF Drops1, Listed
  <2>3. QED
    BY <1>1, <1>2, <1>3, <2>1, <2>2, ChecksChange DEF Same, ListsWide
<1>4. CASE ~Past(i)
  BY <1>1, <1>2, <1>4, PastStep, SetsOwn
<1>5. QED
  BY <1>3, <1>4

LEMMA OthersStayNext ==
    TypeOK /\ Progress /\ OthersStay /\ [Next]_vars => OthersStay'
<1> SUFFICES ASSUME TypeOK, Progress, OthersStay, [Next]_vars,
                    NEW i \in StepsOf({"widen"}), NEW c, c = Script[i].on,
                    c # "event", Past(i)'
             PROVE  c \in DOMAIN check' /\ Written[c] \subseteq check'[c]
  BY DEF OthersStay, Listed
<1>1. /\ i \in 1..LastStep /\ i \in On({"widen", "add"}, c)
      /\ c \in DOMAIN Written /\ c # "stage" /\ "server" \in Process
  BY ScriptAssumption DEF On, StepsOf, ListsFollow, StagesAreReplaced, Process
<1>2. CASE \E p \in Process : Sets(p, c)
  BY <1>1, <1>2, ListFacts DEF Sets
<1>3. CASE Past(i)
  <2>1. ~Makes(c)
    BY <1>1, <1>3, ScriptFacts DEF Makes, Past
  <2>2. ~ \E p \in Process : Drops1(p, c)
    BY <1>1 DEF Drops1
  <2>3. QED
    BY <1>1, <1>2, <1>3, <2>1, <2>2, ChecksChange DEF Same, OthersStay, Listed
<1>4. CASE ~Past(i)
  BY <1>1, <1>2, <1>4, PastStep, SetsOwn
<1>5. QED
  BY <1>3, <1>4

LEMMA RemindersNext ==
    TypeOK /\ Progress /\ RemindersLate /\ [Next]_vars => RemindersLate'
<1> SUFFICES ASSUME TypeOK, Progress, RemindersLate, [Next]_vars,
                    Reminder \in values'["event"]
             PROVE  /\ \A i \in 2..LastStep : Script[i].makes \subseteq objects'
                    /\ "notices" \in objects'
                    /\ Listed("event")' => Reminder \in check'["event"]
  BY DEF RemindersLate, Listed
<1>0. objects \subseteq objects' /\ "event" \in DOMAIN Written
  BY ObjectsGrow, WrittenFacts
<1>1. CASE Reminder \in values["event"]
  <2>1. ~Makes("event") /\ ~ \E p \in Process : Drops1(p, "event")
    BY <1>1 DEF RemindersLate, Makes, Drops1
  <2>2. CASE Same("event")
    BY <1>0, <1>1, <2>2 DEF RemindersLate, Same
  <2>3. CASE \E p \in Process : Sets(p, "event")
    BY <1>0, <1>1, <2>3 DEF RemindersLate, Sets
  <2>4. QED
    BY <1>0, <2>1, <2>2, <2>3, ChecksChange
<1>2. CASE Reminder \notin values["event"]
  <2>1. ASSUME NEW i \in StepsOf({"remap"}), NEW p, Remap(p, Script[i])
        PROVE  values'["event"] = values["event"]
    BY <2>1, RemapFacts, WrittenFacts
  <2>2. PICK c \in DOMAIN Written : \E v \in Written[c] : WriteRow(c, v)
    BY <1>2, <2>1, ValuesChange
  <2>3. PICK v \in Written[c] : WriteRow(c, v)
    BY <2>2
  <2>4. c = "event"
    BY <1>0, <1>2, <2>3, WriteFacts, WrittenFacts
  <2>5. /\ Serving /\ objects' = objects /\ check' = check
        /\ Listed("event") => v \in check["event"]
        /\ v = Reminder
    BY <1>2, <2>3, <2>4, WriteFacts
  <2>6. QED
    BY <2>5, ServingHasAll DEF Listed
<1>3. QED
  BY <1>1, <1>2

LEMMA AcceptedNext ==
    TypeOK /\ Progress /\ ListsWide /\ RowsAccepted /\ [Next]_vars => RowsAccepted'
<1> SUFFICES ASSUME TypeOK, Progress, ListsWide, RowsAccepted, [Next]_vars
             PROVE  RowsAccepted'
  OBVIOUS
<1>1. \/ lost' = lost
      \/ \E c \in DOMAIN Written : \E v \in Written[c] : WriteRow(c, v)
  <2>1. ASSUME NEW p \in Process, pc[p] \in 1..LastStep,
               ApplyStep(p, Script[pc[p]])
        PROVE  lost' = lost
    BY <2>1, StepMakes DEF Fail, Goes
  <2>2. QED
    BY <2>1 DEF Next, Boot, Crash, vars, UserStep, Edit, RemoveBanners, SignUp, Earn
<1>2. ASSUME NEW c \in DOMAIN Written, NEW v \in Written[c], WriteRow(c, v),
             Listed(c), v \notin check[c]
      PROVE  v = Reminder
  <2>1. Serving
    BY <1>2, WriteFacts
  <2>2. PICK i \in On({"widen", "add"}, c) : TRUE
    BY ScriptAssumption DEF ListsFollow
  <2>3. i \in StepsOf({"widen", "add"}) /\ Script[i].on = c /\ i \in 1..LastStep
    BY DEF On, StepsOf
  <2>4. QED
    BY <1>2, <2>1, <2>3, ServingHasAll DEF ListsWide
<1>3. QED
  BY <1>1, <1>2, WriteFacts DEF RowsAccepted, Reminder

-----------------------------------------------------------------------------
(* While the server serves, the collectors take and give back.              *)

LEMMA StepsInOrder ==
    /\ DropStep \in 1..LastStep /\ AddStep \in 1..LastStep
    /\ EventStep \in 1..LastStep /\ LastStep \in Nat
    /\ DropStep < AddStep /\ AddStep < EventStep
    /\ EventStep \in On({"widen", "add"}, "event")
    /\ AddStep \in On({"widen", "add"}, "stage")
    /\ Written["event"] \subseteq Script[EventStep].list
    /\ Script[DropStep].op = "drop" /\ Script[DropStep].on = "stage"
<1>1. /\ DropStep \in StepsOf({"drop"}) /\ Script[DropStep].on = "stage"
      /\ AddStep \in StepsOf({"add"}) /\ Script[AddStep].on = "stage"
      /\ EventStep \in On({"widen"}, "event")
      /\ Written["event"] \subseteq Script[EventStep].list
      /\ DropStep < AddStep /\ AddStep < EventStep
  BY ScriptAssumption DEF StagesAreReplaced
<1>2. QED
  BY <1>1, ScriptFacts DEF StepsOf, On

\* A server that goes on serving lets its collectors go on, one step at a time.
LEMMA CollectorMoves ==
    ASSUME TypeOK, Progress, Serving, Serving', [Next]_vars, NEW q \in Collector
    PROVE  \/ pc'[q] = pc[q]
           \/ /\ pc[q] \in 1..LastStep /\ pc'[q] = pc[q] + 1
              /\ ApplyStep(q, Script[pc[q]]) /\ ~Fail(q, Script[pc[q]])
           \/ pc[q] \in 1..LastStep /\ \E f : f \in Failures(q, Script[pc[q]])
<1>0. "server" \in Process /\ q \in Process /\ q # "server"
  BY CollectorAssumption DEF Process
<1>1. ~Boot /\ ~Crash
  BY <1>0, ScriptFacts DEF Boot, Crash, Serving
<1>2. ASSUME NEW p \in Process, pc[p] \in 1..LastStep,
             ApplyStep(p, Script[pc[p]])
      PROVE  \/ pc'[q] = pc[q]
             \/ /\ p = q /\ pc'[q] = pc[q] + 1
                /\ ~Fail(q, Script[pc[q]])
             \/ p = q /\ \E f : f \in Failures(q, Script[pc[q]])
  <2>1. p # "server"
    BY <1>2, ScriptFacts DEF Serving
  <2>2. CASE Fail(p, Script[pc[p]])
    BY <1>0, <2>1, <2>2 DEF Fail, TypeOK
  <2>3. CASE ~Fail(p, Script[pc[p]])
    BY <1>0, <1>2, <2>1, <2>3, StepMakes, GoesFacts
  <2>4. QED
    BY <2>2, <2>3
<1>3. CASE UserStep
  BY <1>3 DEF UserStep, WriteRow, Edit, RemoveBanners, SignUp, Earn, Acts
<1>4. QED
  BY <1>1, <1>2, <1>3 DEF Next, vars

\* A server that serves after a step past which it is not new, has served.
LEMMA ServingStays ==
    ASSUME TypeOK, Serving, [Next]_vars, NEW i \in 1..LastStep, Past(i)'
    PROVE  Serving'
<1>1. "server" \in Process /\ pc["server"] = Done
  BY DEF Process, Serving
<1>2. ~Boot /\ ~Crash
  BY <1>1, ScriptFacts DEF Boot, Crash, Past
<1>3. ASSUME NEW p \in Process, pc[p] \in 1..LastStep,
             ApplyStep(p, Script[pc[p]])
      PROVE  pc'["server"] = Done
  <2>1. p # "server"
    BY <1>1, <1>3, ScriptFacts
  <2>2. CASE Fail(p, Script[pc[p]])
    BY <1>1, <2>1, <2>2 DEF Fail, TypeOK
  <2>3. CASE ~Fail(p, Script[pc[p]])
    BY <1>1, <1>3, <2>1, <2>3, StepMakes, GoesFacts
  <2>4. QED
    BY <2>2, <2>3
<1>4. CASE UserStep
  BY <1>1, <1>4 DEF UserStep, WriteRow, Edit, RemoveBanners, SignUp, Earn, Acts,
     Serving
<1>5. QED
  BY <1>1, <1>2, <1>3, <1>4 DEF Next, vars, Serving

\* Who sets or drops a list while the server serves is a collector.
LEMMA SetterMoves ==
    ASSUME TypeOK, Progress, Serving, NEW c, NEW p \in Process,
           Sets(p, c) \/ Drops1(p, c)
    PROVE  p \in Collector /\ pc'[p] = pc[p] + 1
<1>1. pc[p] \in 1..LastStep /\ Goes(p)
  BY StepsInOrder DEF Sets, Drops1, On, StepsOf
<1>2. p # "server"
  BY <1>1, ScriptFacts DEF Serving
<1>3. QED
  BY <1>1, <1>2, GoesFacts DEF Process

LEMMA StagesListedNext ==
    TypeOK /\ Progress /\ ValuesKnown /\ Converted /\ StagesListed /\ [Next]_vars
        => StagesListed'
<1> SUFFICES ASSUME TypeOK, Progress, ValuesKnown, Converted, StagesListed,
                    [Next]_vars, Past(AddStep)'
             PROVE  "stage" \in DOMAIN check' \/ WillAdd'
  BY DEF StagesListed, Listed
<1>0. "stage" \in DOMAIN Written /\ "server" \in Process
  BY WrittenFacts DEF Process
<1>1. CASE \E p \in Process : Sets(p, "stage")
  BY <1>1 DEF Sets
<1>2. CASE ~Serving
  <2>1. \A q \in Collector : pc[q] = 0
    BY <1>2 DEF Progress
  <2>2. CASE ~Past(AddStep)
    BY <1>0, <1>1, <2>2, StepsInOrder, PastStep, SetsOwn
  <2>3. CASE Past(AddStep)
    <3>1. Listed("stage")
      BY <2>1, <2>3, StepsInOrder DEF StagesListed, WillAdd
    <3>2. ~Makes("stage")
      BY <2>3, StepsInOrder, ScriptFacts DEF Makes, Past
    <3>3. ~ \E p \in Process : Drops1(p, "stage")
      BY <2>1, <2>3, StepsInOrder DEF Drops1, Past, Process
    <3>4. QED
      BY <1>0, <1>1, <3>1, <3>2, <3>3, ChecksChange DEF Same, Listed
  <2>4. QED
    BY <2>2, <2>3
<1>3. CASE Serving
  <2>1. Serving' /\ Past(AddStep) /\ ~Makes("stage")
    BY <1>3, StepsInOrder, ServingStays, ScriptFacts DEF Makes, Serving, Past
  <2>2. ASSUME NEW p \in Process, Drops1(p, "stage")
        PROVE  WillAdd'
    <3>1. p \in Collector /\ pc'[p] = DropStep + 1
      BY <1>3, <2>2, SetterMoves DEF Drops1
    <3>2. QED
      BY <3>1, StepsInOrder DEF WillAdd
  <2>3. CASE Same("stage") /\ Listed("stage")
    BY <2>3 DEF Same, Listed
  <2>4. CASE Same("stage") /\ ~Listed("stage")
    <3>1. PICK q \in Collector : pc[q] \in (DropStep + 1)..AddStep
      BY <2>1, <2>4 DEF StagesListed, WillAdd
    <3>2. CASE pc'[q] = pc[q]
      BY <3>1, <3>2 DEF WillAdd
    <3>3. CASE /\ pc'[q] = pc[q] + 1
               /\ ApplyStep(q, Script[pc[q]]) /\ ~Fail(q, Script[pc[q]])
      <4>1. CASE pc[q] = AddStep
        BY <3>3, <4>1, <1>1, StepsInOrder, SetsOwn DEF Process
      <4>2. CASE pc[q] # AddStep
        BY <3>1, <3>3, <4>2, StepsInOrder DEF WillAdd
      <4>3. QED
        BY <4>1, <4>2
    <3>4. CASE pc[q] \in 1..LastStep /\ \E f : f \in Failures(q, Script[pc[q]])
      <4>1. PICK f : f \in Failures(q, Script[pc[q]])
        BY <3>4
      <4>2. pc[q] < DropStep \/ Listed("stage")
        BY <3>4, <4>1, KnownFailures DEF Process
      <4>3. QED
        BY <2>4, <3>1, <4>2, StepsInOrder
    <3>5. QED
      BY <1>3, <2>1, <3>2, <3>3, <3>4, CollectorMoves
  <2>5. QED
    BY <1>0, <1>1, <2>1, <2>2, <2>3, <2>4, ChecksChange
<1>4. QED
  BY <1>2, <1>3

\* Who takes over when the list of the stages is set, or is not there.
LEMMA SomeoneRestores ==
    ASSUME TypeOK, Progress, Serving, Serving', [Next]_vars,
           NEW q \in Collector, pc'[q] \in (DropStep + 1)..AddStep,
           ~Listed("stage") \/ "stage" \notin DOMAIN check'
    PROVE  WillRestore'
<1>1. CASE "stage" \notin DOMAIN check'
  BY <1>1 DEF WillRestore, Listed
<1>2. CASE "stage" \in DOMAIN check'
  <2>1. ~Makes("stage") /\ ~Same("stage")
    BY <1>2, ScriptFacts DEF Makes, Same, Serving, Listed
  <2>2. PICK p \in Process : Sets(p, "stage")
    BY <1>2, <2>1, WrittenFacts, ChecksChange DEF Drops1
  <2>3. pc[p] = AddStep
    BY <2>2, WrittenFacts, ListFacts DEF Sets
  <2>4. p \in Collector /\ pc'[p] = AddStep + 1
    BY <2>2, <2>3, SetterMoves
  <2>5. QED
    BY <2>4, StepsInOrder DEF WillRestore
<1>3. QED
  BY <1>1, <1>2

LEMMA EventsListedNext ==
    TypeOK /\ Progress /\ ValuesKnown /\ Converted /\ ListsWide /\ RemindersLate
        /\ EventsListed /\ [Next]_vars
        => EventsListed'
<1> SUFFICES ASSUME TypeOK, Progress, ValuesKnown, Converted, ListsWide,
                    RemindersLate, EventsListed, [Next]_vars, Past(EventStep)'
             PROVE  /\ "event" \in DOMAIN check'
                    /\ Written["event"] \subseteq check'["event"] \/ WillRestore'
  BY DEF EventsListed, Listed
<1>0. "event" \in DOMAIN Written /\ "server" \in Process
  BY WrittenFacts DEF Process
<1>1. ~ \E p \in Process : Drops1(p, "event")
  BY DEF Drops1
<1>2. CASE ~Serving
  <2>1. \A q \in Collector : pc[q] = 0
    BY <1>2 DEF Progress
  <2>2. CASE ~Past(EventStep)
    <3>1. Sets("server", "event") /\ pc["server"] = EventStep
      BY <1>0, <2>2, StepsInOrder, PastStep, SetsOwn
    <3>2. QED
      BY <3>1, StepsInOrder DEF Sets
  <2>3. CASE Past(EventStep)
    <3>1. Listed("event") /\ Written["event"] \subseteq check["event"]
      BY <2>1, <2>3, StepsInOrder DEF EventsListed, WillRestore
    <3>2. ~Makes("event")
      BY <2>3, StepsInOrder, ScriptFacts DEF Makes, Past
    <3>3. ASSUME NEW p \in Process, Sets(p, "event")
          PROVE  Written["event"] \subseteq check'["event"]
      <4>1. pc[p] \in On({"widen", "add"}, "event") /\ check'["event"] = Script[pc[p]].list
        BY <3>3 DEF Sets
      <4>2. pc[p] \in 1..LastStep
        BY <1>0, <4>1, ListFacts
      <4>3. pc[p] > EventStep
        BY <2>1, <2>3, <4>2 DEF Past, Process
      <4>4. QED
        BY <1>0, <4>1, <4>2, <4>3, ListFacts, StepsInOrder
    <3>4. QED
      BY <1>0, <1>1, <3>1, <3>2, <3>3, ChecksChange DEF Same, Listed, Sets
  <2>4. QED
    BY <2>2, <2>3
<1>3. CASE Serving
  <2>1. Serving' /\ Past(EventStep) /\ ~Makes("event")
    BY <1>3, StepsInOrder, ServingStays, ScriptFacts DEF Makes, Serving, Past
  <2>2. Listed("event")
    BY <2>1 DEF EventsListed
  <2>3. CASE \E p \in Process : Sets(p, "event")
    <3>1. PICK p \in Process : Sets(p, "event")
      BY <2>3
    <3>2. "event" \in DOMAIN check' /\ check'["event"] = Script[pc[p]].list
      BY <3>1 DEF Sets
    <3>3. pc[p] \in On({"widen", "add"}, "event")
      BY <3>1 DEF Sets
    <3>4. CASE Written["event"] \subseteq Script[pc[p]].list
      BY <3>2, <3>4
    <3>5. CASE pc[p] < DropStep
      <4>1. p \in Collector /\ pc'[p] = pc[p] + 1 /\ pc[p] \in 1..LastStep
        BY <1>0, <1>3, <3>1, <3>3, SetterMoves, ListFacts
      <4>2. QED
        BY <3>2, <3>5, <4>1, StepsInOrder DEF WillRestore
    <3>6. QED
      BY <1>0, <3>3, <3>4, <3>5, ListFacts
  <2>4. CASE Same("event") /\ Written["event"] \subseteq check["event"]
    BY <2>2, <2>4 DEF Same, Listed
  <2>5. CASE Same("event") /\ ~(Written["event"] \subseteq check["event"])
    <3> SUFFICES WillRestore'
      BY <2>2, <2>5 DEF Same, Listed
    <3>1. PICK q \in Collector :
            \/ pc[q] \in 1..DropStep
            \/ pc[q] \in (DropStep + 1)..AddStep /\ ~Listed("stage")
            \/ pc[q] \in (AddStep + 1)..EventStep
      BY <2>1, <2>5 DEF EventsListed, WillRestore
    <3>2. CASE pc'[q] = pc[q]
      <4>1. CASE pc[q] \in (DropStep + 1)..AddStep
        BY <1>3, <2>1, <3>1, <3>2, <4>1, StepsInOrder, SomeoneRestores
      <4>2. CASE ~(pc[q] \in (DropStep + 1)..AddStep)
        BY <3>1, <3>2, <4>2 DEF WillRestore
      <4>3. QED
        BY <4>1, <4>2
    <3>3. CASE /\ pc[q] \in 1..LastStep /\ pc'[q] = pc[q] + 1
               /\ ApplyStep(q, Script[pc[q]]) /\ ~Fail(q, Script[pc[q]])
      <4>1. q \in Process
        BY DEF Process
      <4>2. CASE pc[q] < DropStep
        BY <3>3, <4>2, StepsInOrder DEF WillRestore
      <4>3. CASE pc[q] = DropStep
        <5>1. Drop(q, Script[pc[q]])
          BY <3>3, <4>3, StepsInOrder DEF ApplyStep, Create, CreateAll, CreateChecked,
             Widen, Remap, Add, Seed, Backfill
        <5>2. "stage" \notin DOMAIN check'
          BY <4>3, <5>1, StepsInOrder DEF Drop
        <5>3. QED
          BY <1>3, <2>1, <3>3, <4>3, <5>2, StepsInOrder, SomeoneRestores
      <4>4. CASE pc[q] \in (DropStep + 1)..(AddStep - 1)
        BY <1>3, <2>1, <3>1, <3>3, <4>4, StepsInOrder, SomeoneRestores
      <4>5. CASE pc[q] \in AddStep..(EventStep - 1)
        BY <3>3, <4>5, StepsInOrder DEF WillRestore
      <4>6. CASE pc[q] = EventStep
        <5>1. Sets(q, "event")
          BY <3>3, <4>1, <4>6, StepsInOrder, SetsOwn
        <5>2. QED
          BY <2>2, <2>5, <4>6, <5>1, StepsInOrder DEF Sets, Same, Listed
      <4>7. QED
        BY <3>1, <4>2, <4>3, <4>4, <4>5, <4>6, StepsInOrder
    <3>4. CASE pc[q] \in 1..LastStep /\ \E f : f \in Failures(q, Script[pc[q]])
      <4>1. PICK f : f \in Failures(q, Script[pc[q]])
        BY <3>4
      <4>2. CASE Reminder \in values["event"]
        <5>1. Written["event"] \ {Reminder} \subseteq check["event"]
          BY <2>1, <2>2, StepsInOrder DEF ListsWide, On, StepsOf
        <5>2. QED
          BY <2>2, <2>5, <4>2, <5>1 DEF RemindersLate
      <4>3. CASE pc[q] = AddStep /\ Listed("stage")
        BY <3>1, <4>3, StepsInOrder
      <4>4. QED
        BY <3>4, <4>1, <4>2, <4>3, KnownFailures DEF Process
    <3>5. QED
      BY <1>3, <2>1, <3>2, <3>3, <3>4, CollectorMoves
  <2>6. QED
    BY <1>0, <1>1, <2>1, <2>3, <2>4, <2>5, ChecksChange
<1>4. QED
  BY <1>2, <1>3

-----------------------------------------------------------------------------
(* The theorems.                                                            *)

MigrationInv ==
    /\ TypeOK /\ Progress
    /\ ColumnsFirst /\ GrandfatheredOnce
    /\ ValuesKnown /\ Converted
    /\ OnlyKnownFailures
    /\ ListsWide /\ OthersStay /\ RowsAccepted
    /\ RemindersLate /\ StagesListed /\ EventsListed

LEMMA ListsInit ==
    Init => /\ ListsWide /\ OthersStay /\ RowsAccepted /\ OnlyKnownFailures
            /\ RemindersLate /\ StagesListed /\ EventsListed
<1> SUFFICES ASSUME Init
             PROVE  /\ ListsWide /\ OthersStay /\ RowsAccepted /\ OnlyKnownFailures
                    /\ RemindersLate /\ StagesListed /\ EventsListed
  OBVIOUS
<1>1. \A i \in 1..LastStep : ~Past(i)
  BY ScriptFacts DEF Init, Past, Process
<1>2. lost = {} /\ refused = {} /\ Reminder \notin values["event"]
  BY WrittenFacts DEF Init, Reminder
<1>3. QED
  BY <1>1, <1>2, StepsInOrder DEF ListsWide, OthersStay, RowsAccepted,
     OnlyKnownFailures, RemindersLate, StagesListed, EventsListed, StepsOf

LEMMA Invariance == Spec => []MigrationInv
<1>1. Init => MigrationInv
  BY TypeInit, ProgressInit, MarksInit, ValuesInit, ListsInit DEF MigrationInv
<1>2. MigrationInv /\ [Next]_vars => MigrationInv'
  <2> SUFFICES ASSUME MigrationInv, [Next]_vars PROVE MigrationInv'
    OBVIOUS
  <2>1. TypeOK' /\ Progress'
    BY TypeNext, ProgressNext DEF MigrationInv
  <2>2. ColumnsFirst' /\ GrandfatheredOnce'
    BY MarksNext DEF MigrationInv
  <2>3. ValuesKnown' /\ Converted' /\ OnlyKnownFailures'
    BY ValuesNext, FailuresNext DEF MigrationInv
  <2>4. ListsWide' /\ OthersStay' /\ RowsAccepted'
    BY ListsWideNext, OthersStayNext, AcceptedNext DEF MigrationInv
  <2>5. RemindersLate' /\ StagesListed' /\ EventsListed'
    BY RemindersNext, StagesListedNext, EventsListedNext DEF MigrationInv
  <2>6. QED
    BY <2>1, <2>2, <2>3, <2>4, <2>5 DEF MigrationInv
<1>3. QED
  BY <1>1, <1>2, PTL DEF Spec

\* Every variable keeps its type.
THEOREM TypeCorrect == Spec => []TypeOK
<1>1. MigrationInv => TypeOK
  BY DEF MigrationInv
<1>2. QED
  BY <1>1, Invariance, PTL

\* However often Apply runs, and wherever it is cut short, a requirement is
\* waived for the rows that are older than its column, and for them alone.
THEOREM OldRowsAreGrandfathered == Spec => []GrandfatheredOnce
<1>1. MigrationInv => GrandfatheredOnce
  BY DEF MigrationInv
<1>2. QED
  BY <1>1, Invariance, PTL

\* A step of Apply fails for the two known reasons only.
THEOREM FailuresAreKnown == Spec => []OnlyKnownFailures
<1>1. MigrationInv => OnlyKnownFailures
  BY DEF MigrationInv
<1>2. QED
  BY <1>1, Invariance, PTL

LEMMA InvConverts == MigrationInv => RowsConverted
<1> SUFFICES ASSUME MigrationInv, Serving
             PROVE  values["stage"] \subseteq SixStages /\ "group" \notin values["industry"]
  BY DEF RowsConverted
<1> USE DEF MigrationInv
<1>1. values["industry"] \intersect Old["industry"] = {}
  BY ServesConverted, WrittenFacts
<1>2. values["stage"] \intersect Old["stage"] = {}
  BY ServesConverted, WrittenFacts
<1>3. QED
  BY <1>1, <1>2, WrittenFacts DEF ValuesKnown

\* When no collector is under way, none is left to restore a list.
LEMMA InvSettles == MigrationInv => ListsSettle
<1> SUFFICES ASSUME MigrationInv, Serving, \A q \in Collector : pc[q] \in {0, Done},
                    NEW c \in DOMAIN Written
             PROVE  Listed(c) /\ Written[c] \subseteq check[c]
  BY DEF ListsSettle
<1> USE DEF MigrationInv
<1>1. Past(AddStep) /\ Past(EventStep)
  BY ServingHasAll, StepsInOrder
<1>2. ~WillAdd /\ ~WillRestore
  BY StepsInOrder DEF WillAdd, WillRestore, Done
<1>3. CASE c = "event"
  BY <1>1, <1>2, <1>3 DEF EventsListed
<1>4. CASE c = "stage"
  <2>1. Listed(c)
    BY <1>1, <1>2, <1>4 DEF StagesListed
  <2>2. AddStep \in StepsOf({"widen", "add"}) /\ Script[AddStep].on = "stage"
    BY StepsInOrder DEF On
  <2>3. Written[c] \ {Reminder} \subseteq check[c]
    BY <1>1, <1>4, <2>1, <2>2 DEF ListsWide
  <2>4. QED
    BY <1>4, <2>1, <2>3, WrittenFacts
<1>5. CASE c # "event" /\ c # "stage"
  <2>1. PICK i \in On({"widen", "add"}, c) : TRUE
    BY ScriptAssumption DEF ListsFollow
  <2>2. i \in StepsOf({"widen"}) /\ Script[i].on = c /\ i \in 1..LastStep
    BY <1>5, <2>1, ListFacts DEF On
  <2>3. QED
    BY <1>5, <2>2, ServingHasAll DEF OthersStay
<1>6. QED
  BY <1>3, <1>4, <1>5

\* While the server serves, a CHECK keeps no row out but reminders; when the
\* Applies are over, no row at all; and there are no old values.
THEOREM SchemaIsServed == Spec => []SchemaServes
<1>1. MigrationInv => SchemaServes
  BY InvConverts, InvSettles DEF MigrationInv, SchemaServes
<1>2. QED
  BY <1>1, Invariance, PTL

LEMMA EditsNext ==
    ASSUME TypeOK, Next, NEW k \in Keys, content[k] = "edited"
    PROVE  content'[k] # "seeded"
<1>1. ASSUME NEW p \in Process, pc[p] \in 1..LastStep,
             ApplyStep(p, Script[pc[p]])
      PROVE  content'[k] = "edited"
  BY <1>1 DEF ApplyStep, Create, CreateAll, CreateChecked, Widen, Drop, Remap, Add,
     Seed, Seeded, Backfill, Fail, database
<1>2. CASE UserStep
  BY <1>2 DEF UserStep, WriteRow, Edit, RemoveBanners, SignUp, Earn, TypeOK
<1>3. CASE Boot \/ Crash
  BY <1>3 DEF Boot, Crash, database
<1>4. QED
  BY <1>1, <1>2, <1>3 DEF Next

\* No step of Apply turns what an administrator has entered into the content
\* it seeds.
THEOREM EditsSurvive == Spec => EditsKept
<1>1. TypeOK /\ [Next]_vars
        => [\A k \in Keys : content[k] = "edited" => content'[k] # "seeded"]_vars
  BY EditsNext
<1>2. QED
  BY <1>1, TypeCorrect, PTL DEF Spec, EditsKept

=============================================================================
