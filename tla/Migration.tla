------------------------------ MODULE Migration ------------------------------
(* migrate.Apply at every start.                                            *)
(*                                                                          *)
(* apiserver runs Apply before it serves; each background collector runs it *)
(* again when it opens its store, while requests are served and at the same *)
(* time as the other.  They are one operating system process: an exit or a  *)
(* crash ends all three, and a failed Apply ends the server, but only the   *)
(* collector it belongs to.                                                 *)
(*                                                                          *)
(* Left out: the entry '기타' of industry_taxonomy, which every start makes  *)
(* inactive; a database that is down; deadlocks with requests.              *)
EXTENDS Schema, FiniteSets

CONSTANTS
    Script,         \* the steps of Apply in their order: ApplySteps of Schema
    Collector,      \* g2b, bizinfo
    Release,        \* databases a start may find, names of Found
    MaxBoots,       \* bound: starts of the server
    MaxActs         \* bound: things done by users and administrators

VARIABLES
    objects,        \* tables and columns
    check,          \* the CHECKs that exist, with the values they list
    values,         \* the values rows have under each
    content,        \* seeded content, by key
    row,            \* one row of each backfilled table: "none", "old", "new"
    mark,           \* its backfilled column: "null", "given", "earned"
    pc,             \* next step of each Apply; 0 not running, Done ended
    refused,        \* history: steps that failed
    lost,           \* history: rows a CHECK kept out while serving
    boots, acts     \* bounds

vars == <<objects, check, values, content, row, mark, pc, refused, lost,
          boots, acts>>

database == <<objects, check, values, content, row, mark>>

-----------------------------------------------------------------------------
Process == {"server"} \union Collector
LastStep == Len(Script)
Done == LastStep + 1

\* All that is there when Apply is done.
AllObjects == UNION {Script[i].makes : i \in 1..LastStep}

Keys ==
    UNION {Script[i].list : i \in {j \in 1..LastStep : Script[j].op = "seed"}}

\* The backfilled columns, with their tables.
Backfilled ==
    [onboarding_completed_at |-> "company_profiles",
     email_verified_at |-> "users",
     recipient_contact_ids |-> "saved_searches"]

\* What the handlers write under each CHECK.
Written ==
    [event |-> EventsFinal, delivery |-> DeliveryFinal,
     payment |-> PaymentsFinal, lookup |-> LookupsFinal, stage |-> SixStages]

Latest(events) ==
    [event |-> events, delivery |-> DeliveryFinal, payment |-> PaymentsFinal,
     lookup |-> LookupsFinal, stage |-> SixStages]

\* The databases a start may find: none, the first deployment's, the embedded
\* schema's, the one before the backfilled columns, and today's.
Found ==
    [empty |-> [objects |-> {}, check |-> NoMap],
     first |-> [objects |-> FirstTables, check |-> NoMap],
     embedded |-> [objects |-> EmbeddedTables, check |-> EmbeddedChecks],
     earlier |-> [objects |-> AllObjects \ DOMAIN Backfilled,
                  check |-> Latest(EventsNarrow)],
     current |-> [objects |-> AllObjects, check |-> Latest(EventsFinal)]]

Constraints == DOMAIN Written \union {"industry"}

Listed(c) == c \in DOMAIN check

ASSUME ReleaseAssumption == Release \subseteq DOMAIN Found
ASSUME CollectorAssumption == "server" \notin Collector

-----------------------------------------------------------------------------
(* What holds of the steps of migrate.go, and must be kept by whoever adds  *)
(* another: the theorems are about every script like this.                  *)

StepsOf(ops) == {i \in 1..LastStep : Script[i].op \in ops}
On(ops, c) == {i \in StepsOf(ops) : Script[i].on = c}

\* Only the embedded schema makes the tables it is recognised by.
InitFirst ==
    /\ StepsOf({"init"}) = {1}
    /\ Script[1].needs = {} /\ Script[1].makes = EmbeddedTables
    /\ \A i \in 2..LastStep : "notices" \notin Script[i].makes

\* No step needs a table of a later one.
NeedsAreMadeBefore ==
    \A i \in 2..LastStep :
        Script[i].needs \subseteq
            FirstTables \union UNION {Script[j].makes : j \in 2..(i - 1)}

\* A backfilled column is added by the step that fills it.
ColumnsAreFilled ==
    /\ \A i \in 1..LastStep : Script[i].makes \intersect DOMAIN Backfilled =
           IF Script[i].op = "backfill" THEN {Script[i].on} ELSE {}
    /\ \A b \in DOMAIN Backfilled : On({"backfill"}, b) # {}

\* A list takes what handlers write but for the reminders, and comes after the
\* CREATE TABLE that has the list of its day.
ListsFollow ==
    /\ \A i \in StepsOf({"widen", "add"}) :
           /\ Script[i].on \in DOMAIN Written
           /\ Written[Script[i].on] \ {"saved_search_deadline"} \subseteq Script[i].list
    /\ \A c \in DOMAIN Written : On({"widen", "add"}, c) # {}
    /\ \A i \in StepsOf({"checked"}) :
           /\ Script[i].list \subseteq Script[i].makes
           /\ \A j \in StepsOf({"widen", "add"}) :
                  Script[j].on \in DOMAIN Script[i].map => i < j

\* The old values of a column, which are converted.
Old == [stage |-> NineStages \ SixStages, industry |-> {"group"}]

\* The steps that take the list of the entries away and set the new one, and
\* the last word on the events.
DropStep == CHOOSE i \in StepsOf({"drop"}) : TRUE
AddStep == CHOOSE i \in StepsOf({"add"}) : TRUE
EventStep ==
    CHOOSE i \in On({"widen"}, "event") :
        AddStep < i /\ Written["event"] \subseteq Script[i].list

\* Old values become new ones, those of the entries before their new list; the
\* lists without the reminders come before that, the one with them after.
StagesAreReplaced ==
    /\ \A i \in StepsOf({"remap"}) :
           /\ Script[i].on \in DOMAIN Old
           /\ DOMAIN Script[i].map \subseteq Old[Script[i].on]
           /\ \A v \in DOMAIN Script[i].map :
                  /\ Script[i].map[v] \notin Old[Script[i].on]
                  /\ Script[i].on = "stage" => Script[i].map[v] \in SixStages
    /\ \A c \in DOMAIN Old : \A v \in Old[c] :
           \E i \in On({"remap"}, c) :
              v \in DOMAIN Script[i].map /\ (c = "stage" => i < AddStep)
    /\ StepsOf({"drop"}) = {DropStep} /\ Script[DropStep].on = "stage"
    /\ StepsOf({"add"}) = {AddStep} /\ Script[AddStep].on = "stage"
    /\ EventStep \in On({"widen"}, "event")
    /\ Written["event"] \subseteq Script[EventStep].list
    /\ DropStep < AddStep /\ AddStep < EventStep
    /\ \A i \in StepsOf({"widen"}) :
           /\ Script[i].on # "stage"
           /\ \/ Written[Script[i].on] \subseteq Script[i].list
              \/ Script[i].on = "event" /\ i < DropStep

ASSUME ScriptAssumption ==
    /\ LastStep \in Nat \ {0}
    /\ \A i \in 1..LastStep : Script[i].op \in
           {"create", "init", "checked", "widen", "drop", "remap", "add", "seed",
            "backfill"}
    /\ InitFirst /\ NeedsAreMadeBefore /\ ColumnsAreFilled /\ ListsFollow
    /\ StagesAreReplaced
    /\ "banners" \in Keys

TypeOK ==
    /\ objects \subseteq AllObjects
    /\ Constraints \subseteq DOMAIN values
    /\ content \in [Keys -> {"absent", "seeded", "edited"}]
    /\ row \in [DOMAIN Backfilled -> {"none", "old", "new"}]
    /\ mark \in [DOMAIN Backfilled -> {"null", "given", "earned"}]
    /\ pc \in [Process -> 0..Done]

\* An old database has rows with every value it allows, but for the reminders
\* of saved searches, which come later.  The rows of today's are newer than the
\* columns, and have not earned anything yet.
Init ==
    \E r \in Release :
        LET old == Found[r] IN
        /\ objects = old.objects
        /\ check = old.check
        /\ values = [c \in Constraints |->
               IF c \in DOMAIN old.check
               THEN old.check[c] \ {"saved_search_deadline"}
               ELSE IF c = "industry" /\ r \in {"first", "embedded"}
                    THEN {"group", "mid"} ELSE {}]
        /\ content = [k \in Keys |-> IF r \in {"earlier", "current"}
                                     THEN "seeded" ELSE "absent"]
        /\ row = [b \in DOMAIN Backfilled |->
                     IF Backfilled[b] \notin old.objects THEN "none"
                     ELSE IF b \in old.objects THEN "new" ELSE "old"]
        /\ mark = [b \in DOMAIN Backfilled |-> "null"]
        /\ pc = [p \in Process |-> 0]
        /\ refused = {}
        /\ lost = {}
        /\ boots = 0
        /\ acts = 0

-----------------------------------------------------------------------------
(* Apply.                                                                   *)

Serving == pc["server"] = Done

Boot ==
    /\ \A p \in Process : pc[p] = 0
    /\ boots < MaxBoots
    /\ pc' = [pc EXCEPT !["server"] = 1]
    /\ boots' = boots + 1
    /\ UNCHANGED <<database, refused, lost, acts>>

Crash ==
    /\ pc["server"] # 0
    /\ pc' = [p \in Process |-> 0]
    /\ UNCHANGED <<database, refused, lost, boots, acts>>

\* A step of p is over and p goes on.  When the server is done, it starts the
\* collectors.
Goes(p) ==
    /\ pc' = IF p = "server" /\ pc[p] = LastStep
             THEN [q \in Process |-> IF q = p THEN Done ELSE 1]
             ELSE [pc EXCEPT ![p] = @ + 1]
    /\ UNCHANGED <<row, refused, lost, boots, acts>>

\* The step s of p does not fail.
Runs(p, s) ==
    /\ s.needs \subseteq objects
    /\ objects' = objects \union s.makes
    /\ Goes(p)

With(c, list) == [d \in DOMAIN check \union {c} |->
                     IF d = c THEN list ELSE check[d]]

Create(p, s) ==
    /\ s.op = "create"
    /\ Runs(p, s)
    /\ UNCHANGED <<check, values, content, mark>>

Created(lists) ==
    check' = [d \in DOMAIN check \union DOMAIN lists |->
                 IF d \in DOMAIN lists THEN lists[d] ELSE check[d]]

\* The embedded schema, unless there is a table of notices.
CreateAll(p, s) ==
    /\ s.op = "init"
    /\ IF "notices" \in objects
       THEN Goes(p) /\ UNCHANGED <<objects, check>>
       ELSE Runs(p, s) /\ Created(s.map)
    /\ UNCHANGED <<values, content, mark>>

\* Tables with CHECKs, unless they are there.
CreateChecked(p, s) ==
    /\ s.op = "checked"
    /\ Runs(p, s)
    /\ IF s.list \subseteq objects THEN UNCHANGED check ELSE Created(s.map)
    /\ UNCHANGED <<values, content, mark>>

\* Mutant: ADD CONSTRAINT that passes over one that exists.
AddsIfMissing(p, s) ==
    /\ s.op = "widen"
    /\ Runs(p, s)
    /\ check' = IF Listed(s.on) THEN check ELSE With(s.on, s.list)
    /\ UNCHANGED <<values, content, mark>>

Widen(p, s) ==
    /\ s.op = "widen"
    /\ values[s.on] \subseteq s.list
    /\ Runs(p, s)
    /\ check' = With(s.on, s.list)
    /\ UNCHANGED <<values, content, mark>>

Drop(p, s) ==
    /\ s.op = "drop"
    /\ Runs(p, s)
    /\ check' = [d \in DOMAIN check \ {s.on} |-> check[d]]
    /\ UNCHANGED <<values, content, mark>>

\* Mutant: an UPDATE whose condition no row meets.
RemapsNothing(c, map) == values[c]

Remapped(c, map) ==
    {IF v \in DOMAIN map THEN map[v] ELSE v : v \in values[c]}

Remap(p, s) ==
    /\ s.op = "remap"
    /\ Runs(p, s)
    /\ values' = [values EXCEPT ![s.on] = Remapped(s.on, s.map)]
    /\ UNCHANGED <<check, content, mark>>

Add(p, s) ==
    /\ s.op = "add"
    /\ ~Listed(s.on)
    /\ values[s.on] \subseteq s.list
    /\ Runs(p, s)
    /\ check' = With(s.on, s.list)
    /\ UNCHANGED <<values, content, mark>>

\* Mutant: ON CONFLICT DO UPDATE.
SeedOverwrites(k) == "seeded"

\* Only what is not there is inserted.
Seeded(k) == IF content[k] = "absent" THEN "seeded" ELSE content[k]

Seed(p, s) ==
    /\ s.op = "seed"
    /\ Runs(p, s)
    /\ content' = [k \in Keys |-> IF k \in s.list THEN Seeded(k)
                                  ELSE content[k]]
    /\ UNCHANGED <<check, values, mark>>

\* Mutant: every start fills the rows where the column is empty.
FillsAlways(b) ==
    IF row[b] # "none" /\ mark[b] = "null" THEN "given" ELSE mark[b]

\* The rows are filled only when the column is added.
Filled(b) ==
    IF b \notin objects /\ row[b] # "none" THEN "given" ELSE mark[b]

Backfill(p, s) ==
    /\ s.op = "backfill"
    /\ Runs(p, s)
    /\ mark' = [mark EXCEPT ![s.on] = Filled(s.on)]
    /\ UNCHANGED <<check, values, content>>

\* Why p's step fails: a table is missing, rows have values that the new
\* CHECK does not list, or the CHECK exists.
Failures(p, s) ==
    {[by |-> p, why |-> "missing", what |-> t] : t \in s.needs \ objects}
    \union
    {[by |-> p, why |-> "narrow", what |-> v] :
        v \in IF s.op \in {"widen", "add"} THEN values[s.on] \ s.list ELSE {}}
    \union
    {[by |-> p, why |-> "exists", what |-> c] :
        c \in IF s.op = "add" /\ Listed(s.on) THEN {s.on} ELSE {}}

Fail(p, s) ==
    /\ Failures(p, s) # {}
    /\ refused' = refused \union Failures(p, s)
    /\ pc' = IF p = "server" THEN [q \in Process |-> 0]
             ELSE [pc EXCEPT ![p] = 0]
    /\ UNCHANGED <<database, lost, boots, acts>>

ApplyStep(p, s) ==
    \/ Create(p, s)
    \/ CreateAll(p, s)
    \/ CreateChecked(p, s)
    \/ Widen(p, s)
    \/ Drop(p, s)
    \/ Remap(p, s)
    \/ Add(p, s)
    \/ Seed(p, s)
    \/ Backfill(p, s)
    \/ Fail(p, s)

-----------------------------------------------------------------------------
(* Users and administrators.                                                *)

Acts ==
    /\ Serving
    /\ acts < MaxActs
    /\ acts' = acts + 1
    /\ UNCHANGED <<objects, check, pc, refused, boots>>

\* A handler writes a row with value v under CHECK c, such as the log of an
\* e-mail.  The log's writers ignore the error.
WriteRow(c, v) ==
    /\ Acts
    /\ IF Listed(c) => v \in check[c]
       THEN /\ v \notin values[c]
            /\ values' = [values EXCEPT ![c] = @ \union {v}]
            /\ lost' = lost
       ELSE /\ lost' = lost \union {v}
            /\ values' = values
    /\ UNCHANGED <<content, row, mark>>

Edit(k) ==
    /\ Acts
    /\ content[k] # "edited"
    /\ content' = [content EXCEPT ![k] = "edited"]
    /\ UNCHANGED <<values, row, mark, lost>>

\* Deleting the last banner.
RemoveBanners ==
    /\ Acts
    /\ content["banners"] # "absent"
    /\ content' = [content EXCEPT !["banners"] = "absent"]
    /\ UNCHANGED <<values, row, mark, lost>>

SignUp(b) ==
    /\ Acts
    /\ row[b] = "none"
    /\ row' = [row EXCEPT ![b] = "new"]
    /\ UNCHANGED <<values, content, mark, lost>>

Earn(b) ==
    /\ Acts
    /\ row[b] # "none"
    /\ mark[b] = "null"
    /\ mark' = [mark EXCEPT ![b] = "earned"]
    /\ UNCHANGED <<values, content, row, lost>>

UserStep ==
    \/ \E c \in DOMAIN Written : \E v \in Written[c] : WriteRow(c, v)
    \/ \E k \in Keys : Edit(k)
    \/ RemoveBanners
    \/ \E b \in DOMAIN Backfilled : SignUp(b) \/ Earn(b)

Next ==
    \/ Boot
    \/ Crash
    \/ \E p \in Process :
           pc[p] \in 1..LastStep /\ ApplyStep(p, Script[pc[p]])
    \/ UserStep

Spec == Init /\ [][Next]_vars

-----------------------------------------------------------------------------
(* Properties.                                                              *)

\* From any database a deployment may have, in any interleaving of the three
\* Applies, a step fails for two known reasons only: a list is narrowed below
\* the reminders of saved searches (see ServerStarts), and two collectors add
\* the constraint of the six statuses after both have dropped it.  No step
\* needs a table of a later one, and no other list is narrower than its rows.
OnlyKnownFailures ==
    \A f \in refused : \/ f.why = "narrow" /\ f.what = "saved_search_deadline"
                       \/ f.why = "exists" /\ f.what = "stage"

\* Whatever step of whatever Apply is next, a CHECK keeps out no row that the
\* handlers write, except the reminders of saved searches.
RowsAccepted == lost \subseteq {"saved_search_deadline"}

\* The narrow lists that six of the seven functions set do not outlast the
\* Applies: when none runs, the log takes every event, even if a collector's
\* Apply failed half-way.
ListsSettle ==
    Serving /\ (\A p \in Collector : pc[p] \in {0, Done})
        => \A c \in DOMAIN Written : Listed(c) /\ Written[c] \subseteq check[c]

\* A row counts as having passed a requirement without having earned it if and
\* only if it is older than the requirement's column, however often Apply runs.
GrandfatheredOnce ==
    \A b \in DOMAIN Backfilled :
        b \in objects => (mark[b] = "given" <=> row[b] = "old")

\* No start undoes what an administrator has entered.
EditsKept ==
    [][\A k \in Keys : content[k] = "edited" => content'[k] # "seeded"]_vars

\* The server serves no row with a status or an industry of the old kind.
RowsConverted ==
    Serving => values["stage"] \subseteq SixStages
               /\ "group" \notin values["industry"]

\* What the Applies leave behind is what the handlers need: lists that take
\* their rows, settled when the starts are over, and rows of the new kind.
SchemaServes == TypeOK /\ RowsAccepted /\ ListsSettle /\ RowsConverted

-----------------------------------------------------------------------------
(* What the comments say.                                                   *)

\* The comment before ensureDeadlineD7EventType: all lists are widened
\* together, so that rows never keep the server from starting.
ServerStarts == \A f \in refused : f.by # "server"

=============================================================================
