------------------------------- MODULE Monitoring -------------------------------
(***************************************************************************)
(* What watches one source of the lake: the failure alert on its workflow, *)
(* the staleness check (genkei watchlist health with its table probes and  *)
(* the schema-drift canary, run beside the lake), the heartbeat (run away  *)
(* from it, over the history of the workflows), and the staleness banner   *)
(* of the read commands.                                                   *)
(*                                                                         *)
(* Data.  Times are hours. A payload has its top-level keys or not and a   *)
(* sequence of items: fit to be normalized, odd (not of the type, too      *)
(* short, without a required key) or null (all of that in place, and a     *)
(* value that cannot be used). told is the hour of the last issue, comment *)
(* or ping about anything.                                                 *)
(***************************************************************************)
EXTENDS Naturals, Sequences, SequencesExt

CONSTANTS
    LastDay,            \* bound: days
    StaleHours,         \* --stale-hours
    DriftHours,         \* --drift-max-age-hours
    HeartbeatHours,     \* WATCH: of a daily workflow
    WeeklyHours,        \* WATCH: of cftc-weekly.yml, which runs every evening
    ArraySample         \* EndpointSchema.array_sample_size

VARIABLES
    kind,       \* "listed" in RECURRING_ENDPOINTS, "unlisted" (Yahoo, Coinbase), "evening" (CFTC)
    spec,       \* its schema: "object", "array" or "none"
    day, hour,  \* the next event is due then
    run,        \* the latest run in meta.ingest_runs
    success,    \* the latest successful one
    blob,       \* the latest raw blob
    row,        \* the hour of the latest write to its table
    earlier,    \* another source's table, probed before
    passed,     \* the latest successful run of its workflow
    others,     \* the same of the other daily workflows
    told

monitoringVars == <<kind, spec, day, hour, run, success, blob, row, earlier, passed, others, told>>

Never == 0
Now == 24 * (day + 1) + hour
Age(t) == Now - t

\* The hours of the day's events: morning crons, ingest-staleness-check.yml,
\* ingest-heartbeat.yml, the evening cron.
Morning == 11
Check == 14
Beat == 15
Evening == 22

CronHour == IF kind = "evening" THEN Evening ELSE Morning

\* What an object has under its keys is for the normalizer to tell: rows or none.
Payload ==
    IF spec = "array"
    THEN [keys : {TRUE}, items : {<<>>, <<"fit">>, <<"odd">>, <<"null">>,
                                  <<"fit", "odd">>, <<"odd", "fit">>, <<"null", "odd">>}]
    ELSE [keys : BOOLEAN, items : {<<>>, <<"fit">>}]

NoRun == [began |-> Never, status |-> "missing"]
NoBlob == [at |-> Never, payload |-> [keys |-> FALSE, items |-> <<>>]]

Init ==
    /\ kind \in {"listed", "unlisted", "evening"} /\ spec \in {"object", "array", "none"}
    /\ kind = "listed" \/ spec # "none"
    /\ day = 0 /\ hour = Morning
    /\ run = NoRun /\ success = Never /\ blob = NoBlob /\ row = Never
    /\ earlier \in {"rows", "gone"} /\ passed = Never /\ others = Never /\ told = Never

Pass(from, to) ==
    /\ hour = from /\ hour' = to
    /\ IF from = Evening THEN day < LastDay /\ day' = day + 1 ELSE day' = day
    /\ UNCHANGED <<kind, spec, earlier>>

Following == [h \in {Morning, Check, Beat, Evening} |->
    CASE h = Morning -> Check [] h = Check -> Beat [] h = Beat -> Evening [] h = Evening -> Morning]

-----------------------------------------------------------------------------
\* The workflow of the source.

\* Rows come of fit items under the keys the normalizer reads.
Yields(p) == p.keys /\ "fit" \in ToSet(p.items)

\* The other daily workflows depend on nothing but the runner and the lake.
OthersRun(up) == others' = IF hour = Morning /\ up THEN Now ELSE others

\* A run that succeeds: its workflow passes, or a later step of it fails, or it
\* was run from a shell.
Collected(p, end) ==
    /\ hour = CronHour /\ Pass(hour, Following[hour])
    /\ run' = [began |-> Now, status |-> "success"] /\ success' = Now
    /\ blob' = [at |-> Now, payload |-> p]
    /\ row' = IF Yields(p) THEN Now ELSE row
    /\ passed' = IF end = "passed" THEN Now ELSE passed
    /\ told' = IF end = "broken" THEN Now ELSE told
    /\ OthersRun(TRUE)

\* The run fails, marked so or left running (both are FAIL to the check),
\* before or after its blobs.
\* workflow-failure-alert.yml tells of it unless the job was cancelled.
Failed(cancelled) ==
    /\ hour = CronHour /\ Pass(hour, Following[hour])
    /\ run' = [began |-> Now, status |-> "failed"]
    /\ \/ UNCHANGED blob
       \/ \E p \in Payload : blob' = [at |-> Now, payload |-> p]
    /\ told' = IF cancelled THEN told ELSE Now
    /\ OthersRun(TRUE) /\ UNCHANGED <<success, row, passed>>

\* The lake cannot be reached: nothing is recorded, the workflow fails.
Unreachable ==
    /\ hour = CronHour /\ Pass(hour, Following[hour])
    /\ told' = Now
    /\ OthersRun(FALSE) /\ UNCHANGED <<run, success, blob, row, passed>>

\* The runner is down, or this workflow no longer triggers.
NotStarted(up) ==
    /\ hour = CronHour /\ Pass(hour, Following[hour])
    /\ OthersRun(up) /\ UNCHANGED <<run, success, blob, row, passed, told>>

\* The morning or the evening cron of a source that has the other.
NotDue(up) ==
    /\ hour \in {Morning, Evening} \ {CronHour} /\ Pass(hour, Following[hour])
    /\ OthersRun(up) /\ UNCHANGED <<run, success, blob, row, passed, told>>

-----------------------------------------------------------------------------
\* genkei watchlist health.

\* The latest run decides, not the latest success.
StatusTag ==
    CASE run = NoRun -> "MISSING"
      [] run.status \notin {"success", "missing"} -> "FAIL"
      [] run.status = "success" /\ Age(run.began) > StaleHours -> "STALE"
      [] OTHER -> "OK"

\* The probes share a transaction: once one fails, so do those after it.
TableTag == IF earlier = "gone" THEN "FAIL" ELSE IF row = Never THEN "EMPTY" ELSE "OK"

Sample(p) == ToSet(SubSeq(p.items, 1, ArraySample))

\* Fault: the items of an array are not looked at.
DriftedKeysOnly(p) ==
    CASE spec = "object" -> ~p.keys
      [] spec = "array"  -> p.items = <<>>
      [] spec = "none"   -> FALSE

\* check_payload: an object's keys, or the type and keys of a sample of an array's
\* items; no value is looked at.
Drifted(p) ==
    CASE spec = "object" -> ~p.keys
      [] spec = "array"  -> p.items = <<>> \/ "odd" \in Sample(p)
      [] spec = "none"   -> FALSE

DriftTag ==
    IF spec # "none" /\ (Age(blob.at) > DriftHours \/ Drifted(blob.payload)) THEN "DRIFT" ELSE "OK"

Unhealthy ==
    {DriftTag} \cup (IF kind = "unlisted" THEN {} ELSE {StatusTag, TableTag}) # {"OK"}

\* ingest-staleness-check.yml: an issue and a ping when a row is not OK. If it
\* cannot read the lake it fails, and the failure alert tells; a runner that is
\* down runs nothing.
StalenessCheck(up, reachable) ==
    /\ Pass(Check, Beat)
    /\ told' = IF up /\ (~reachable \/ Unhealthy) THEN Now ELSE told
    /\ UNCHANGED <<run, success, blob, row, passed, others>>

Limit == IF kind = "evening" THEN WeeklyHours ELSE HeartbeatHours

\* Fault: the heartbeat asks for a run, not for a successful one.
MissedBeatOfRuns == Age(run.began) > Limit \/ Age(others) > HeartbeatHours

\* A workflow without a success within its limit.
MissedBeat == Age(passed) > Limit \/ Age(others) > HeartbeatHours

Heartbeat ==
    /\ Pass(Beat, Evening)
    /\ told' = IF MissedBeat THEN Now ELSE told
    /\ UNCHANGED <<run, success, blob, row, passed, others>>

Next ==
    \/ \E p \in Payload, end \in {"passed", "broken", "shell"} : Collected(p, end)
    \/ \E cancelled \in BOOLEAN : Failed(cancelled)
    \/ Unreachable
    \/ \E up \in BOOLEAN : NotStarted(up) \/ NotDue(up)
    \/ \E up, reachable \in BOOLEAN : StalenessCheck(up, reachable)
    \/ Heartbeat

Spec == Init /\ [][Next]_monitoringVars

-----------------------------------------------------------------------------
\* ingest_run_freshness: the banner over what a read command prints.
Banner == success # Never /\ Age(success) > StaleHours

Days(n) == 24 * n

\* Told since the checks of the day before.
ToldLately == told # Never /\ Age(told) <= 24

\* A source that has had no success for its limit and half a day has been
\* reported since yesterday, whichever of the workflow, the runner and the lake
\* is at fault.
StopIsTold == hour = Evening /\ Age(success) > Limit + 12 => ToldLately

\* When an array source has had no row for three days, the check of the day
\* sees its newest blob old, empty or odd in the sample, unless its latest run
\* failed outright or the heartbeat sees that none succeeds. One thing is seen by
\* nothing: items that keep their keys and lose their values.
DriftIsSeen ==
    hour = Check /\ spec = "array" /\ Age(row) > Days(3) + 12
       => \/ Unhealthy \/ MissedBeat \/ run.status # "success"
          \/ Sample(blob.payload) = {"null"}

\* Where readers see the banner, the staleness check sees a row not OK.
BannerIsFlagged == kind # "unlisted" /\ Banner => StatusTag # "OK"

\* A source that is well is not reported: its last run came on time, succeeded
\* and wrote rows of a payload without oddities, and no table is missing.
WellIsQuiet ==
    LET well == /\ run.status = "success" /\ run.began = row /\ Age(run.began) < 24
                /\ blob.at = run.began /\ "odd" \notin ToSet(blob.payload.items)
    IN hour = Check /\ well /\ earlier = "rows" => ~Unhealthy

\* A source that stops, drifts or goes stale is told of by one of the workflows
\* that watch it, and one that is well by none.
TroubleIsTold == StopIsTold /\ DriftIsSeen /\ BannerIsFlagged /\ WellIsQuiet

=============================================================================
