---------------------------- MODULE IngestPipeline ----------------------------
(***************************************************************************)
(* One source's daily pipeline: the workflow job that runs a collector     *)
(* under scripts/ci/retry.sh and then its normalizer once, both inside     *)
(* genkei.common.db.ingest_run, over meta.ingest_runs, meta.raw_blobs and  *)
(* the source's lake tables.  Every database transaction is one step: it   *)
(* commits, it fails before its commit, or it commits and the client never *)
(* hears of it.  A process can be killed between any two steps.            *)
(*                                                                         *)
(* Data.  A payload is the upstream version (a clock value) it was fetched *)
(* at; 0 is "none".  A lake table is one row per endpoint.                 *)
(***************************************************************************)
EXTENDS Naturals

CONSTANTS
    Job,          \* jobs that may overlap (a schedule, a dispatch, a shell)
    Required,     \* targets whose fetch failure raises (CollectionTarget.required)
    Optional,     \* targets whose fetch failure is recorded as partial
    MaxAttempts,  \* retry.sh's max_attempts
    PinRun,       \* TRUE: normalize --source-run-id <printed id>; FALSE: latest success
    MaxRuns,      \* bound: rows of meta.ingest_runs
    MaxJobs,      \* bound: jobs started
    MaxClock      \* bound: upstream versions

ASSUME BoundsAreNat == /\ MaxAttempts \in Nat /\ MaxRuns \in Nat
                       /\ MaxJobs \in Nat     /\ MaxClock \in Nat \ {0}
ASSUME PinRunIsBoolean == PinRun \in BOOLEAN
ASSUME TargetsDisjoint == Required \cap Optional = {}

Endpoint == Required \cup Optional
RunId    == 1..MaxRuns
Version  == 0..MaxClock

VARIABLES
    clock,      \* the version upstream serves now
    started,    \* jobs started so far
    nextId,     \* the last id meta.ingest_runs handed out
    status,     \* ingest_runs.status ("none": no such row)
    label,      \* ingest_runs.endpoint, collect or normalize
    partial,    \* ingest_runs.metadata.partial_endpoints
    sourceOf,   \* ingest_runs.metadata.source_run_id of a normalize row
    blob,       \* raw_blobs: run -> endpoint -> payload
    lake,       \* lake row: endpoint -> payload
    lakeRun,    \* lake row's ingest_run_id (the normalizer's run)
    pc, attempt, cur, out, todo, lost  \* the processes, see below

\* pc: next step; attempt: retry.sh's counter; cur: IngestRun.id in hand;
\* out: the run id printed on success; todo, lost: collect's targets left and
\* its `partial` list.
table == <<nextId, status, label, partial, sourceOf>>
proc  == <<attempt, cur, out, todo, lost>>
vars  == <<clock, started, table, blob, lake, lakeRun, pc, proc>>

Ended  == {"idle", "done", "failed", "killed"}
Live   == {"open", "fetch", "record", "succeed", "raise", "retry",
           "normalize", "upsert", "nsucceed", "nraise"}

PC     == Ended \cup Live

TablesOK ==
    /\ clock \in Version /\ started \in 0..MaxJobs /\ nextId \in 0..MaxRuns
    /\ status   \in [RunId -> {"none", "running", "success", "failed"}]
    /\ label    \in [RunId -> {"none", "collect", "normalize"}]
    /\ partial  \in [RunId -> SUBSET Optional]
    /\ sourceOf \in [RunId -> 0..MaxRuns]

LakeOK ==
    /\ blob     \in [RunId -> [Endpoint -> Version]]
    /\ lake     \in [Endpoint -> Version]
    /\ lakeRun  \in [Endpoint -> 0..MaxRuns]

ProcOK ==
    /\ pc       \in [Job -> PC]
    /\ attempt  \in [Job -> 0..MaxAttempts]
    /\ cur      \in [Job -> 0..MaxRuns]
    /\ out      \in [Job -> 0..MaxRuns]
    /\ todo     \in [Job -> SUBSET Endpoint]
    /\ lost     \in [Job -> SUBSET Optional]

TypeOK == TablesOK /\ LakeOK /\ ProcOK

Init ==
    /\ clock = 1 /\ started = 0 /\ nextId = 0
    /\ status   = [r \in RunId |-> "none"]
    /\ label    = [r \in RunId |-> "none"]
    /\ partial  = [r \in RunId |-> {}]
    /\ sourceOf = [r \in RunId |-> 0]
    /\ blob     = [r \in RunId |-> [e \in Endpoint |-> 0]]
    /\ lake     = [e \in Endpoint |-> 0]
    /\ lakeRun  = [e \in Endpoint |-> 0]
    /\ pc       = [j \in Job |-> "idle"]
    /\ attempt  = [j \in Job |-> 0]
    /\ cur      = [j \in Job |-> 0]
    /\ out      = [j \in Job |-> 0]
    /\ todo     = [j \in Job |-> {}]
    /\ lost     = [j \in Job |-> {}]

-----------------------------------------------------------------------------
Goto(j, s) == pc' = [pc EXCEPT ![j] = s]
At(j, s)   == pc[j] = s

\* A python process ends: its locals are gone, retry.sh's counter is not.
Exit(j, s) ==
    /\ Goto(j, s)
    /\ cur'  = [cur  EXCEPT ![j] = 0]
    /\ todo' = [todo EXCEPT ![j] = {}]
    /\ lost' = [lost EXCEPT ![j] = {}]
    /\ UNCHANGED <<attempt, out>>

\* The whole job ends.
EndJob(j, s) ==
    /\ Goto(j, s)
    /\ attempt' = [attempt EXCEPT ![j] = 0]
    /\ cur'     = [cur  EXCEPT ![j] = 0]
    /\ out'     = [out  EXCEPT ![j] = 0]
    /\ todo'    = [todo EXCEPT ![j] = {}]
    /\ lost'    = [lost EXCEPT ![j] = {}]

\* Upstream publishes something new.
Tick ==
    /\ clock < MaxClock
    /\ clock' = clock + 1
    /\ UNCHANGED <<started, table, blob, lake, lakeRun, pc, proc>>

\* A workflow job (or a shell) starts: retry.sh with attempt = 1.
StartJob(j) ==
    /\ pc[j] \in Ended /\ started < MaxJobs /\ MaxAttempts > 0
    /\ started' = started + 1
    /\ Goto(j, "open")
    /\ attempt' = [attempt EXCEPT ![j] = 1]
    /\ UNCHANGED <<clock, table, blob, lake, lakeRun, cur, out, todo, lost>>

\* ingest_run's first transaction inserts the 'running' row.
InsertRun(what) ==
    /\ nextId < MaxRuns
    /\ nextId' = nextId + 1
    /\ status' = [status EXCEPT ![nextId + 1] = "running"]
    /\ label'  = [label  EXCEPT ![nextId + 1] = what]

\* collect enters ingest_run; the targets are all still to fetch.
OpenRun(j) ==
    /\ At(j, "open")
    /\ InsertRun("collect")
    /\ cur'  = [cur  EXCEPT ![j] = nextId + 1]
    /\ todo' = [todo EXCEPT ![j] = Endpoint]
    /\ lost' = [lost EXCEPT ![j] = {}]
    /\ Goto(j, "fetch")
    /\ UNCHANGED <<clock, started, partial, sourceOf, blob, lake, lakeRun, attempt, out>>

\* The insert raises: outside the try, so nothing marks any row.  Its commit
\* may have gone through all the same.
OpenRunError(j) ==
    /\ At(j, "open")
    /\ \/ UNCHANGED <<nextId, status, label>>
       \/ InsertRun("collect")
    /\ Exit(j, "retry")
    /\ UNCHANGED <<clock, started, partial, sourceOf, blob, lake, lakeRun>>

\* get_json then store_raw_blob in its own transaction.  No other process
\* touches this run's blobs, so fetch and store are one step.
FetchStore(j, e) ==
    /\ At(j, "fetch") /\ e \in todo[j]
    /\ blob' = [blob EXCEPT ![cur[j]][e] = clock]
    /\ todo' = [todo EXCEPT ![j] = @ \ {e}]
    /\ UNCHANGED <<clock, started, table, lake, lakeRun, pc, attempt, cur, out, lost>>

\* Fault: every target treated as optional.
FetchSoftAny(j, e) ==
    /\ At(j, "fetch") /\ e \in todo[j]
    /\ todo' = [todo EXCEPT ![j] = @ \ {e}]
    /\ lost' = [lost EXCEPT ![j] = @ \cup {e}]
    /\ UNCHANGED <<clock, started, table, blob, lake, lakeRun, pc, attempt, cur, out>>

\* An optional target's fetch fails: recorded in memory, the loop goes on.
FetchSoft(j, e) ==
    /\ At(j, "fetch") /\ e \in todo[j] \cap Optional
    /\ todo' = [todo EXCEPT ![j] = @ \ {e}]
    /\ lost' = [lost EXCEPT ![j] = @ \cup {e}]
    /\ UNCHANGED <<clock, started, table, blob, lake, lakeRun, pc, attempt, cur, out>>

\* A required target's fetch raises, or any target's store does (with or
\* without its row committed), or an interrupt lands in the loop.
FetchRaise(j, e) ==
    /\ At(j, "fetch") /\ e \in todo[j]
    /\ \/ UNCHANGED blob
       \/ blob' = [blob EXCEPT ![cur[j]][e] = clock]
    /\ Goto(j, "raise")
    /\ UNCHANGED <<clock, started, table, lake, lakeRun, proc>>

\* Fault: the partial list is never recorded.
LoopDoneForgets(j) ==
    /\ At(j, "fetch") /\ todo[j] = {}
    /\ Goto(j, "succeed")
    /\ UNCHANGED <<clock, started, table, blob, lake, lakeRun, proc>>

\* The loops are over: record_partial_endpoints only if something was lost.
LoopDone(j) ==
    /\ At(j, "fetch") /\ todo[j] = {}
    /\ Goto(j, IF lost[j] = {} THEN "succeed" ELSE "record")
    /\ UNCHANGED <<clock, started, table, blob, lake, lakeRun, proc>>

\* record_partial_endpoints: the UPDATE of the run's metadata.
RecordPartial(j) ==
    /\ At(j, "record")
    /\ partial' = [partial EXCEPT ![cur[j]] = lost[j]]
    /\ Goto(j, "succeed")
    /\ UNCHANGED <<clock, started, nextId, status, label, sourceOf, blob, lake, lakeRun, proc>>

\* The metadata UPDATE raises, committed or not.
RecordPartialError(j) ==
    /\ At(j, "record")
    /\ \/ UNCHANGED partial
       \/ partial' = [partial EXCEPT ![cur[j]] = lost[j]]
    /\ Goto(j, "raise")
    /\ UNCHANGED <<clock, started, nextId, status, label, sourceOf, blob, lake, lakeRun, proc>>

SetStatus(r, s) == status' = [status EXCEPT ![r] = s]

\* ingest_run's else branch: status = 'success', exit 0, the id is printed.
MarkSuccess(j) ==
    /\ At(j, "succeed")
    /\ SetStatus(cur[j], "success")
    /\ out' = [out EXCEPT ![j] = cur[j]]
    /\ Goto(j, "normalize")
    /\ cur'  = [cur  EXCEPT ![j] = 0]
    /\ lost' = [lost EXCEPT ![j] = {}]
    /\ UNCHANGED <<clock, started, nextId, label, partial, sourceOf, blob, lake, lakeRun,
                   attempt, todo>>

\* Fault: the success UPDATE inside the try, so that its error marks the run.
MarkSuccessInTry(j) ==
    /\ At(j, "succeed")
    /\ \/ UNCHANGED status
       \/ SetStatus(cur[j], "success")
    /\ Goto(j, "raise")
    /\ UNCHANGED <<clock, started, nextId, label, partial, sourceOf, blob, lake, lakeRun, proc>>

\* The success UPDATE raises.  The else branch is outside the try, so the run
\* is not marked failed: it stays running, or is a success nobody heard of.
MarkSuccessError(j) ==
    /\ At(j, "succeed")
    /\ \/ UNCHANGED status
       \/ SetStatus(cur[j], "success")
    /\ Exit(j, "retry")
    /\ UNCHANGED <<clock, started, nextId, label, partial, sourceOf, blob, lake, lakeRun>>

\* ingest_run's except branch; when its own UPDATE fails that is only logged.
MarkFailed(j) ==
    /\ At(j, "raise")
    /\ \/ SetStatus(cur[j], "failed")
       \/ UNCHANGED status
    /\ Exit(j, "retry")
    /\ UNCHANGED <<clock, started, nextId, label, partial, sourceOf, blob, lake, lakeRun>>

\* retry.sh: another attempt while attempts are left ...
Retry(j) ==
    /\ At(j, "retry") /\ attempt[j] < MaxAttempts
    /\ attempt' = [attempt EXCEPT ![j] = @ + 1]
    /\ Goto(j, "open")
    /\ UNCHANGED <<clock, started, table, blob, lake, lakeRun, cur, out, todo, lost>>

\* Fault: one attempt too late.
GiveUpLate(j) ==
    /\ At(j, "retry") /\ attempt[j] > MaxAttempts
    /\ EndJob(j, "failed")
    /\ UNCHANGED <<clock, started, table, blob, lake, lakeRun>>

\* ... else the step, and with it the job, fails.
GiveUp(j) ==
    /\ At(j, "retry") /\ attempt[j] >= MaxAttempts
    /\ EndJob(j, "failed")
    /\ UNCHANGED <<clock, started, table, blob, lake, lakeRun>>

-----------------------------------------------------------------------------
\* Faults: ORDER BY started_at ascending, or no ORDER BY at all.
OldestSuccess ==
    {r \in RunId : /\ label[r] = "collect" /\ status[r] = "success"
                   /\ \A q \in RunId : label[q] = "collect" /\ status[q] = "success" => r <= q}
AnySuccess == {r \in RunId : label[r] = "collect" /\ status[r] = "success"}

\* latest_collector_run_id: the successful collector run started last.
LatestSuccess ==
    {r \in RunId : /\ label[r] = "collect" /\ status[r] = "success"
                   /\ \A q \in RunId : label[q] = "collect" /\ status[q] = "success" => q <= r}

Source(j) == IF PinRun THEN {out[j]} ELSE LatestSuccess

\* normalize chooses its source run, reads its blobs and opens its own run.
\* A finished run's blobs do not change, so they are read again at the write.
OpenNormalize(j) ==
    /\ At(j, "normalize")
    /\ InsertRun("normalize")
    /\ \E s \in Source(j) : sourceOf' = [sourceOf EXCEPT ![nextId + 1] = s]
    /\ cur' = [cur EXCEPT ![j] = nextId + 1]
    /\ Goto(j, "upsert")
    /\ UNCHANGED <<clock, started, partial, blob, lake, lakeRun, attempt, out, todo, lost>>

\* No source, an error of the reads, or of the insert (committed or not): the
\* step is not retried and the job fails.
OpenNormalizeError(j) ==
    /\ At(j, "normalize")
    /\ \/ UNCHANGED <<nextId, status, label, sourceOf>>
       \/ /\ InsertRun("normalize")
          /\ \E s \in Source(j) : sourceOf' = [sourceOf EXCEPT ![nextId + 1] = s]
    /\ EndJob(j, "failed")
    /\ UNCHANGED <<clock, started, partial, blob, lake, lakeRun>>

\* Fault: rows stamped with the collector's run instead of the normalizer's.
WriteLakeAsSource(s, n) ==
    /\ lake'    = [e \in Endpoint |-> IF blob[s][e] # 0 THEN blob[s][e] ELSE lake[e]]
    /\ lakeRun' = [e \in Endpoint |-> IF blob[s][e] # 0 THEN s ELSE lakeRun[e]]

\* bulk_upsert of every table on one connection, one commit.
WriteLake(s, n) ==
    /\ lake'    = [e \in Endpoint |-> IF blob[s][e] # 0 THEN blob[s][e] ELSE lake[e]]
    /\ lakeRun' = [e \in Endpoint |-> IF blob[s][e] # 0 THEN n ELSE lakeRun[e]]

HasRequired(s) == \A e \in Required : blob[s][e] # 0

Upsert(j) ==
    /\ At(j, "upsert") /\ HasRequired(sourceOf[cur[j]])
    /\ WriteLake(sourceOf[cur[j]], cur[j])
    /\ Goto(j, "nsucceed")
    /\ UNCHANGED <<clock, started, table, blob, proc>>

\* Faults: each table committed on its own; an error swallowed.
UpsertTorn(j) ==
    /\ At(j, "upsert")
    /\ \E e \in Endpoint : /\ blob[sourceOf[cur[j]]][e] # 0
                           /\ lake'    = [lake EXCEPT ![e] = blob[sourceOf[cur[j]]][e]]
                           /\ lakeRun' = [lakeRun EXCEPT ![e] = cur[j]]
    /\ Goto(j, "nraise")
    /\ UNCHANGED <<clock, started, table, blob, proc>>
UpsertSwallows(j) ==
    /\ At(j, "upsert")
    /\ Goto(j, "nsucceed")
    /\ UNCHANGED <<clock, started, table, blob, lake, lakeRun, proc>>

\* A missing required blob, a rolled-back statement, or a commit whose
\* acknowledgement was lost.
UpsertRaise(j) ==
    /\ At(j, "upsert")
    /\ \/ UNCHANGED <<lake, lakeRun>>
       \/ HasRequired(sourceOf[cur[j]]) /\ WriteLake(sourceOf[cur[j]], cur[j])
    /\ Goto(j, "nraise")
    /\ UNCHANGED <<clock, started, table, blob, proc>>

MarkNormalized(j) ==
    /\ At(j, "nsucceed")
    /\ SetStatus(cur[j], "success")
    /\ EndJob(j, "done")
    /\ UNCHANGED <<clock, started, nextId, label, partial, sourceOf, blob, lake, lakeRun>>

MarkNormalizedError(j) ==
    /\ At(j, "nsucceed")
    /\ \/ UNCHANGED status
       \/ SetStatus(cur[j], "success")
    /\ EndJob(j, "failed")
    /\ UNCHANGED <<clock, started, nextId, label, partial, sourceOf, blob, lake, lakeRun>>

MarkNormalizeFailed(j) ==
    /\ At(j, "nraise")
    /\ \/ SetStatus(cur[j], "failed")
       \/ UNCHANGED status
    /\ EndJob(j, "failed")
    /\ UNCHANGED <<clock, started, nextId, label, partial, sourceOf, blob, lake, lakeRun>>

\* SIGKILL, a lost runner, timeout-minutes: the process and retry.sh are gone.
Kill(j) ==
    /\ pc[j] \in Live
    /\ EndJob(j, "killed")
    /\ UNCHANGED <<clock, started, table, blob, lake, lakeRun>>

-----------------------------------------------------------------------------
CollectStep(j) ==
    \/ OpenRun(j) \/ OpenRunError(j)
    \/ \E e \in Endpoint : FetchStore(j, e) \/ FetchSoft(j, e) \/ FetchRaise(j, e)
    \/ LoopDone(j) \/ RecordPartial(j) \/ RecordPartialError(j)
    \/ MarkSuccess(j) \/ MarkSuccessError(j) \/ MarkFailed(j)
    \/ Retry(j) \/ GiveUp(j)

NormalizeStep(j) ==
    \/ OpenNormalize(j) \/ OpenNormalizeError(j)
    \/ Upsert(j) \/ UpsertRaise(j)
    \/ MarkNormalized(j) \/ MarkNormalizedError(j) \/ MarkNormalizeFailed(j)

JobStep(j) == CollectStep(j) \/ NormalizeStep(j)

\* Every job has run: the bounded system may rest.
AllEnded ==
    /\ started = MaxJobs /\ \A j \in Job : pc[j] \in Ended
    /\ UNCHANGED vars

Next ==
    \/ Tick
    \/ \E j \in Job : StartJob(j) \/ JobStep(j) \/ Kill(j)
    \/ AllEnded

Spec == Init /\ [][Next]_vars

\* The operating system runs a live process; every call it makes has a timeout.
Fairness == \A j \in Job : WF_vars(JobStep(j))
FairSpec == Spec /\ Fairness

-----------------------------------------------------------------------------
(***************************************************************************)
(* The inductive invariant behind the safety properties below.             *)
(***************************************************************************)
Collecting(j)  == pc[j] \in {"fetch", "record", "succeed", "raise"}
Normalizing(j) == pc[j] \in {"upsert", "nsucceed", "nraise"}

\* Ids are handed out in order; a row exists once its id was.
RowsExist == \A r \in RunId : /\ status[r] = "none" <=> r > nextId
                              /\ label[r] = "none" <=> r > nextId

\* A process inside ingest_run holds a row of its own, still running.
OwnsRun == \A j \in Job :
    /\ Collecting(j) => cur[j] \in RunId /\ label[cur[j]] = "collect"
    /\ Normalizing(j) => cur[j] \in RunId /\ label[cur[j]] = "normalize"
    /\ cur[j] # 0 => (Collecting(j) \/ Normalizing(j)) /\ status[cur[j]] = "running"

OwnsAlone == \A i, j \in Job : i # j /\ cur[i] # 0 => cur[i] # cur[j]

\* What the loops have covered: a target is still to do, stored, or noted.
Covered(j, noted) ==
    /\ \A e \in Required : e \in todo[j] \/ blob[cur[j]][e] # 0
    /\ \A e \in Optional : e \in todo[j] \/ blob[cur[j]][e] # 0 \/ e \in noted

LoopCovers == \A j \in Job :
    /\ pc[j] \in {"fetch", "record"} => Covered(j, lost[j])
    /\ pc[j] = "succeed" => Covered(j, partial[cur[j]])
    /\ pc[j] \in {"record", "succeed", "normalize"} => todo[j] = {}

GoodSource(s) == s \in RunId /\ label[s] = "collect" /\ status[s] = "success"

SourcesAreGood ==
    /\ \A j \in Job : pc[j] = "normalize" => GoodSource(out[j])
    /\ \A n \in RunId : label[n] = "normalize" => GoodSource(sourceOf[n])

-----------------------------------------------------------------------------
(***************************************************************************)
(* Properties                                                              *)
(***************************************************************************)

\* A collector run marked success accounts for every target: each required
\* one has its blob, each other one has a blob or is listed in the run's
\* partial_endpoints (collect's fall-through, record and success order).
SuccessIsComplete ==
    \A r \in RunId : label[r] = "collect" /\ status[r] = "success" =>
        /\ \A e \in Required : blob[r][e] # 0
        /\ \A e \in Optional : blob[r][e] # 0 \/ e \in partial[r]

\* Every lake row can be traced: its ingest_run_id names a normalizer run,
\* that run's source_run_id a successful collector run, and that run's blob
\* is the payload in the row.
LakeTraceable ==
    \A e \in Endpoint : lake[e] # 0 =>
        /\ lakeRun[e] \in RunId
        /\ label[lakeRun[e]] = "normalize"
        /\ LET s == sourceOf[lakeRun[e]] IN
             /\ GoodSource(s)
             /\ blob[s][e] = lake[e]

\* All of it together, and inductive (IngestPipelineProofs).
IInv == /\ TypeOK /\ clock > 0
        /\ RowsExist /\ OwnsRun /\ OwnsAlone /\ LoopCovers /\ SourcesAreGood
        /\ SuccessIsComplete /\ LakeTraceable

\* Once a normalizer run is marked success, the lake is at least as new as
\* every payload of the run it normalized.
NormalizedIsVisible ==
    \A n \in RunId : label[n] = "normalize" /\ status[n] = "success" =>
        \A e \in Endpoint : blob[sourceOf[n]][e] <= lake[e]

\* The successful attempt's run is the one normalize consumes: a job's
\* normalizer reads the run its own retry loop printed.
ConsumesOwnRun ==
    \A j \in Job : pc[j] \in {"upsert", "nsucceed", "nraise"} =>
        sourceOf[cur[j]] = out[j]

\* A finished run is final: neither its status, its partial list nor its
\* blobs change once it is success or failed.
FinishedIsFinal ==
    [][\A r \in RunId : status[r] \in {"success", "failed"} =>
          /\ status'[r] = status[r]
          /\ partial'[r] = partial[r]
          /\ blob'[r] = blob[r]]_vars

\* While one job runs at a time, no lake row ever goes back to an older payload.
NoRegress == [][\A e \in Endpoint : lake[e] <= lake'[e]]_vars

\* Every job that starts ends, whatever fails in it.
JobEnds == \A j \in Job : pc[j] \in Live ~> pc[j] \in Ended

\* The pipeline implements LakePublication: nothing but a whole successful
\* run ever reaches the lake, in one step, however the processes interleave,
\* fail or die.
PublishedRuns ==
    {[run |-> r, payload |-> blob[r]] :
        r \in {q \in RunId : label[q] = "collect" /\ status[q] = "success"}}

Publication == INSTANCE LakePublication
    WITH published <- PublishedRuns, Runs <- RunId

ImplementsPublication == Publication!Spec
=============================================================================
