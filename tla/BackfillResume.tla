---------------------------- MODULE BackfillResume ----------------------------
(***************************************************************************)
(* The DefiLlama historical backfill: for every URL a run takes a blob     *)
(* fetched within the resume window, by whatever run, or asks the server;  *)
(* a run that dies or misses URLs is started again, and its normalizer     *)
(* reads the blobs of one run.                                             *)
(*                                                                         *)
(* Data.  A payload is the day it was really fetched (real); the blob's    *)
(* fetched_at column is its stamp.                                         *)
(***************************************************************************)
EXTENDS Naturals, FiniteSets

CONSTANTS
    Url,
    ResumeWindow,   \* RESUME_WINDOW, days
    Keep,           \* days the retention job keeps a blob
    LastDay,        \* bound: days
    LastRun         \* bound: backfill runs

VARIABLES
    today,
    rawBlobs,   \* meta.raw_blobs: run, url, real, stamp; run 0 is the daily collector's
    runNo,      \* the latest backfill run
    reachedOn,  \* the day it got to each URL, 0 before
    missed,     \* its failures
    status      \* runs that succeeded

resumeVars == <<today, rawBlobs, runNo, reachedOn, missed, status>>

Init ==
    /\ today = 1 /\ rawBlobs = {} /\ runNo = 0 /\ missed = {} /\ status = {}
    /\ reachedOn = [u \in Url |-> 0]

NextDay ==
    /\ today < LastDay
    /\ today' = today + 1
    /\ UNCHANGED <<rawBlobs, runNo, reachedOn, missed, status>>

Blob(run, u, real, stamp) == [run |-> run, url |-> u, real |-> real, stamp |-> stamp]

\* The daily collector asks for some of the same URLs.
DailyBlob(u) ==
    /\ rawBlobs' = rawBlobs \cup {Blob(0, u, today, today)}
    /\ UNCHANGED <<today, runNo, reachedOn, missed, status>>

\* meta.delete_old_raw_blobs, daily.
Retention ==
    /\ \E b \in rawBlobs : b.stamp + Keep < today
    /\ rawBlobs' = {b \in rawBlobs : b.stamp + Keep >= today}
    /\ UNCHANGED <<today, runNo, reachedOn, missed, status>>

\* backfill begins: all prices, protocols and stablecoins; a run in the middle
\* is one that died.
Start ==
    /\ runNo < LastRun
    /\ runNo' = runNo + 1 /\ missed' = {}
    /\ reachedOn' = [u \in Url |-> 0]
    /\ UNCHANGED <<today, rawBlobs, status>>

\* _cached_blob: the newest blob of the URL inside the window, whatever run or
\* endpoint it belongs to.
CachedBlob(u) ==
    {b \in rawBlobs : /\ b.url = u /\ b.stamp + ResumeWindow >= today
                      /\ \A c \in rawBlobs : c.url = u => c.stamp <= b.stamp}

\* Fault: a reused payload is stamped with the time of the copy.
CopyRawBlobStampsNow(u, b) == Blob(runNo, u, b.real, today)

\* Fault: what is already in the lake is not linked to the run.
CopyRawBlobNot(u, b) == b

\* copy_raw_blob_for_run.
CopyRawBlob(u, b) == Blob(runNo, u, b.real, b.stamp)

\* _fetch_with_resume.
FetchWithResume(u) ==
    /\ runNo # 0 /\ reachedOn[u] = 0
    /\ reachedOn' = [reachedOn EXCEPT ![u] = today]
    /\ IF CachedBlob(u) # {}
       THEN \E b \in CachedBlob(u) : rawBlobs' = rawBlobs \cup {CopyRawBlob(u, b)} /\ UNCHANGED missed
       ELSE \/ rawBlobs' = rawBlobs \cup {Blob(runNo, u, today, today)} /\ UNCHANGED missed
            \/ missed' = missed \cup {u} /\ UNCHANGED rawBlobs
    /\ UNCHANGED <<today, runNo, status>>

\* backfill ends: failures are named and do not fail the run.
Finish ==
    /\ runNo # 0 /\ (\A u \in Url : reachedOn[u] # 0) /\ runNo \notin status
    /\ status' = status \cup {runNo}
    /\ UNCHANGED <<today, rawBlobs, runNo, reachedOn, missed>>

Of(run) == {b \in rawBlobs : b.run = run}

\* latest_backfill_run_id and fetch_raw_blobs: what normalize_backfill reads.
NormalizerReads == {b \in rawBlobs : b.run \in status /\ \A q \in status : q <= b.run}

Next ==
    \/ NextDay \/ Retention \/ Start \/ Finish
    \/ \E u \in Url : DailyBlob(u) \/ FetchWithResume(u)

Spec == Init /\ [][Next]_resumeVars

-----------------------------------------------------------------------------
\* However many runs resume from one another, a normalizer that comes before
\* the retention job could have taken a reused blob finds, in the latest run
\* that succeeded, a payload for every URL the run did not name as missed; and
\* every payload says truly when it was fetched (defillama.py: "keeps the
\* original fetch timestamp for provenance"), so none is older than the window
\* when a run takes it, however often it was taken before.
ResumeIsWholeAndTrue ==
    /\ \A b \in rawBlobs : b.stamp = b.real
    /\ runNo \in status =>
          \A u \in Url \ missed : today <= reachedOn[u] + Keep - ResumeWindow =>
              \E b \in NormalizerReads : b.url = u
=============================================================================
