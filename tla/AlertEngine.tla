------------------------------ MODULE AlertEngine ------------------------------
(***************************************************************************)
(* experiments.alert_engine for one asset: the daily workflow's runs read  *)
(* meta.signal_events over a trailing window, correlate, insert alerts     *)
(* under a unique fingerprint, post the unnotified ones to the webhook in  *)
(* batches and stamp what was delivered.  The emitters keep writing        *)
(* events, late ones and corrections included.                             *)
(***************************************************************************)
EXTENDS Correlator

CONSTANTS
    Rule,         \* correlation rule name -> its record (see Correlator)
    Pager,        \* alert rule name -> [minScore, minSources, match (rule names)]
    Event,        \* events the emitters may write
    Runner,       \* engine processes
    Lookback,     \* days --since reaches back
    BatchSize,    \* alerts that fit one webhook message
    MaxAttempts,  \* retry.sh
    MaxDay        \* bound: last day

ASSUME BoundsAreNat ==
    /\ Lookback \in Nat \ {0} /\ BatchSize \in Nat \ {0} /\ MaxAttempts \in Nat \ {0}
    /\ MaxDay \in Nat
ASSUME EventsAreDated ==
    /\ IsFiniteSet(Event) /\ \A e \in Event : e.ts \in Nat
    /\ \A k \in DOMAIN Rule : Rule[k].window \in Nat

Day == 0..MaxDay

\* An alert is its fingerprint: alert rule, correlation rule, day of window_end.
Alert == (DOMAIN Pager) \X (DOMAIN Rule) \X Day

VARIABLES
    today,
    events,      \* meta.signal_events
    open,        \* rows of meta.alerts whose notified_at is NULL
    notified,    \* the others
    paged,       \* alerts that have reached the channel
    calm,        \* FALSE: processes die, calls fail
    pc,
    attempt,     \* retry.sh's counter
    day,         \* the day the workflow computed --since and --until on
    read,        \* events in hand
    queue,       \* alerts still to post
    delivered    \* alerts a successful POST included

run   == <<attempt, day, read, queue, delivered>>
alerts == <<open, notified>>
store == <<events, alerts, paged>>
vars  == <<today, store, calm, pc, run>>

PC == {"idle", "read", "persist", "query", "post", "mark", "failed"}

TypeOK ==
    /\ today     \in Day
    /\ events    \in SUBSET Event
    /\ open      \in SUBSET Alert
    /\ notified  \in SUBSET Alert
    /\ paged     \in SUBSET Alert
    /\ calm      \in BOOLEAN
    /\ pc        \in [Runner -> PC]
    /\ attempt   \in [Runner -> 0..MaxAttempts]
    /\ day       \in [Runner -> Day]
    /\ read      \in [Runner -> SUBSET Event]
    /\ queue     \in [Runner -> SUBSET Alert]
    /\ delivered \in [Runner -> SUBSET Alert]

Init ==
    /\ today = 0 /\ events = {} /\ open = {} /\ notified = {} /\ paged = {} /\ calm = FALSE
    /\ pc        = [r \in Runner |-> "idle"]
    /\ attempt   = [r \in Runner |-> 0]
    /\ day       = [r \in Runner |-> 0]
    /\ read      = [r \in Runner |-> {}]
    /\ queue     = [r \in Runner |-> {}]
    /\ delivered = [r \in Runner |-> {}]

-----------------------------------------------------------------------------
Goto(r, s) == pc' = [pc EXCEPT ![r] = s]
At(r, s)   == pc[r] = s

\* A process ends: its locals go, retry.sh's arguments and counter stay.
Drop(r) ==
    /\ read'      = [read      EXCEPT ![r] = {}]
    /\ queue'     = [queue     EXCEPT ![r] = {}]
    /\ delivered' = [delivered EXCEPT ![r] = {}]

Fail(r) == Goto(r, "failed") /\ Drop(r) /\ UNCHANGED <<attempt, day>>

End(r) ==
    /\ Goto(r, "idle") /\ Drop(r)
    /\ attempt' = [attempt EXCEPT ![r] = 0]
    /\ day'     = [day     EXCEPT ![r] = 0]

\* --since and --until: Lookback days ago to the end of yesterday.
InWindow(d, r) == day[r] <= d + Lookback /\ d + 1 <= day[r]

NextDay ==
    /\ today < MaxDay
    /\ today' = today + 1
    /\ UNCHANGED <<store, calm, pc, run>>

\* emit_signals_bulk: an upsert on (ts, source, ref).  An event may come late,
\* come again with another strength, or turn and leave the rule's direction.
SameKey(e) == {f \in events : f.ts = e.ts /\ f.source = e.source /\ f.ref = e.ref}

Emit(e) ==
    /\ e.ts <= today
    /\ \/ events' = (events \ SameKey(e)) \cup {e}
       \/ events' = events \ SameKey(e)
    /\ UNCHANGED <<today, alerts, paged, calm, pc, run>>

\* Faults begin or stop.
Weather == calm' = ~calm /\ UNCHANGED <<today, store, pc, run>>

Start(r) ==
    /\ At(r, "idle")
    /\ Goto(r, "read")
    /\ attempt' = [attempt EXCEPT ![r] = 1]
    /\ day'     = [day     EXCEPT ![r] = today]
    /\ UNCHANGED <<today, store, calm, read, queue, delivered>>

\* query_events.
Read(r) ==
    /\ At(r, "read")
    /\ read' = [read EXCEPT ![r] = {e \in events : InWindow(e.ts, r)}]
    /\ Goto(r, "persist")
    /\ UNCHANGED <<today, store, calm, attempt, day, queue, delivered>>

-----------------------------------------------------------------------------
\* _stack_matches.
Matches(s, k, p) ==
    /\ k \in Pager[p].match
    /\ s.score >= Pager[p].minScore
    /\ s.sources >= Pager[p].minSources

\* detect_stacks for every set of events a run may read.
Stacks == [k \in DOMAIN Rule |-> [E \in SUBSET Event |-> Scan(E, Rule[k])]]

\* Fault: the floor of the alert rule is not applied.
CandidatesUnfiltered(E) ==
    UNION {{<<p, k, s.end>> : s \in Stacks[k][E]} : p \in DOMAIN Pager, k \in DOMAIN Rule}

\* evaluate_alerts and _fingerprint.
Candidates(E) ==
    UNION {{<<p, k, s.end>> : s \in {x \in Stacks[k][E] : Matches(x, k, p)}} :
              p \in DOMAIN Pager, k \in DOMAIN Rule}

\* persist_alerts: INSERT ... ON CONFLICT (fingerprint) DO NOTHING, one commit.
Insert(r) ==
    /\ open' = open \cup (Candidates(read[r]) \ notified)
    /\ UNCHANGED notified

Persist(r) ==
    /\ At(r, "persist")
    /\ Insert(r)
    /\ read' = [read EXCEPT ![r] = {}]
    /\ Goto(r, "query")
    /\ UNCHANGED <<today, events, paged, calm, attempt, day, queue, delivered>>

\* Faults: rows already stamped are posted as well; only yesterday's are posted.
QueryAll(r) ==
    /\ At(r, "query")
    /\ LET due == {a \in open \cup notified : InWindow(a[3], r)} IN
         IF due = {} THEN End(r)
         ELSE /\ queue' = [queue EXCEPT ![r] = due]
              /\ Goto(r, "post")
              /\ UNCHANGED <<attempt, day, read, delivered>>
    /\ UNCHANGED <<today, store, calm>>
QueryNew(r) ==
    /\ At(r, "query")
    /\ LET due == {a \in open : a[3] + 1 = day[r]} IN
         IF due = {} THEN End(r)
         ELSE /\ queue' = [queue EXCEPT ![r] = due]
              /\ Goto(r, "post")
              /\ UNCHANGED <<attempt, day, read, delivered>>
    /\ UNCHANGED <<today, store, calm>>

\* query_alerts(status="open", notified=False) over the run's own window.
Query(r) ==
    /\ At(r, "query")
    /\ LET due == {a \in open : InWindow(a[3], r)} IN
         IF due = {} THEN End(r)
         ELSE /\ queue' = [queue EXCEPT ![r] = due]
              /\ Goto(r, "post")
              /\ UNCHANGED <<attempt, day, read, delivered>>
    /\ UNCHANGED <<today, store, calm>>

\* A batch: the latest alerts still queued, as many as a message holds.
IsBatch(B, Q) ==
    /\ B \subseteq Q
    /\ Cardinality(B) = (IF Cardinality(Q) < BatchSize THEN Cardinality(Q) ELSE BatchSize)
    /\ \A a \in B, b \in Q \ B : a[3] >= b[3]

Reach(B) == paged' = paged \cup B

\* A 2xx answer.
Post(r) ==
    /\ At(r, "post")
    /\ \E B \in SUBSET queue[r] :
         /\ IsBatch(B, queue[r])
         /\ Reach(B)
         /\ queue'     = [queue     EXCEPT ![r] = @ \ B]
         /\ delivered' = [delivered EXCEPT ![r] = @ \cup B]
         /\ Goto(r, IF B = queue[r] THEN "mark" ELSE "post")
    /\ UNCHANGED <<today, events, alerts, calm, attempt, day, read>>

\* Fault: a failed POST counts its batch as delivered.
PostRefusedCounted(r) ==
    /\ At(r, "post") /\ ~calm
    /\ \E B \in SUBSET queue[r] :
         /\ IsBatch(B, queue[r])
         /\ UNCHANGED paged \/ Reach(B)
         /\ delivered' = [delivered EXCEPT ![r] = @ \cup B]
         /\ queue' = [queue EXCEPT ![r] = {}]
         /\ Goto(r, "mark")
    /\ UNCHANGED <<today, events, alerts, calm, attempt, day, read>>

\* A URLError or another status: the batch may have reached the channel, it is
\* not counted as delivered, and the batches after it are not posted.
PostRefused(r) ==
    /\ At(r, "post") /\ ~calm
    /\ \E B \in SUBSET queue[r] : IsBatch(B, queue[r]) /\ (UNCHANGED paged \/ Reach(B))
    /\ IF delivered[r] = {}
       THEN End(r)
       ELSE /\ queue' = [queue EXCEPT ![r] = {}]
            /\ Goto(r, "mark")
            /\ UNCHANGED <<attempt, day, read, delivered>>
    /\ UNCHANGED <<today, events, alerts, calm>>

\* Reading the answer fails: urllib raises TimeoutError or RemoteDisconnected
\* as they are, nothing catches them, and what was delivered is forgotten.
PostRaises(r) ==
    /\ At(r, "post") /\ ~calm
    /\ \E B \in SUBSET queue[r] : IsBatch(B, queue[r]) /\ (UNCHANGED paged \/ Reach(B))
    /\ Fail(r)
    /\ UNCHANGED <<today, events, alerts, calm>>

Stamp(r) ==
    /\ notified' = notified \cup (delivered[r] \cap open)
    /\ open' = open \ delivered[r]

\* mark_notified.
Mark(r) ==
    /\ At(r, "mark")
    /\ Stamp(r)
    /\ End(r)
    /\ UNCHANGED <<today, events, paged, calm>>

\* A database call raises, its transaction rolled back, or committed and the
\* answer lost: the run fails.
DatabaseError(r) ==
    /\ pc[r] \in {"read", "persist", "query", "mark"} /\ ~calm
    /\ \/ UNCHANGED alerts
       \/ At(r, "persist") /\ Insert(r)
       \/ At(r, "mark") /\ Stamp(r)
    /\ Fail(r)
    /\ UNCHANGED <<today, events, paged, calm>>

\* retry.sh: again with the same arguments, or give up.
Again(r) ==
    /\ At(r, "failed")
    /\ IF attempt[r] < MaxAttempts
       THEN /\ attempt' = [attempt EXCEPT ![r] = @ + 1]
            /\ Goto(r, "read")
            /\ UNCHANGED <<day, read, queue, delivered>>
       ELSE End(r)
    /\ UNCHANGED <<today, store, calm>>

\* cancel-in-progress, timeout-minutes, a lost runner.
Kill(r) ==
    /\ pc[r] # "idle" /\ ~calm
    /\ End(r)
    /\ UNCHANGED <<today, store, calm>>

-----------------------------------------------------------------------------
Step(r) ==
    \/ Start(r) \/ Read(r) \/ Persist(r) \/ Query(r)
    \/ Post(r) \/ PostRefused(r) \/ PostRaises(r)
    \/ Mark(r) \/ DatabaseError(r) \/ Again(r)

Next ==
    \/ NextDay \/ Weather
    \/ \E e \in Event : Emit(e)
    \/ \E r \in Runner : Step(r) \/ Kill(r)

Spec == Init /\ [][Next]_vars

\* Every run ends (retry.sh counts, urlopen and the job have timeouts) and the
\* schedule comes round again.
FairSpec == Spec /\ \A r \in Runner : []<>At(r, "idle") /\ []<>At(r, "read")

-----------------------------------------------------------------------------
\* No stack goes missing and none is made up, whatever events are stored
\* (detect_stacks against Covers, Apart and Real).
StacksAreRight ==
    \A k \in DOMAIN Rule :
        LET S == Stacks[k][events] IN
        /\ Covers(events, S, Rule[k])
        /\ Apart(S, Rule[k])
        /\ \A s \in S : Real(events, s, Rule[k])

\* notified_at is stamped only on an alert that reached the channel
\* (post_alert_batches returns the delivered rows).
NotifiedWasPaged == notified \subseteq paged

\* "notified_at IS NULL guards against double-notifying": with one engine at a
\* time, an alert already stamped is never in the queue being posted.
NeverRepaged == \A r \in Runner : queue[r] \cap notified = {}

\* A new alert has a cause in the events its run read: events within the rule's
\* window, the last on the alert's day, that clear both rules' floors.
NewAlertHasCause ==
    [][\A a \in open' \ (open \cup notified) :
          \E r \in Runner : \E W \in SUBSET read[r] :
              LET k == Rule[a[2]] IN
              /\ W # {} /\ Max(Days(W)) = a[3] /\ a[3] <= Min(Days(W)) + k.window
              /\ Qualifies(W, k)
              /\ Score(W, k) >= Pager[a[1]].minScore
              /\ Sources(W) >= Pager[a[1]].minSources]_vars

\* An alert whose delivery failed is not lost: once faults stop, the engine
\* catches up, and no alert the lookback reaches stays open.
CaughtUp == \A a \in open : a[3] + Lookback < today
AlertsGetThrough == <>[]calm => []<>CaughtUp

\* alert_notify.py: a POST that fails "never raises", "the caller treats a
\* failed ping as non-fatal": posting does not fail the run.
FailedPingIsNotFatal == [][\A r \in Runner : At(r, "post") => pc'[r] # "failed"]_vars
=============================================================================
