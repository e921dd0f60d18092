------------------------------- MODULE Emitters -------------------------------
(***************************************************************************)
(* The signal emitters (experiments.emitters): daily jobs that read a      *)
(* series of the lake, find its events and write them to                   *)
(* meta.signal_events over a trailing window (--since N days ago). Rows    *)
(* land late and are corrected, runs are missed or die, and every emitter  *)
(* has its own idea of how much history it needs to tell an event from the *)
(* rest of an episode.                                                     *)
(*                                                                         *)
(* Data.  One asset, one row a day, abstracted to the class the emitter's  *)
(* detector puts it in; 0 is a day without a row. By emitter:              *)
(*   crypto, equity   1 laggard, 2 neutral, 3 leader                       *)
(*   scoring          1 <= ENTER_BEARISH, 2 <= EXIT_BEARISH, 3 between,    *)
(*                    4 >= EXIT_BULLISH, 5 >= ENTER_BULLISH                *)
(*   tvl              1 calm, 2 under stress                               *)
(*   macro            the regime                                           *)
(*   insider          who traded: reporter 1, reporter 2, 3 both           *)
(*   crowding         the number of holders, a day being a period          *)
(*   filings          the 8-K items 1, 2, 3 both, 4 item 1 after the close *)
(*   anomaly          1 an ordinary return, 2 an outlier                   *)
(***************************************************************************)
EXTENDS Naturals, FiniteSets

CONSTANTS
    Emitter,         \* the emitters looked at
    LastDay,         \* bound: days
    Late,            \* days after its own that a row may still land or change
    Slack,           \* days that may pass between two complete runs, less one
    Lookback,        \* BOUNDARY_LOOKBACK_DAYS of the macro emitter
    Span,            \* window_days of a cluster of insiders
    Lag              \* FORM_13F_FILING_LAG_DAYS

VARIABLES
    emitter,
    today,
    rows,      \* day -> its class, 0 if there is no row
    peer,      \* of the equity emitter: the benchmark the watchlist's sector picks
    flags,     \* meta.anomalies: the flagged days
    events,    \* meta.signal_events of the emitter
    ran,       \* the day of the last complete run
    first,     \* the first day the runs have covered
    dirty,     \* what has changed since: "rows", "flags" or "none"
    owed       \* every event the rows of some run ever gave

emittersVars == <<emitter, today, rows, peer, flags, events, ran, first, dirty, owed>>

\* The anomaly detector stops at yesterday: give its rows a day more to change.
Lateness == IF emitter = "anomaly" THEN Late + 1 ELSE Late

\* The windows of the workflows are longer than what they must absorb.
Window == Lateness + Slack + (IF emitter = "insider" THEN Span ELSE 0)

Class ==
    [crypto |-> 1..3, equity |-> 1..3, scoring |-> {1, 2, 4, 5}, tvl |-> 1..2, macro |-> 1..2,
     insider |-> 1..3, crowding |-> 1..3, filings |-> 1..4, anomaly |-> 1..2]

Day == 1..LastDay

\* Bound: a day less for the emitters with the most states.
Days == IF emitter \in {"equity", "scoring", "filings"} THEN LastDay - 1 ELSE LastDay

Since == IF today > Window THEN today - Window ELSE 1

Init ==
    /\ emitter \in Emitter
    /\ today = 0 /\ rows = [d \in Day |-> 0] /\ peer = "SPY"
    /\ flags = {} /\ events = {} /\ ran = 0 /\ first = 0 /\ dirty = "none" /\ owed = {}

-----------------------------------------------------------------------------
\* What each emitter finds in the rows from lo on.

Present(lo) == {d \in lo..today : rows[d] # 0}

Latest(S) == CHOOSE d \in S : \A e \in S : e <= d

Before(d, lo) == {p \in Present(lo) : p < d}

Prior(d, lo) == Latest(Before(d, lo))

\* ref tells events of one kind and day apart, as source_ref does.
Event(d, kind, ref, strength) == [ts |-> d, kind |-> kind, ref |-> ref, strength |-> strength]

\* The class against the peer: measured by QQQ, a neutral day lags.
State(d) == IF peer = "QQQ" /\ rows[d] = 2 THEN 1 ELSE rows[d]

Crossings(lo) ==
    {Event(d, State(d), peer, 1) :
        d \in {d \in Present(lo) : /\ State(d) # 2
                                   /\ Before(d, lo) # {} => State(Prior(d, lo)) # State(d)}}

\* The band after each day; a band once entered is left at its exit threshold.
NextBand(band, score) ==
    IF score = 5 \/ (band = "bull" /\ score >= 4) THEN "bull"
    ELSE IF score = 1 \/ (band = "bear" /\ score <= 2) THEN "bear" ELSE "neutral"

Bands(lo) ==
    LET band[d \in 0..today] ==
            IF d < lo THEN "neutral"
            ELSE IF rows[d] = 0 THEN band[d - 1] ELSE NextBand(band[d - 1], rows[d])
    IN  {Event(d, band[d], "", 1) :
            d \in {d \in Present(lo) : Before(d, lo) # {} /\ band[d] # "neutral" /\ band[d] # band[d - 1]}}

Onsets(lo) == {d \in Present(lo) : rows[d] = 2 /\ (Before(d, lo) # {} => rows[Prior(d, lo)] # 2)}

\* An episode's first day, and the latest day of one that goes on.
Episodes(lo) ==
    LET P == Present(lo)
        current == {d \in P : d = Latest(P) /\ rows[d] = 2 /\ d \notin Onsets(lo)}
    IN  {Event(d, "stress", d, 1) : d \in Onsets(lo)}
        \cup {Event(d, "stress", Latest(Onsets(lo)), 1) : d \in current}

Transitions(lo) ==
    {Event(d, rows[d], "", 1) :
        d \in {d \in Present(lo) : Before(d, lo) # {} /\ rows[Prior(d, lo)] # rows[d]}}

Reporters(D) == UNION {IF rows[d] = 3 THEN {1, 2} ELSE {rows[d]} : d \in D}

\* detect_clusters: greedy from the first transaction given, past each cluster.
Clusters(lo) ==
    LET window(d) == {e \in Present(lo) : d <= e /\ e <= d + Span}
        scan[n \in 0..today] ==      \* n days are left
            LET d == today + 1 - n
                w == window(d)
            IN  IF n = 0 THEN {}
                ELSE IF rows[d] # 0 /\ Cardinality(Reporters(w)) >= 2
                     THEN {Event(Latest(w), "cluster", d, Cardinality(Reporters(w)))} \cup scan[today - Latest(w)]
                     ELSE scan[n - 1]
        past == IF lo > today THEN 0 ELSE today + 1 - lo
    \* The stored key holds the window's end only.
    IN  {[c EXCEPT !.ref = ""] : c \in scan[past]}

Crowding(lo) ==
    LET mature == {d \in Present(lo) : d + Lag <= today /\ Before(d, lo) # {}}
        more   == {d \in mature : rows[d] > rows[Prior(d, lo)]}
        less   == {d \in mature : rows[d] < rows[Prior(d, lo)]}
    IN  {Event(d, "add", "", rows[d] - rows[Prior(d, lo)]) : d \in more}
        \cup {Event(d, "jump", "", 2) : d \in {d \in more : rows[d] - rows[Prior(d, lo)] >= 2}}
        \cup {Event(d, "exit", "", rows[Prior(d, lo)] - rows[d]) : d \in less}

\* A filing accepted after the close belongs to the next trading day.
Filings(lo) ==
    {Event(p[1] + (IF rows[p[1]] = 4 THEN 1 ELSE 0), p[2], p[1], 1) :
        p \in {p \in Present(lo) \X {1, 2} : p[2] \in (IF rows[p[1]] = 3 THEN {1, 2}
                                                       ELSE IF rows[p[1]] = 2 THEN {2} ELSE {1})}}

\* Returns start at the second row; an outlier is told by the ones before it.
Outliers(lo) == {d \in Present(lo) : rows[d] = 2 /\ Before(d, lo) # {}}

Signals(F) == {Event(d, "anomaly", "", 1) : d \in F}

-----------------------------------------------------------------------------
\* The world.

\* The regime view has no gap longer than its lookback once it has begun.
NoGap(r, last) ==
    \A d \in 1..last : (\E p \in 1..(d - 1) : r[p] # 0) => \E p \in 1..(d - 1) : r[p] # 0 /\ p + Lookback >= d

\* A day passes: its row lands, or one of the last days' lands late or is corrected.
NextDay ==
    /\ today < Days
    /\ first = 0 \/ today - ran <= Slack
    /\ today' = today + 1
    /\ \E f \in [{d \in Day : d <= today + 1 /\ d + Lateness >= today + 1} -> Class[emitter] \cup {0}] :
          /\ \A d \in DOMAIN f : rows[d] # 0 => f[d] # 0
          /\ rows' = [d \in Day |-> IF d \in DOMAIN f THEN f[d] ELSE rows[d]]
          /\ emitter = "macro" => NoGap(rows', today + 1)
    /\ dirty' = IF rows' = rows /\ emitter # "anomaly" THEN dirty ELSE "rows"
    /\ UNCHANGED <<emitter, peer, flags, events, ran, first, owed>>

\* (What the detector reads through yesterday is new every day.)

\* The watchlist moves a stock to a sector that QQQ measures.
Reclassify ==
    /\ emitter = "equity" /\ peer = "SPY"
    /\ peer' = "QQQ" /\ dirty' = "rows" /\ first' = 0
    /\ UNCHANGED <<emitter, today, rows, flags, events, ran, owed>>

-----------------------------------------------------------------------------
\* The runs.

From(n) == IF Since > n THEN Since - n ELSE 1

\* What an emitter finds, the history of some beginning at a day of their own.
Gives(episodesFrom, regimesFrom, tradesFrom) ==
    CASE emitter \in {"crypto", "equity"} -> Crossings(1)
      [] emitter = "scoring"  -> Bands(1)
      [] emitter = "tvl"      -> Episodes(episodesFrom)
      [] emitter = "macro"    -> Transitions(regimesFrom)
      [] emitter = "insider"  -> Clusters(tradesFrom)
      [] emitter = "crowding" -> Crowding(1)
      [] emitter = "filings"  -> Filings(1)
      [] OTHER                -> Signals(Outliers(1) \ {today})

\* Fault: the previous regime is looked for inside the window only.
FoundWithin == Gives(1, Since, Since)

\* Regimes are loaded from a lookback before the window, transactions from the
\* window on, everything else from the start.
Found == Gives(1, From(Lookback), Since)

\* The events of the whole history.
Batch == Gives(1, 1, 1)

Key(e) == <<e.ts, e.kind, e.ref>>

\* emit_signals_bulk: insert, or update in place.
Upserted(new) == {e \in events : \A n \in new : Key(n) # Key(e)} \cup new

InWindow(E) == {e \in E : e.ts >= Since}

Ran ==
    /\ ran' = today
    /\ first' = IF first = 0 THEN Since ELSE first

Emit ==
    /\ today > 0 /\ emitter # "anomaly"
    /\ events' = {e \in Upserted(InWindow(Found)) : emitter = "equity" /\ peer = "QQQ" => e.ref # "SPY"}
    /\ owed' = owed \cup Batch
    /\ dirty' = "none" /\ Ran
    /\ UNCHANGED <<emitter, today, rows, peer, flags>>

\* The superseded events are deleted in a transaction of its own: a run may die
\* before it.
EquityDies ==
    /\ today > 0 /\ emitter = "equity" /\ peer = "QQQ"
    /\ events' = Upserted(InWindow(Found))
    /\ owed' = owed \cup Batch
    /\ UNCHANGED <<emitter, today, rows, peer, flags, ran, first, dirty>>

\* Fault: the window's flags are added to, none is taken back.
DetectAdds ==
    /\ today > 0 /\ emitter = "anomaly"
    /\ flags' = flags \cup {d \in Outliers(1) : Since <= d /\ d < today}
    /\ dirty' = IF dirty = "rows" THEN "flags" ELSE dirty
    /\ UNCHANGED <<emitter, today, rows, peer, events, ran, first, owed>>

\* run_anomaly_detection, through yesterday: the flags between the window's first
\* and last return are deleted and written anew, in one transaction.
Detect ==
    /\ today > 0 /\ emitter = "anomaly"
    /\ LET returns == {d \in Present(1) : Before(d, 1) # {} /\ Since <= d /\ d < today}
           stale   == {f \in flags : \E a, b \in returns : a <= f /\ f <= b}
       IN  flags' = (flags \ stale) \cup (Outliers(1) \cap returns)
    /\ dirty' = IF dirty = "rows" THEN "flags" ELSE dirty
    /\ UNCHANGED <<emitter, today, rows, peer, events, ran, first, owed>>

\* emit_return_anomaly_signals: the window's events are replaced by its flags. The
\* workflow runs it after the detector, on the same day.
Project ==
    /\ today > 0 /\ emitter = "anomaly" /\ dirty # "rows"
    /\ events' = {e \in events : e.ts < Since \/ e.ts >= today}
                 \cup Signals({f \in flags : Since <= f /\ f < today})
    /\ owed' = owed \cup Batch
    /\ dirty' = "none" /\ Ran
    /\ UNCHANGED <<emitter, today, rows, peer, flags>>

Next == NextDay \/ Reclassify \/ Emit \/ EquityDies \/ Detect \/ Project

Spec == Init /\ [][Next]_emittersVars

-----------------------------------------------------------------------------
Fresh == ran = today /\ dirty = "none" /\ first # 0

\* Where two insiders traded within Span of each other, the runs having covered
\* both days, a stored cluster ends no later than Span after the first of them.
PairsAreCovered ==
    \A a, b \in Present(first) :
        a <= b /\ b - a <= Span /\ Cardinality(Reporters({a, b})) = 2
            => \E e \in events : a <= e.ts /\ e.ts <= a + Span

\* Jobs that see a trailing window, skip days and meet late and corrected rows
\* end up with the events one pass over the whole history finds.
NothingIsForgotten ==
    IF emitter = "insider" THEN PairsAreCovered ELSE {e \in Batch : e.ts >= first} \subseteq events

\* No event is stored that the history never gave: cutting it off at the window
\* makes no episode of what is the middle of one.
NothingIsInvented == emitter # "insider" => events \subseteq owed

\* Flags and their signals follow corrections both ways; a stock measured by QQQ
\* keeps no event against SPY.
ReplacedIsGone ==
    /\ emitter = "anomaly" => InWindow(events) = InWindow(Batch)
    /\ emitter = "equity" /\ peer = "QQQ" => \A e \in events : e.ref = "QQQ"

EventsAreOwed == NothingIsInvented /\ (Fresh => NothingIsForgotten /\ ReplacedIsGone)

\* sec-daily.yml: a run over transactions that have not changed changes no
\* cluster's event, and adds none, however far the window has moved.
RerunIsNoOp == [][Emit /\ dirty = "none" => events' = events]_emittersVars
=============================================================================
