-------------------------------- MODULE Studies --------------------------------
(***************************************************************************)
(* The research over stored series: the event study of 8-K filings, the    *)
(* backtest and the benchmark column of signal stacks, the TVL classifier, *)
(* relative strength, anomalies, news sentiment, protocol valuation. Each  *)
(* reads a series at dates it counts out from an event or a row, and most  *)
(* load only the stretch of the series they think they need.               *)
(*                                                                         *)
(* Data.  A statistic is modelled by the days whose rows it is computed    *)
(* from; a series by the days that have a row. Day 1 is a Monday; weekends *)
(* and Holiday have no trading, and no equity row.                         *)
(***************************************************************************)
EXTENDS Naturals, FiniteSets, FiniteSetsExt

CONSTANTS
    LastDay,    \* bound: days
    Holiday,    \* weekdays the exchange is closed
    MaxGap,     \* bound: the longest stretch between two rows
    Back,       \* the studies' windows reach back so far ...
    Ahead,      \* ... and ahead so far
    Cushion,    \* BOUNDARY_CUSHION_DAYS, PRICE_LOAD_LOOKBACK_DAYS, PRICE_LOAD_CUSHION_DAYS
    Sampling    \* BASELINE_SAMPLE_STEP_DAYS

VARIABLES
    today,
    series      \* the days with a row

studiesVars == <<today, series>>

None == {}

Init == today = 0 /\ series = {}

Weekday(d) == (d - 1) % 7 < 5

\* _is_trading_day
TradingDay(d) == Weekday(d) /\ d \notin Holiday

\* The day passes with a row or without: trading days and others may lack one.
NextDay(row) ==
    /\ today < LastDay
    /\ ~row /\ series # {} => today + 1 - Max(series) < MaxGap
    /\ today' = today + 1
    /\ series' = IF row THEN series \cup {today + 1} ELSE series

Next == \E row \in BOOLEAN : NextDay(row)

Spec == Init /\ [][Next]_studiesVars

-----------------------------------------------------------------------------
\* Looking rows up: 0 is none.

\* _price_at_or_before, row_at_or_before: bisect_right less one.
AtOrBefore(rows, d) == Max({0} \cup {r \in rows : r <= d})

\* _price_at_or_after: bisect_left.
AtOrAfter(rows, d) == LET later == {r \in rows : r >= d} IN IF later = {} THEN 0 ELSE Min(later)

Between(rows, a, b) == {r \in rows : a <= r /\ r <= b}

\* Days before an offset back from d; days are numbers from 1.
Ago(d, n) == IF d > n THEN d - n ELSE 0

Return(a, b) == IF a = 0 \/ b = 0 THEN None ELSE {a, b}

-----------------------------------------------------------------------------
\* The event study.

NextTradingDay(d) == CHOOSE t \in d..(d + 7) : TradingDay(t) /\ \A s \in d..(t - 1) : ~TradingDay(s)

\* _event_anchor_date: a filing after the close is the next day's.
Anchor(filed, afterClose) == NextTradingDay(IF afterClose THEN filed + 1 ELSE filed)

Windows == {[kind |-> "pre", lo |-> Back, hi |-> 1], [kind |-> "same", lo |-> 1, hi |-> 0],
            [kind |-> "post", lo |-> 0, hi |-> 1], [kind |-> "post", lo |-> 0, hi |-> Ahead]}

\* Fault: the close before the end of a window, also after the event.
WindowedReturnAsOf(rows, event, w) ==
    Return(AtOrBefore(rows, Ago(event, w.lo)),
           AtOrBefore(rows, IF w.kind = "pre" THEN Ago(event, w.hi) ELSE event + w.hi))

\* compute_windowed_returns: from the close on or before the start to the close
\* on or before the end, on or after it if the window ends after the event.
WindowedReturn(rows, event, w) ==
    Return(AtOrBefore(rows, Ago(event, w.lo)),
           IF w.kind = "pre" THEN AtOrBefore(rows, Ago(event, w.hi)) ELSE AtOrAfter(rows, event + w.hi))

\* load_price_series for all the events of a ticker at once.
EventPrices(rows, events) == Between(rows, Ago(Min(events), Back + Cushion), Max(events) + Ahead + Cushion)

\* run_event_study
EventReturn(rows, events, e, w) == WindowedReturn(EventPrices(rows, events), e, w)

-----------------------------------------------------------------------------
\* The backtest of stacks. An event is a day and a source.

AddWeekdays(d, n) ==
    CHOOSE t \in d..(d + 2 * n + 2) : Weekday(t) /\ Cardinality({s \in (d + 1)..t : Weekday(s)}) = n

RollToWeekday(d) == CHOOSE t \in d..(d + 2) : Weekday(t) /\ \A s \in d..(t - 1) : ~Weekday(s)

Source == {"insider_clusters", "crowding", "other"}

Available(day, source) ==
    RollToWeekday(CASE source = "insider_clusters" -> AddWeekdays(day, 2)
                    [] source = "crowding"         -> day + 45
                    [] OTHER                       -> day)

\* _required_availability_lookback_days
AvailabilityLookback == Max({45 + 2, 4})

\* The return of a stack starts where its last event could be known.
StackAnchor(days) == Max({Available(d, "other") : d \in days})

\* _load_asset_prices for all the stacks of an asset at once.
StackPrices(rows, anchors) == Between(rows, Ago(Min(anchors), Cushion), Max(anchors) + Ahead + Cushion)

StackReturn(rows, anchors, anchor) ==
    WindowedReturn(StackPrices(rows, anchors), anchor, [kind |-> "post", lo |-> 0, hi |-> Ahead])

\* compute_baseline: every Sampling days of the prices loaded.
Baseline(rows) ==
    IF rows = {} THEN {}
    ELSE {d \in Min(rows)..Max(rows) :
            /\ (d - Min(rows)) % Sampling = 0
            /\ WindowedReturn(rows, d, [kind |-> "post", lo |-> 0, hi |-> Ahead]) # None}

-----------------------------------------------------------------------------
\* The benchmark and macro columns. A stack is its window, from and to.

\* Fault: the rows from the first start on only.
BenchmarkSeriesFromStart(rows, stacks) ==
    Between(rows, Min({s.from : s \in stacks}), Max({s.to : s \in stacks}))

\* One load for all stacks: between the first start and the last end, and the
\* last row before.
BenchmarkSeries(rows, stacks) ==
    LET since == Min({s.from : s \in stacks})
    IN  {r \in rows : /\ r >= since \/ r = AtOrBefore(rows, since - 1)
                      /\ r <= Max({s.to : s \in stacks})}

\* compute_window_return_pct: nothing for a window without two different rows.
WindowReturn(rows, s) ==
    LET a == AtOrBefore(rows, s.from)
        b == AtOrBefore(rows, s.to)
    IN  IF s.to <= s.from \/ a = 0 \/ b <= a THEN None ELSE {a, b}

StackContext(rows, stacks, s) == WindowReturn(BenchmarkSeries(rows, stacks), s)

\* _context_for: the regime's latest row at the end of the stack.
MacroContext(rows, s) == Return(AtOrBefore(rows, s.to), AtOrBefore(rows, s.to))

-----------------------------------------------------------------------------
\* Features of a day.

\* engineer_features: changes against rows 1 and Back days ago, the peak and the
\* z-score over the stretch since, once the series is that old.
Feature(rows, d) ==
    LET peak == IF AtOrBefore(rows, Ago(d, Back)) = 0 THEN {} ELSE Between(rows, Ago(d, Back), d)
        score == LET w == Between(rows, Ago(d, Back), d) IN IF Cardinality(w) >= 2 THEN w ELSE {}
    IN  [change |-> Return(AtOrBefore(rows, Ago(d, 1)), d), peak |-> peak, score |-> score]

\* Fault: the label of a stretch that is not over.
DrawdownEarly(rows, d) == Between(rows, d + 1, d + Ahead)

\* forward_drawdown_pct: only when the stretch ahead is over.
Drawdown(rows, d) ==
    IF Max(rows) >= d + Ahead /\ Between(rows, d + 1, d + Ahead) # {}
    THEN Between(rows, d + 1, d + Ahead) ELSE None

Evaluable(rows) ==
    {d \in rows : Drawdown(rows, d) # None /\ Feature(rows, d).change # None
                  /\ Feature(rows, d).peak # {} /\ Feature(rows, d).score # {}}

\* run_chain_evaluation: the training days end where their labels do not reach
\* over the split.
Train(rows, split) == {d \in Evaluable(rows) : d <= Ago(split, Ahead)}
Test(rows, split)  == {d \in Evaluable(rows) : d > split}

\* compute_return_pct, of the series up to d.
Strength(rows, d) ==
    LET upTo == {r \in rows : r <= d}
        latest == Max({0} \cup upTo)
    IN  IF latest = 0 THEN None ELSE Return(AtOrBefore(upTo \ {latest}, Ago(latest, Back)), latest)

\* to_returns and detect_anomalies: the score of d against the Back returns before
\* it, of which there must be two.
AnomalyWindow(rows, d) ==
    LET returns == rows \ {Min(rows)}
        before  == {r \in returns : r < d /\ Cardinality({q \in returns : r <= q /\ q < d}) <= Back}
    IN  IF d \in returns /\ Cardinality(before) >= 2 THEN before \cup {d} ELSE None

\* align_sentiment_with_returns: both days must have a close.
Aligned(rows, d) == IF {d, d + 1} \subseteq rows THEN {d, d + 1} ELSE None

\* build_snapshots: the trailing fees of a day with a price.
Snapshot(rows, d) == IF d \in rows THEN Between(rows, Ago(d, Back - 1), d) ELSE None

-----------------------------------------------------------------------------
UpTo(d) == {r \in series : r <= d}

Stays(then, now) == then # None => now = then

LabelsAreFinal ==
    \A d \in 1..today :
        /\ \A e \in 1..(d + 1), w \in Windows :
              Stays(WindowedReturn(UpTo(d), e, w), WindowedReturn(series, e, w))
        /\ \A e \in UpTo(d) : /\ Stays(Drawdown(UpTo(d), e), Drawdown(series, e))
                              /\ Stays(Aligned(UpTo(d), e), Aligned(series, e))
        /\ \A a, b \in 1..d : Stays(WindowReturn(UpTo(d), [from |-> a, to |-> b]),
                                    WindowReturn(series, [from |-> a, to |-> b]))

FeaturesLookBack ==
    \A d \in series : /\ Feature(series, d) = Feature(UpTo(d), d)
                      /\ Strength(series, d) = Strength(UpTo(d), d)
                      /\ AnomalyWindow(series, d) = AnomalyWindow(UpTo(d), d)
                      /\ Snapshot(series, d) = Snapshot(UpTo(d), d)
                      /\ MacroContext(series, [from |-> d, to |-> d]) = MacroContext(UpTo(d), [from |-> d, to |-> d])

TrainingSeesNoTest ==
    \A split \in 1..today : \A d \in Train(series, split) :
        /\ \A r \in Drawdown(series, d) : r <= split
        /\ d \notin Test(series, split)

\* A statistic of the past, once computed, never changes as days arrive: labels are
\* given only when the stretch they look at is over, features look back, and no
\* training label reaches into the test period.
StatisticsAreFinal == LabelsAreFinal /\ FeaturesLookBack /\ TrainingSeesNoTest

WindowOf == {s \in [from : 1..today, to : 1..today] : s.from <= s.to}

\* A statistic does not depend on what else was asked for: one load of a stretch of
\* prices serves every event, anchor or stack of the batch as the whole series
\* would, and events are queried from far enough back to be known in time.
BatchDoesNotMatter ==
    /\ \A x, y \in 1..today :
          /\ \A w \in Windows : EventReturn(series, {x, y}, x, w) = WindowedReturn(series, x, w)
          /\ StackReturn(series, {x, y}, x) = WindowedReturn(series, x, [kind |-> "post", lo |-> 0, hi |-> Ahead])
    /\ \A s, t \in WindowOf : StackContext(series, {s, t}, s) = WindowReturn(series, s)
    /\ \A d \in 1..today, source \in Source : Available(d, source) <= d + AvailabilityLookback
    /\ \A d \in 1..today, late \in BOOLEAN : Anchor(d, late) <= d + 7

\* stack_backtest.py:30: "Every forward return is computed from the stack's knowable
\* date forward - never backward", of a series that lacks no trading day.
ReturnsStartKnown ==
    series = {d \in 1..today : TradingDay(d)} =>
        \A d \in 1..today :
            \A r \in StackReturn(series, {StackAnchor({d})}, StackAnchor({d})) : r >= StackAnchor({d})
=============================================================================
