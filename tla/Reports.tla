-------------------------------- MODULE Reports --------------------------------
(***************************************************************************)
(* What the command line's reports say of a table, whichever flags they    *)
(* are asked with. Most load only a stretch of the table, some with a      *)
(* margin before it, and compute over what they loaded: changes against    *)
(* earlier rows, trailing windows, the label in force, the rows of the     *)
(* newest period.                                                          *)
(*                                                                         *)
(* Data.  rows is the table of one report. A number in a report is         *)
(* modelled by the rows it is computed from, where no sum is the point.    *)
(* A flag that is not given is 0.                                          *)
(***************************************************************************)
EXTENDS Integers, FiniteSets, FiniteSetsExt

CONSTANTS
    LastDay,        \* bound: days of a table
    LastPeriod,     \* bound: quarters
    MaxRows,        \* bound: rows of a table, of those whose rows have many fields
    Short, Long,    \* the 7 and 30 rows of delta_7d and delta_30d
    Margin,         \* lookback_days of _query_chain_trajectory
    Snapshot,       \* the 60 days of _query_all_chains_snapshot
    Window, Back,   \* window_days and lookback_days of a divergence
    RegimeMargin,   \* _REGIME_BACKFILL_DAYS
    Pool            \* ARTICLE_POOL_CAP

VARIABLES report, rows

Day    == 1..LastDay
Period == 1..LastPeriod
Rule   == [window |-> 1, minScore |-> 2, minSources |-> 2, decay |-> FALSE]

Stacks == INSTANCE Correlator WITH Weight <- [s \in {"a", "b"} |-> 1]

\* The rows a report tells apart. Filer 1 has options, filer 2 amends.
Record(t) ==
    CASE t = "supply" -> [chain : 1..2, day : Day]
      [] t = "funds" -> [fund : 1..2, day : 1..3, shares : 1..2, marker : BOOLEAN]
      [] t = "positions" ->
           {p \in [filer : 1..2, period : Period, cusip : 1..2, accession : 1..2, option : BOOLEAN] :
               (p.accession = 2 => p.filer = 2) /\ (p.option => p.filer = 1)}
      [] t = "fees" -> {f \in [table : {"fees", "price"}, day : 1..4, revenue : BOOLEAN] :
                           f.revenue => f.table = "fees"}
      [] t = "macro" -> {o \in [table : {"value", "regime"}, day : 1..4, known : 1..4] :
                           \/ o.known = o.day
                           \/ o.table = "value" /\ o.known = o.day + 1}
      [] t = "ranks" -> [ts : 1..2, coin : 1..3, rank : 1..3]
      [] t = "news" -> [at : 1..6, source : 1..2]
      [] t = "events" -> [ts : Day, source : {"a", "b"}, ref : {1}, strength : {1}]

\* Two rows of one key.
Clash(t, p, q) ==
    CASE t = "funds" -> p.fund = q.fund /\ p.day = q.day
      [] t = "fees" -> p.table = q.table /\ p.day = q.day
      [] t = "ranks" -> p.ts = q.ts /\ (p.coin = q.coin \/ p.rank = q.rank)
      [] t = "news" -> p.at = q.at
      [] OTHER -> p = q

Init ==
    /\ report \in {"supply", "funds", "positions", "fees", "macro", "ranks", "news", "events"}
    /\ rows = {}

Land(p) ==
    /\ report \in {"positions", "events"} => Cardinality(rows) < MaxRows
    /\ \A q \in rows : ~Clash(report, p, q)
    /\ rows' = rows \cup {p} /\ UNCHANGED report

Next == \E p \in Record(report) : Land(p)

Spec == Init /\ [][Next]_<<report, rows>>

-----------------------------------------------------------------------------
\* --since and --until; a since after the until is refused.
Ranges == {r \in [since : 0..LastDay, until : 0..LastDay] : r.since = 0 \/ r.until = 0 \/ r.since <= r.until}

Whole == [since |-> 0, until |-> 0]

In(r, d) == r.since <= d /\ (r.until = 0 \/ d <= r.until)

\* The nth of the days before d, 0 if there are fewer: LAG.
Lag(days, d, n) ==
    LET past == {e \in days : e < d}
    IN  IF Cardinality(past) < n THEN 0
        ELSE CHOOSE e \in past : Cardinality({f \in past : f >= e}) = n

Newest(days) == Max({0} \cup days)

-----------------------------------------------------------------------------
\* stablecoin-flow. A change is modelled by the day it is counted from.

SupplyDays(c) == {s.day : s \in {s \in rows : s.chain = c}}

Trajectory(c, r) ==
    LET loaded == {d \in SupplyDays(c) : In([r EXCEPT !.since = r.since - Margin], d)}
    IN  [d \in {d \in loaded : In(r, d)} |-> [n \in {Short, Long} |-> Lag(loaded, d, n)]]

LatestDay == Newest(SupplyDays(1) \cup SupplyDays(2))

ChainsWithData == {c \in 1..2 : LatestDay \in SupplyDays(c)}

AllChains ==
    [c \in {c \in 1..2 : LatestDay \in SupplyDays(c)} |->
       LET loaded == {d \in SupplyDays(c) : d >= LatestDay - Snapshot}
       IN  [n \in {Short, Long} |-> Lag(loaded, LatestDay, n)]]

ByStablecoin(c) == Newest(SupplyDays(c))

-----------------------------------------------------------------------------
\* etf-flows. A fund's shares are its volume too, and it is launched on day fund.

FundDays(f) == {s.day : s \in {s \in rows : s.fund = f /\ ~s.marker}}

Shares(f, d) == (CHOOSE s \in rows : s.fund = f /\ s.day = d).shares

\* Fault: the first day of the range has no day before it.
NetFlowWithin(f, r) ==
    LET loaded == {d \in FundDays(f) : In(r, d)}
    IN  [d \in loaded |-> LET before == Lag(loaded, d, 1)
                          IN  IF before = 0 THEN 0 ELSE Shares(f, d) - Shares(f, before)]

\* The range is cut out after the change to the day before is known.
NetFlow(f, r) ==
    [d \in {d \in FundDays(f) : In(r, d)} |->
        LET before == Lag(FundDays(f), d, 1)
        IN  IF before = 0 THEN 0 ELSE Shares(f, d) - Shares(f, before)]

PerTicker(r) == {s \in rows : s.day >= s.fund /\ In(r, s.day)}

Aggregate(r) ==
    LET launched == {s \in rows : In(r, s.day) /\ s.day >= s.fund}
    IN  [d \in {s.day : s \in launched} |->
           LET of == {s \in launched : s.day = d}
           IN  [volume |-> MapThenSumSet(LAMBDA s : s.shares, of), funds |-> Cardinality(of)]]

-----------------------------------------------------------------------------
\* crowding and holdings.

\* available_periods: of all holdings, options included.
Periods == {p.period : p \in rows}

Positions(r, cusip) == {p \in rows : ~p.option /\ In(r, p.period) /\ cusip \in {0, p.cusip}}

PriorPeriod(periods, p) == Newest({q \in periods : q < p})

\* compute_crowding: of a filer's rows of a period and CUSIP the latest accession's
\* count; changes are against the CUSIP's period before, if any.
Crowding(positions) ==
    LET of(p, c) == {x \in positions : x.period = p /\ x.cusip = c}
        holders(p, c) == {x.filer : x \in of(p, c)}
        periods(c) == {x.period : x \in {x \in positions : x.cusip = c}}
        counted(p, c) == {x \in of(p, c) : \A y \in of(p, c) : y.filer = x.filer => y.accession <= x.accession}
    IN  [k \in {<<x.period, x.cusip>> : x \in positions} |->
           LET prior == PriorPeriod(periods(k[2]), k[1])
               before == IF prior = 0 THEN {} ELSE holders(prior, k[2])
               now == holders(k[1], k[2])
           IN  [prior |-> prior, holders |-> now, value |-> counted(k[1], k[2]),
                entrants |-> IF prior = 0 THEN {} ELSE now \ before, exits |-> before \ now]]

LatestAvailable(cusip) ==
    IF cusip = 0 THEN Newest(Periods)
    ELSE Newest({p \in Periods : Positions([since |-> p, until |-> p], cusip) # {}})

\* _resolve_period_scope: the range asked for, all periods, or the newest.
Scope(r, all, cusip) ==
    LET latest == LatestAvailable(cusip)
    IN  IF all \/ r # Whole THEN r ELSE [since |-> latest, until |-> latest]

\* One period further back, of the CUSIP's own if one is asked for.
ExpandSince(since, cusip) ==
    LET earlier == {p \in Periods : p < since /\ (cusip = 0 \/ Positions([since |-> p, until |-> p], cusip) # {})}
    IN  IF earlier = {} THEN since ELSE Max(earlier)

CrowdingCmd(r, all, cusip) ==
    LET scope == Scope(r, all, cusip)
        found == Crowding(Positions([scope EXCEPT !.since = ExpandSince(scope.since, cusip)], cusip))
    IN  [k \in {k \in DOMAIN found : In(scope, k[1])} |-> found[k]]

ByFiler(f, r) == {p \in rows : p.filer = f /\ In(r, p.period)}
ByCusip(c, r) == {p \in rows : p.cusip = c /\ In(r, p.period)}

\* holdings: a filer's or a CUSIP's newest period unless told otherwise.
HoldingsCmd(of, r, all) ==
    LET latest == Newest({p.period : p \in of})
    IN  IF all \/ r # Whole THEN {p \in of : In(r, p.period)} ELSE {p \in of : p.period = latest}

\* The summary without flags: each filer's newest period and what is in it.
Summary ==
    [f \in {p.filer : p \in rows} |->
       LET latest == Newest({p.period : p \in ByFiler(f, Whole)})
       IN  {p \in rows : p.filer = f /\ p.period = latest}]

-----------------------------------------------------------------------------
\* revenue-divergence.

Days(table) == {f.day : f \in {f \in rows : f.table = table}}

\* A snapshot for each price: the days of fees and of revenue in its window.
FeeWindows(r) ==
    LET margin == [r EXCEPT !.since = IF r.since = 0 THEN 0 ELSE r.since - (Window - 1)]
        of(d) == {f \in rows : f.table = "fees" /\ In(margin, f.day) /\ d - Window < f.day /\ f.day <= d}
    IN  [d \in {d \in Days("price") : In(r, d)} |->
           [fees |-> {f.day : f \in of(d)}, revenue |-> {f.day : f \in {f \in of(d) : f.revenue}}]]

\* diagnose_divergence: the newest snapshot against the newest that is Back days
\* older; by fees unless both have revenue.
Diagnosis(r) ==
    LET found == FeeWindows(r)
        now == Newest(DOMAIN found)
        then == Newest({d \in DOMAIN found : d < now /\ d <= now - Back})
        by == IF found[now].revenue # {} /\ found[then].revenue # {} THEN "revenue" ELSE "fees"
    IN  IF then = 0 THEN [kind |-> "insufficient-data"]
        ELSE [kind |-> "compared", now |-> now, then |-> then,
              change |-> <<found[then][by], found[now][by]>>]

\* _classify: a price that moves alone leads, revenue that moves alone is led.
Classify(price, revenue, significance) ==
    LET material(x) == x >= significance \/ -x >= significance
    IN  CASE ~material(price) /\ ~material(revenue) -> "aligned"
          [] material(price) /\ material(revenue) /\ (price >= 0) = (revenue >= 0) -> "aligned"
          [] material(price) -> IF price > 0 THEN "price-leads-up" ELSE "price-leads-down"
          [] OTHER -> IF revenue > 0 THEN "price-leads-down" ELSE "price-leads-up"

-----------------------------------------------------------------------------
\* macro.

\* Of a day the newest vintage, of those known as of a day if one is asked for.
Observations(r, asOf, all) ==
    LET known == {o \in rows : o.table = "value" /\ In(r, o.day) /\ (asOf = 0 \/ o.known <= asOf)}
    IN  {o \in known : all \/ \A p \in known : p.day = o.day => p.known <= o.known}

\* --regime: the label in force, of those loaded for the days shown.
Annotated(r) ==
    LET shown == {o.day : o \in Observations(r, 0, FALSE)}
        calendar == {d \in Days("regime") : Min(shown) - RegimeMargin <= d /\ d <= Max(shown)}
    IN  [d \in shown |-> Newest({l \in calendar : l <= d})]

-----------------------------------------------------------------------------
\* top: the ranks of a snapshot, without coin 3, a stablecoin, renumbered.

RankAll(ts, exclude) ==
    LET kept == {s \in rows : s.ts = ts /\ ~(exclude /\ s.coin = 3)}
        adjusted(s) == IF exclude THEN Cardinality({q \in kept : q.rank <= s.rank}) ELSE s.rank
    IN  [c \in {s.coin : s \in kept} |-> adjusted(CHOOSE s \in kept : s.coin = c)]

Top(ranks, n) == {c \in DOMAIN ranks : ranks[c] <= n}

Diff(a, b, n, exclude) ==
    LET from == RankAll(a, exclude)
        to == RankAll(b, exclude)
        stays == Top(from, n) \cap Top(to, n)
    IN  IF DOMAIN from = {} \/ DOMAIN to = {} THEN [missing |-> TRUE]
        ELSE [missing |-> FALSE, entries |-> Top(to, n) \ Top(from, n), exits |-> Top(from, n) \ Top(to, n),
              moves |-> {c \in stays : from[c] # to[c]},
              unchanged |-> Cardinality({c \in stays : from[c] = to[c]})]

-----------------------------------------------------------------------------
\* news: the newest articles, counted by day and source. Two articles to a day.
ArticlePool == {a \in rows : Cardinality({b \in rows : b.at > a.at}) < Pool}

ArticleDay(a) == (a.at + 1) \div 2

Clusters(articles) ==
    [k \in {<<ArticleDay(a), a.source>> : a \in articles} |->
        Cardinality({a \in articles : <<ArticleDay(a), a.source>> = k})]

-----------------------------------------------------------------------------
\* The weekly digest: the stacks that end in its range, found among the events
\* since the longest rule's window before it.
Digest(r) ==
    LET loaded == {e \in rows : In([r EXCEPT !.since = r.since - Rule.window], e.ts)}
    IN  {s \in Stacks!Scan(loaded, Rule) : In(r, s.end)}

-----------------------------------------------------------------------------
\* A change does not depend on the range, unless rows are missing for longer than
\* the margin; the modes show the same chains and the same day.
SupplyAgrees ==
    report = "supply" =>
    /\ \A c \in 1..2, r \in Ranges :
          LET whole == Trajectory(c, Whole)
              part == Trajectory(c, r)
          IN  /\ DOMAIN part = {d \in DOMAIN whole : In(r, d)}
              /\ \A d \in DOMAIN part, n \in {Short, Long} :
                    part[d][n] # whole[d][n] => part[d][n] = 0 /\ whole[d][n] < d - Margin
    /\ DOMAIN AllChains = ChainsWithData
    /\ \A c \in ChainsWithData, n \in {Short, Long} :
          LET from == Trajectory(c, Whole)[LatestDay][n]
          IN  /\ ByStablecoin(c) = LatestDay
              /\ AllChains[c][n] # from => AllChains[c][n] = 0 /\ from < LatestDay - Snapshot

\* The flows of a range add up to what the shares changed by since the day before
\* it, and the aggregate to the tickers.
FlowsAddUp ==
    report = "funds" =>
    \A r \in {r \in Ranges : r.until <= 3 /\ r.since <= 3} :
        /\ \A f \in 1..2 :
              LET flow == NetFlow(f, r)
                  shown == DOMAIN flow
                  start == Lag(FundDays(f), Min(shown), 1)
              IN  shown # {} =>
                  MapThenSumSet(LAMBDA d : flow[d], shown)
                     = Shares(f, Max(shown)) - Shares(f, IF start = 0 THEN Min(shown) ELSE start)
        /\ MapThenSumSet(LAMBDA d : Aggregate(r)[d].volume, DOMAIN Aggregate(r))
              = MapThenSumSet(LAMBDA s : s.shares, PerTicker(r))

PeriodRange == {r \in Ranges : r.since <= LastPeriod /\ r.until <= LastPeriod}

\* A holder is counted by one accession, its latest. Entrants and exits lead from
\* the holders of the period before to a period's; a CUSIP's row does not depend on
\* the range. Without a CUSIP only the newest earlier period is loaded, and one that
\* was not held then looks new.
CrowdingAgrees ==
    report = "positions" =>
    LET whole == Crowding(Positions(Whole, 0))
    IN  /\ \A k \in DOMAIN whole :
              LET row == whole[k]
              IN  /\ \A f \in row.holders :
                        LET newest == Max({x.accession : x \in {x \in rows : x.filer = f /\ <<x.period, x.cusip>> = k /\ ~x.option}})
                        IN  {x.accession : x \in {x \in row.value : x.filer = f}} = {newest}
                  /\ row.prior # 0 =>
                     row.holders = (whole[<<row.prior, k[2]>>].holders \ row.exits) \cup row.entrants
        /\ \A r \in PeriodRange, cusip \in 0..2 : \A all \in {FALSE, r = Whole} :
              LET shown == CrowdingCmd(r, all, cusip)
                  scope == Scope(r, all, cusip)
              IN  /\ DOMAIN shown = {k \in DOMAIN whole : In(scope, k[1]) /\ cusip \in {0, k[2]}}
                  /\ \A k \in DOMAIN shown :
                        shown[k] # whole[k] =>
                           /\ cusip = 0 /\ shown[k].prior = 0
                           /\ whole[k].prior < PriorPeriod(Periods, scope.since)

\* The summary holds what a filer's own report shows, and where there are neither
\* options nor amendments, who holds a CUSIP is what crowding says.
HoldingsAgree ==
    report = "positions" =>
    /\ \A f \in DOMAIN Summary : Summary[f] = HoldingsCmd(ByFiler(f, Whole), Whole, FALSE)
    /\ (\A p \in rows : ~p.option /\ p.accession = 1) =>
       \A c \in {p.cusip : p \in rows} :
          LET held == HoldingsCmd(ByCusip(c, Whole), Whole, FALSE)
              crowd == CrowdingCmd(Whole, FALSE, c)
          IN  \A k \in DOMAIN crowd : crowd[k].holders = {p.filer : p \in held} /\ crowd[k].value = held

\* A window of fees does not depend on the range, and a range that is too short
\* for a comparison makes none rather than another.
DivergenceAgrees ==
    report = "fees" =>
    \A r \in {r \in Ranges : r.since <= 4 /\ r.until <= 4} :
        /\ \A d \in DOMAIN FeeWindows(r) : FeeWindows(r)[d] = FeeWindows(Whole)[d]
        /\ Diagnosis(r).kind = "compared" => Diagnosis(r) = Diagnosis([since |-> 0, until |-> r.until])

\* A price that falls against revenue is the mirror of one that rises.
KindsMirror ==
    LET mirror == [aligned |-> "aligned", up |-> "price-leads-down", down |-> "price-leads-up"]
        image(k) == CASE k = "aligned" -> mirror.aligned [] k = "price-leads-up" -> mirror.up
                      [] OTHER -> mirror.down
    IN  report = "fees" /\ rows = {} =>
        \A p, v \in -3..3, s \in 1..2 : Classify(-p, -v, s) = image(Classify(p, v, s)) \/ p = 0 \/ v = 0

\* No label of a later day, and the label in force unless it is older than the
\* margin; what --as-of shows is the newest vintage that --all-vintages knew then.
MacroAgrees ==
    report = "macro" =>
    \A r \in {r \in Ranges : r.since <= 4 /\ r.until <= 4} :
        /\ \A d \in DOMAIN Annotated(r) :
              Annotated(r)[d] # Annotated(Whole)[d] =>
                 Annotated(r)[d] = 0 /\ Annotated(Whole)[d] < Min(DOMAIN Annotated(r)) - RegimeMargin
        /\ \A k \in 1..5 :
              LET then == {o \in Observations(r, 0, TRUE) : o.known <= k}
              IN  Observations(r, k, FALSE) = {o \in then : \A p \in then : p.day = o.day => p.known <= o.known}

\* Entries and exits lead from one top to the other, the reverse comparison swaps
\* them, and a top without stablecoins is full while there are coins.
DiffBalances ==
    report = "ranks" =>
    \A n \in 1..2, exclude \in BOOLEAN :
        LET diff == Diff(1, 2, n, exclude)
            back == Diff(2, 1, n, exclude)
            from == RankAll(1, exclude)
            to == RankAll(2, exclude)
        IN  /\ ~diff.missing =>
                  /\ Top(to, n) = (Top(from, n) \ diff.exits) \cup diff.entries
                  /\ diff.entries = back.exits /\ diff.moves = back.moves
                  /\ diff.unchanged + Cardinality(diff.moves) + Cardinality(diff.exits) = Cardinality(Top(from, n))
            /\ exclude => Cardinality(Top(to, n)) = Min({n, Cardinality(DOMAIN to)})

\* Days after the oldest article of the pool are counted whole.
NewsIsCounted ==
    report = "news" =>
    LET shown == Clusters(ArticlePool)
        whole == Clusters(rows)
    IN  \A k \in DOMAIN whole :
           (\E a \in ArticlePool : ArticleDay(a) < k[1]) \/ ArticlePool = rows =>
              k \in DOMAIN shown /\ shown[k] = whole[k]

\* Where no events stand in the window before those loaded, the digest has the
\* stacks that the whole history has.
DigestAgrees ==
    report = "events" =>
    \A r \in {r \in Ranges : r.since # 0 /\ r.until # 0} :
        /\ \A s \in Digest(r) : Stacks!Real(rows, s, Rule)
        /\ (\A e \in rows : e.ts >= r.since - Rule.window \/ e.ts < r.since - 2 * Rule.window)
           => Digest(r) = {s \in Stacks!Scan({e \in rows : e.ts <= r.until}, Rule) : In(r, s.end)}

\* What a report says of a row does not depend on how it was asked, and what two
\* reports say of the same rows agrees.
ReportsAgree ==
    /\ SupplyAgrees /\ FlowsAddUp /\ CrowdingAgrees /\ HoldingsAgree
    /\ DivergenceAgrees /\ KindsMirror /\ MacroAgrees
    /\ DiffBalances /\ NewsIsCounted /\ DigestAgrees
=============================================================================
