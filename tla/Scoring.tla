-------------------------------- MODULE Scoring --------------------------------
(***************************************************************************)
(* The watchlist scores: the rubric's components, the stretches of rows    *)
(* they are computed from, and the runs of the score command that compute  *)
(* and persist them. A run loads the macro series first, one by one, and   *)
(* then each asset's inputs on a connection of its own. Every statement    *)
(* reads what is committed when it starts, so that a run sees the lake at  *)
(* many moments; it writes all its rows in one transaction.                *)
(*                                                                         *)
(* Data.  macro is what the lake gives for each macro series at this       *)
(* moment. Of an asset's row the components of its own are left out: no    *)
(* property of the runs tells them apart.                                  *)
(***************************************************************************)
EXTENDS Integers, Sequences, FiniteSets, FiniteSetsExt

CONSTANTS
    Process,
    Assets,             \* of the watchlist
    LastDay,            \* bound: days
    MaxRuns,            \* bound: runs
    MacroSeries,        \* bound: the series of the macro component, four in the code
    Month,              \* the 30 days a macro series is compared over
    MacroReach,         \* the 45 days its rows are loaded from
    TvlRows, TvlReach,  \* the newest 35 rows, of 40 days
    VolumeReach,        \* the 35 days of volumes
    RevenueRows,        \* the newest 8 rows
    Quarters, RowDays   \* bounds: of the rows behind a comparison

VARIABLES
    day, macro,
    run,        \* per process
    begun,      \* what each run began with, and its macro series as it read them
    signals     \* meta.signals: rows of asset and day

scoringVars == <<day, macro, run, begun, signals>>

None  == 0
Asset == 1..Assets
Series == 1..MacroSeries
Idle  == [step |-> "idle"]

\* --ticker and --sleeve leave out assets after all are computed.
Filters == {Asset, {1}}

Init ==
    /\ day = 1 /\ macro = [i \in Series |-> 0]
    /\ run = [p \in Process |-> Idle]
    /\ begun = <<>> /\ signals = {}

\* The collectors bring rows of a series.
MacroMoves(i) ==
    /\ macro[i] = 0 /\ macro' = [macro EXCEPT ![i] = 1]
    /\ UNCHANGED <<day, run, begun, signals>>

NextDay == day < LastDay /\ day' = day + 1 /\ UNCHANGED <<macro, run, begun, signals>>

\* score_cmd, compute_today: the moment of the run, whose day is that of its scores.
Begin(p, persist, filter) ==
    /\ run[p] = Idle /\ Len(begun) < MaxRuns
    /\ begun' = Append(begun, [day |-> day, macro |-> <<>>, filter |-> filter, persist |-> persist])
    /\ run' = [run EXCEPT ![p] = [step |-> "compute", n |-> Len(begun) + 1, found |-> {}]]
    /\ UNCHANGED <<day, macro, signals>>

MacroLoaded(p) == Len(begun[run[p].n].macro) = MacroSeries

\* _load_macro_inputs: the next series, by a statement of its own.
LoadMacro(p) ==
    /\ run[p].step = "compute" /\ ~MacroLoaded(p)
    /\ begun' = [begun EXCEPT ![run[p].n].macro = Append(@, macro[Len(@) + 1])]
    /\ UNCHANGED <<day, macro, run, signals>>

NextAsset(p) == Cardinality(run[p].found) + 1

\* Fault: the macro inputs are loaded with each asset's.
LoadAssetAndMacro(p, a) ==
    /\ run[p].step = "compute" /\ MacroLoaded(p) /\ a = NextAsset(p)
    /\ run' = [run EXCEPT ![p].found = @ \cup
          {[asset |-> a, day |-> begun[run[p].n].day, macro |-> macro, by |-> run[p].n]}]
    /\ UNCHANGED <<day, macro, begun, signals>>

\* compute_today: the next asset's row, with the macro component of the run.
LoadAsset(p, a) ==
    LET of == begun[run[p].n]
    IN  /\ run[p].step = "compute" /\ MacroLoaded(p) /\ a = NextAsset(p)
        /\ run' = [run EXCEPT ![p].found = @ \cup
              {[asset |-> a, day |-> of.day, macro |-> of.macro, by |-> run[p].n]}]
        /\ UNCHANGED <<day, macro, begun, signals>>

Computed(p) == run[p].step = "compute" /\ MacroLoaded(p) /\ NextAsset(p) > Assets

Show(p) ==
    /\ Computed(p) /\ ~begun[run[p].n].persist
    /\ run' = [run EXCEPT ![p] = Idle]
    /\ UNCHANGED <<day, macro, begun, signals>>

\* persist_scores, _bulk_upsert_signals: one transaction, a row's key the asset
\* and the day.
Persist(p) ==
    LET rows == {s \in run[p].found : s.asset \in begun[run[p].n].filter}
    IN  /\ Computed(p) /\ begun[run[p].n].persist
        /\ signals' = {s \in signals : \A r \in rows : <<r.asset, r.day>> # <<s.asset, s.day>>} \cup rows
        /\ run' = [run EXCEPT ![p] = Idle]
        /\ UNCHANGED <<day, macro, begun>>

\* The statement fails, or the process ends: the transaction is not committed.
Crash(p) ==
    /\ run[p].step = "compute"
    /\ run' = [run EXCEPT ![p] = Idle]
    /\ UNCHANGED <<day, macro, begun, signals>>

Next ==
    \/ NextDay
    \/ \E i \in Series : MacroMoves(i)
    \/ \E p \in Process :
          \/ \E persist \in BOOLEAN, filter \in Filters : Begin(p, persist, filter)
          \/ LoadMacro(p)
          \/ \E a \in Asset : LoadAsset(p, a)
          \/ Show(p) \/ Persist(p) \/ Crash(p)

Spec == Init /\ [][Next]_scoringVars

\* load_latest_scores
Latest == {s \in signals : \A t \in signals : t.asset = s.asset => t.day <= s.day}

History(since) == {s \in signals : s.day >= since}

-----------------------------------------------------------------------------
\* The rubric. A percentage or a delta is missing or a number of half steps.

\* score_insider_flow
InsiderFlow(buyers, sellers, recentBuy) ==
    CASE buyers >= 3 -> 3 [] buyers < 3 /\ sellers >= 3 -> -2
      [] OTHER -> IF recentBuy THEN 1 ELSE 0

\* No percentage.
Missing == 1000

\* A component of steps: 2 over the first, 1 over the second, and below.
Steps(x, over2, over1, under1, under2) ==
    CASE x = Missing -> 0
      [] x \in (over2 + 1)..(Missing - 1) -> 2
      [] x \in (over1 + 1)..over2 -> 1
      [] x \in under2..(under1 - 1) -> -1
      [] x < under2 -> -2
      [] OTHER -> 0

RevenueTrend(yoy) == Steps(yoy, 30, 10, 0, -20)
TvlTrend(change) == Steps(change, 30, 10, -10, -30)
RelativeStrength(points) == Steps(points, 19, 5, -5, -19)

FilingsVelocity(count) == IF count >= 5 THEN -2 ELSE IF count \in 1..2 THEN 1 ELSE 0

\* score_volume_momentum: averages of 7 and 30 rows.
VolumeMomentum(week, month) ==
    CASE week = Missing \/ month \in {Missing, 0} -> 0
      [] OTHER -> IF 10 * week > 13 * month THEN 1 ELSE IF 10 * week < 7 * month THEN -1 ELSE 0

Total(turns) == turns.DGS10 + turns.HY + turns.VIX + turns.USD

\* Fault: any one of the series decides.
MacroAny(turns) == IF Total(turns) >= 1 THEN 1 ELSE IF Total(turns) <= -1 THEN -1 ELSE 0

\* score_macro_regime: each series of rates, credit, volatility and the dollar says
\* risk on (1), risk off (-1), nothing, or is missing (0).
MacroRegime(turns) == IF Total(turns) >= 2 THEN 1 ELSE IF Total(turns) <= -2 THEN -1 ELSE 0

\* compose_equity_score, compose_crypto_score
Equity(insider, revenue, filings, regime) == insider + revenue + filings + regime
Crypto(strength, tvl, volume, regime) == strength + tvl + volume + regime

-----------------------------------------------------------------------------
\* The rows behind a component, by their days, at the day now.

Newest(rows) == Max({None} \cup rows)

\* _load_macro_inputs: the newest row, and the newest a month older or the oldest.
MacroPair(rows, now) ==
    LET loaded == {r \in rows : r >= now - MacroReach}
        before == {r \in loaded : r <= now - Month}
    IN  [now |-> Newest(loaded),
         then |-> IF Cardinality(loaded) < 2 THEN None
                  ELSE IF before # {} THEN Max(before) ELSE Min(loaded)]

\* A change is of two ends, neither of them zero, where there are rows.
Ends(loaded, zero) ==
    IF loaded = {} \/ Min(loaded) \in zero \/ Max(loaded) \in zero THEN {} ELSE {<<Min(loaded), Max(loaded)>>}

\* _load_crypto_signals: the ends of the newest rows of the asset's chain, or else,
\* with no change to be had from them, those of its protocols' sums, of which all
\* the rows in reach are taken. Of each, zero are the days without value locked.
TvlPairs(chain, protocols, now) ==
    LET recent(rows) == {r \in rows : r >= now - TvlReach}
        newest == {r \in recent(chain.rows) : Cardinality({q \in recent(chain.rows) : q > r}) < TvlRows}
        ofChain == Ends(newest, chain.zero)
    IN  IF ofChain # {} THEN ofChain ELSE Ends(recent(protocols.rows), protocols.zero)

VolumeRows(rows, now, n) == {r \in rows : r >= now - VolumeReach /\ Cardinality({q \in rows : q > r}) < n}

\* _load_equity_signals: of the newest rows of a concept the newest, and one within
\* 60 days of a year before. A row is a quarter's end and the filing it is of; rows
\* of one end come in any order, so that there may be several outcomes.
RevenuePairs(rows) ==
    LET newest == Newest({r.end : r \in rows})
        of(e) == {r \in rows : r.end = e}
        above == {r \in rows : r.end > newest - 4}
    IN  IF Cardinality(above) >= RevenueRows THEN {} ELSE of(newest - 4) \X of(newest)

-----------------------------------------------------------------------------
\* The rows of one run share its macro component, from every series as it was read
\* once, and the day it began on, a filter writes only its own assets, what is only
\* shown is not written, and the latest scores are one to an asset, each also in its
\* history. The series need not have been so at any one moment.
RunsAreUniform ==
    /\ \A s \in signals :
          LET of == begun[s.by]
          IN  s.day = of.day /\ s.macro = of.macro /\ Len(s.macro) = MacroSeries /\ s.asset \in of.filter /\ of.persist
    /\ \A s, t \in signals : s.asset = t.asset /\ s.day = t.day => s = t
    /\ \A s, t \in Latest : s.asset = t.asset => s = t
    /\ \A since \in 1..LastDay : \A s \in Latest : s.day >= since => s \in History(since)

Sample == {-40, -31, -30, -29, -21, -20, -19, -11, -10, -6, -5, -1, 0, 1, 5, 6, 10, 11, 19, 20, 30, 31}

\* More of what is good never lowers a score, what is missing counts nothing.
RubricIsMonotone ==
    /\ \A x, y \in Sample :
          x < y => RevenueTrend(x) <= RevenueTrend(y) /\ TvlTrend(x) <= TvlTrend(y)
                   /\ RelativeStrength(x) <= RelativeStrength(y)
    /\ \A b, c, s, t \in 0..4 : \A recent \in BOOLEAN :
          b <= c /\ t <= s => InsiderFlow(b, s, recent) <= InsiderFlow(c, t, recent)
    /\ \A w, v, m, n \in 0..4 :
          /\ w <= v => VolumeMomentum(w, m) <= VolumeMomentum(v, m)
          /\ m <= n /\ m # 0 => VolumeMomentum(w, n) <= VolumeMomentum(w, m)
    /\ RevenueTrend(Missing) = 0 /\ TvlTrend(Missing) = 0 /\ RelativeStrength(Missing) = 0
    /\ Equity(InsiderFlow(4, 0, TRUE), RevenueTrend(31), FilingsVelocity(1), 1) <= 8
    /\ Crypto(RelativeStrength(-40), TvlTrend(-40), VolumeMomentum(0, 1), -1) >= -8

Turns == [DGS10 : -1..1, HY : -1..1, VIX : -1..1, USD : -1..1]

\* One series, turning or missing, never turns risk on into risk off.
OneSeriesDoesNotDecide ==
    \A turns \in Turns : \A s \in DOMAIN turns, v \in -1..1 :
        MacroRegime(turns) * MacroRegime([turns EXCEPT ![s] = v]) # -1

MacroIsInOrder(rows, now) ==
    LET pair == MacroPair(rows, now)
    IN  pair.then # None =>
            /\ now - MacroReach <= pair.then /\ pair.then <= pair.now
            /\ pair.then = pair.now => pair.now <= now - Month
            /\ now - Month \in rows => pair.then = now - Month

TvlIsInOrder(rows, now) ==
    LET whole == [rows |-> rows, zero |-> {}]
        tvls == {[rows |-> r, zero |-> z] : r \in {{}, rows}, z \in {{}, {now}}}
    IN  \A chain, protocols \in tvls :
            /\ \A ends \in TvlPairs(chain, protocols, now) :
                  now - TvlReach <= ends[1] /\ ends[1] <= ends[2] /\ ends[2] <= now
            /\ (now - TvlReach)..now \subseteq rows =>
                  TvlPairs(chain, protocols, now) =
                      CASE chain = whole -> {<<now - TvlRows + 1, now>>}
                        [] chain # whole /\ protocols = whole -> {<<now - TvlReach, now>>}
                        [] OTHER -> {}

\* A comparison is never of a newer row with an older and reaches no further back
\* than its window; over daily rows the macro inputs span a month and the TVL as
\* many days as rows are taken, all in reach where the protocols stand in for the
\* chain. Only a series as stale as a month is compared with itself.
PairsAreInOrder ==
    \A rows \in SUBSET (1..RowDays), now \in 1..(RowDays + 1) :
        LET of == {r \in rows : r <= now}
        IN  /\ MacroIsInOrder(of, now) /\ TvlIsInOrder(of, now)
            /\ VolumeRows(of, now, 1) \subseteq VolumeRows(of, now, 3)

\* With a row to a quarter, revenue is compared with the quarter a year before
\* whenever there is one.
RevenueIsYearly ==
    \A rows \in SUBSET [end : 1..Quarters, filing : 1..2] :
        LET rowsOf(e) == {r \in rows : r.end = e}
            newest == Newest({r.end : r \in rows})
        IN  /\ \A pair \in RevenuePairs(rows) : pair[1].end = pair[2].end - 4
            /\ (\A e \in 1..Quarters : Cardinality(rowsOf(e)) <= 1) =>
               (RevenuePairs(rows) # {}) = (newest > 4 /\ rowsOf(newest - 4) # {})

\* The scores of a run share one macro component and one day, by a rubric that is
\* monotone, from rows that are what they are taken for.
ScoresAreSound ==
    /\ RunsAreUniform
    /\ day = 1 /\ begun = <<>> => RubricIsMonotone /\ OneSeriesDoesNotDecide /\ PairsAreInOrder /\ RevenueIsYearly
=============================================================================
