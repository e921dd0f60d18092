----------------------------- MODULE DefiLlamaTables -----------------------------
(***************************************************************************)
(* What successive DeFiLlama normalizer runs, daily and backfill, make of  *)
(* the tables: fees and revenue that come from two endpoints and meet in   *)
(* one row, protocols that a series refers to and a listing may lack, and  *)
(* series whose points are published at any time of a day.                 *)
(*                                                                         *)
(* Data.  A behaviour is of one table. A value is modelled by the run that *)
(* supplied it, 0 if none did. There are two points of time to a day.      *)
(***************************************************************************)
EXTENDS Naturals, Sequences, FiniteSets, FiniteSetsExt

CONSTANTS
    LastDay,    \* bound: days
    MaxRuns,    \* bound: normalizer runs
    MaxPoints   \* bound: points of a series' payload

VARIABLES
    table,
    rows,
    log         \* what each run that wrote was given

Day  == 1..LastDay
Time == 1..(2 * LastDay)
Slug == 1..2

Series == {"protocol_tvl", "stablecoins", "chain_tvl", "prices"}

NoFees == [fees |-> 0, revenue |-> 0, by |-> 0]

Init ==
    /\ table \in {"protocol_fees", "protocols"} \cup Series
    /\ rows = CASE table = "protocol_fees" -> [d \in Day |-> NoFees]
                [] table = "protocols" -> [s \in Slug |-> [kind |-> "none", by |-> 0]]
                [] OTHER -> {}
    /\ log = <<>>

-----------------------------------------------------------------------------
\* protocol_fees.

\* merge_fee_revenue_rows: a row to a day that either endpoint has. An endpoint that
\* failed has none.
MergedDays(fees, revenue) == fees \cup revenue

\* Fault: a row is written whole.
UpsertWhole(of, fees, revenue, n) ==
    [d \in Day |->
        IF d \notin MergedDays(fees, revenue) THEN of[d]
        ELSE [fees |-> IF d \in fees THEN n ELSE 0, revenue |-> IF d \in revenue THEN n ELSE 0, by |-> n]]

\* _upsert_protocol_fee_rows: rows with both, fees only and revenue only, each with
\* the columns they have.
UpsertFees(of, fees, revenue, n) ==
    [d \in Day |->
        CASE d \in fees \cap revenue -> [fees |-> n, revenue |-> n, by |-> n]
          [] d \in fees \ revenue -> [of[d] EXCEPT !.fees = n, !.by = n]
          [] d \in revenue \ fees -> [of[d] EXCEPT !.revenue = n, !.by = n]
          [] OTHER -> of[d]]

NormalizeFees(fees, revenue) ==
    /\ table = "protocol_fees" /\ Len(log) < MaxRuns
    /\ rows' = UpsertFees(rows, fees, revenue, Len(log) + 1)
    /\ log' = Append(log, [fees |-> fees, revenue |-> revenue])
    /\ UNCHANGED table

-----------------------------------------------------------------------------
\* protocols.

\* synthesize_protocol_stub_rows
Stubs(series, listed) == series \ listed

\* bulk_upsert with and without update_cols.
Listed(of, slugs, n) == [s \in Slug |-> IF s \in slugs THEN [kind |-> "real", by |-> n] ELSE of[s]]
StubbedOver(of, slugs, n) == [s \in Slug |-> IF s \in slugs THEN [kind |-> "stub", by |-> n] ELSE of[s]]
Stubbed(of, slugs, n) ==
    [s \in Slug |-> IF s \in slugs /\ of[s].kind = "none" THEN [kind |-> "stub", by |-> n] ELSE of[s]]

\* Of one transaction: the listing, the stubs, the series. A backfill has no listing.
NormalizeProtocols(mode, listed, series) ==
    LET n == Len(log) + 1
    IN  /\ table = "protocols" /\ n <= MaxRuns
        /\ mode = "backfill" => listed = {}
        /\ rows' = Stubbed(Listed(rows, listed, n), Stubs(series, listed), n)
        /\ log' = Append(log, [listed |-> listed, series |-> series])
        /\ UNCHANGED table

-----------------------------------------------------------------------------
\* Series. A point has a time, 0 if it cannot be read, and may be of a sub-bucket
\* ("<chain>-borrowed").

AsPublished(t) == t

DayAlign(t) == (t + 1) \div 2

\* chain_tvl and prices keep the time they are published with.
KeyOf(t) == IF table \in {"chain_tvl", "prices"} THEN t ELSE DayAlign(t)

Plain(p) == p.at # 0 /\ ~p.bucket

\* Of a protocol's points only the plain, and of the points of one key the first;
\* bulk_upsert keeps the last of several prices.
Kept(points) ==
    {i \in DOMAIN points :
        /\ Plain(points[i])
        /\ \A j \in DOMAIN points :
              /\ Plain(points[j]) /\ KeyOf(points[j].at) = KeyOf(points[i].at)
              => IF table = "prices" THEN j <= i ELSE j >= i}

Upsert(points, n) ==
    LET new == {[key |-> KeyOf(points[i].at), at |-> points[i].at, by |-> n] : i \in Kept(points)}
    IN  {r \in rows : \A q \in new : q.key # r.key} \cup new

Write(points) ==
    /\ Len(log) < MaxRuns
    /\ rows' = Upsert(points, Len(log) + 1)
    /\ log' = Append(log, points)
    /\ UNCHANGED table

\* normalize: a protocol's whole history, the supply at this moment, prices with a
\* time or, without, that of the fetch.
Snapshot(t) == <<[at |-> t, bucket |-> FALSE]>>

\* Any history, of a daily run's payloads or a backfill's.
NormalizeHistory(points) ==
    /\ table \in Series
    /\ table # "protocol_tvl" => \A i \in DOMAIN points : ~points[i].bucket
    /\ Write(points)

NormalizeSnapshot(t) == table \in {"stablecoins", "prices"} /\ Write(Snapshot(t))

Points == UNION {[1..k -> [at : 0..(2 * LastDay), bucket : BOOLEAN]] : k \in 0..MaxPoints}

Next ==
    \/ \E fees, revenue \in SUBSET Day : NormalizeFees(fees, revenue)
    \/ \E mode \in {"daily", "backfill"}, listed, series \in SUBSET Slug : NormalizeProtocols(mode, listed, series)
    \/ table \in Series /\ Len(log) < 2 /\ \E points \in Points : NormalizeHistory(points)
    \/ \E t \in Time : NormalizeSnapshot(t)

Spec == Init /\ [][Next]_<<table, rows, log>>

-----------------------------------------------------------------------------
\* The last run with a property, 0 if there is none.
LastWith(P(_)) == Max({0} \cup {n \in DOMAIN log : P(log[n])})

\* A partial outage takes back nothing: fees and revenue of a day are those of the
\* last run that had them, however the endpoints failed.
OutagesEraseNothing ==
    table = "protocol_fees" =>
    \A d \in Day :
        /\ rows[d].fees = LastWith(LAMBDA p : d \in p.fees)
        /\ rows[d].revenue = LastWith(LAMBDA p : d \in p.revenue)

\* Every series has its protocol, and a protocol that was listed once is what the
\* last listing with it said, whatever backfills and shorter listings followed.
SeriesHaveProtocols ==
    table = "protocols" =>
    \A s \in Slug :
        LET last == LastWith(LAMBDA p : s \in p.listed)
        IN  /\ (\E n \in DOMAIN log : s \in log[n].series) => rows[s].kind # "none"
            /\ last # 0 => rows[s] = [kind |-> "real", by |-> last]

\* A day has one row, of the last run that had a point of it; nothing that can be
\* read is lost.
DaysHaveOneRow ==
    table \in {"protocol_tvl", "stablecoins"} =>
    \A d \in Day :
        LET of(points) == {i \in DOMAIN points : Plain(points[i]) /\ points[i].at \in (2 * d - 1)..(2 * d)}
            last == LastWith(LAMBDA points : of(points) # {})
            found == {r \in rows : r.at \in (2 * d - 1)..(2 * d)}
        IN  IF last = 0 THEN found = {} ELSE Cardinality(found) = 1 /\ \A r \in found : r.by = last

\* Runs that follow one another, whole or in part, leave what the last of them said
\* of each thing.
TablesKeepUp == OutagesEraseNothing /\ SeriesHaveProtocols /\ DaysHaveOneRow
=============================================================================
