------------------------------- MODULE Parsers -------------------------------
(***************************************************************************)
(* The functions between a payload and the rows of a table. The sources    *)
(* agree on little: what is skipped, what fails the whole payload, and     *)
(* which of two records of one key is kept.                                *)
(*                                                                         *)
(* Data.  A payload is a sequence of records. A row says which records its *)
(* value comes from. who is the series, filing, fund, pool or coin of a    *)
(* record, 0 if it has none that was asked for; at its date, 0 if it has   *)
(* none fit for the key; val whether its value can be read, is null, or    *)
(* its field is missing.                                                   *)
(***************************************************************************)
EXTENDS Integers, Sequences, FiniteSets, FiniteSetsExt, SequencesExt

CONSTANTS
    MaxRecords,     \* bound: records of a payload
    Tolerance,      \* RECONCILE_TOLERANCE, in percent
    MaxSkew         \* MAX_SECTION_DATE_SKEW_DAYS

VARIABLES parser, payload

Tabular == {"bea", "eia", "treasury", "coinbase", "yahoo", "cftc", "chart", "rank",
            "filings", "filings13f", "facts", "fred", "ishares", "zcash", "validators"}

Fields(who, at, val) == [who : who, at : at, val : val]

\* The records a parser tells apart.
Record(p) ==
    CASE p = "treasury" -> Fields(0..2, 0..2, {"some", "null", "missing"})
      [] p = "eia" -> Fields(0..1, 0..2, {"some", "null", "missing"})
      [] p = "chart" -> Fields(1..3, 0..2, {"some", "null"})
      [] p = "ishares" -> Fields(0..1, 0..2, {"some", "null"})
      [] p \in {"coinbase", "yahoo", "cftc", "fred"} -> Fields({1}, 0..2, {"some", "null"})
      [] p \in {"bea", "facts"} -> Fields(0..2, 0..2, {"some"})
      [] p \in {"rank", "filings"} -> Fields(0..2, 0..1, {"some"})
      [] p = "filings13f" -> Fields(0..2, 0..1, {"some", "missing"})
      [] p = "zcash" -> Fields(0..2, 0..1, {"some", "null", "missing"})
      [] p = "validators" -> Fields(0..2, {1}, {"some", "null"})
      [] p = "form4" -> [at : 0..1, derivative : BOOLEAN]
      [] p = "etf" -> [concept : 1..2, at : 0..2, filed : 1..3]
      [] p = "fund" -> [nav : 0..2, shares : 0..2, assets : 0..4, skew : -1..(MaxSkew + 1)]
      [] p = "whales" -> [from : 1..2, to : 1..2, at : 0..2, value : 1..2]
      [] p = "unlocks" -> [at : 0..3, total : 0..2]
      [] p = "windows" -> [start : 0..3, end : 0..5, days : 1..3]

Bound(p) == IF p \in {"fund", "windows"} THEN 1 ELSE MaxRecords

Init ==
    /\ parser \in Tabular \cup {"form4", "etf", "fund", "whales", "unlocks", "windows"}
    /\ payload = <<>>

Arrive(r) ==
    /\ Len(payload) < Bound(parser)
    /\ payload' = Append(payload, r) /\ UNCHANGED parser

Next == \E r \in Record(parser) : Arrive(r)

Spec == Init /\ [][Next]_<<parser, payload>>

-----------------------------------------------------------------------------
\* Tables. Which records a parser accepts, their key, and which of several of
\* one key it keeps.

Bea(r) == r.who # 0 /\ r.at # 0
Eia(r) == r.who = 1
Treasury(r) == r.who # 0 /\ r.at # 0
Candle(r) == r.at # 0 /\ r.val = "some"
YahooBar(r) == r.at # 0 /\ r.val = "some"
Cot(r) == r.at # 0 /\ r.val = "some"
ChartPoint(r) == r.at # 0 /\ r.val = "some"
Rank(r) == r.who # 0 /\ r.at # 0
Filing(r) == r.who # 0 /\ r.at # 0
Filing13F(r) == r.who # 0 /\ r.at # 0 /\ r.val # "missing"
Fact(r) == r.who # 0 /\ r.at # 0
Vintage(r) == r.at # 0
ScreenerFund(r) == r.who # 0 /\ r.at # 0 /\ r.val = "some"
Pool(r) == r.who # 0 /\ r.at # 0 /\ r.val # "null"
Validator(r) == r.who # 0 /\ r.val = "some"

Accepts(p, r) ==
    CASE p = "bea" -> Bea(r) [] p = "eia" -> Eia(r) [] p = "treasury" -> Treasury(r)
      [] p = "coinbase" -> Candle(r) [] p = "yahoo" -> YahooBar(r) [] p = "cftc" -> Cot(r)
      [] p = "chart" -> ChartPoint(r) [] p = "rank" -> Rank(r) [] p = "filings" -> Filing(r)
      [] p = "filings13f" -> Filing13F(r) [] p = "facts" -> Fact(r) [] p = "fred" -> Vintage(r)
      [] p = "ishares" -> ScreenerFund(r) [] p = "zcash" -> Pool(r) [] p = "validators" -> Validator(r)

\* One date per payload where the key has none.
Key(p, r) ==
    CASE p \in {"rank", "filings", "filings13f", "zcash", "validators"} -> r.who
      [] p \in {"coinbase", "yahoo", "cftc", "fred", "eia", "chart"} -> r.at
      [] OTHER -> <<r.who, r.at>>

FirstWins == {"rank", "filings", "filings13f", "facts", "fred"}

\* sec.normalize_filings has seen an accession before it looks at the rest.
Accepted(p, s) ==
    {i \in DOMAIN s :
        /\ Accepts(p, s[i])
        /\ p = "filings" => \A j \in 1..(i - 1) : s[j].who # s[i].who}

\* The indices of the records a row's value comes from. Treasury's second series
\* is a sum, of what is not null.
Kept(p, s, same) ==
    IF p = "treasury" /\ s[Min(same)].who = 2 THEN {i \in same : s[i].val = "some"}
    ELSE IF p \in FirstWins THEN {Min(same)} ELSE {Max(same)}

RowsOf(p, s) ==
    LET used == Accepted(p, s)
    IN [k \in {Key(p, s[i]) : i \in used} |-> Kept(p, s, {i \in used : Key(p, s[i]) = k})]

\* A market chart has a row where price, market cap and volume all have a point.
ChartRows(s) ==
    LET points(w) == {i \in Accepted("chart", s) : s[i].who = w}
        at(w) == {s[i].at : i \in points(w)}
    IN [t \in at(1) \cap at(2) \cap at(3) |->
           {Max({i \in points(w) : s[i].at = t}) : w \in {1, 2, 3}}]

Rows(p, s) == IF p = "chart" THEN ChartRows(s) ELSE RowsOf(p, s)

\* Fault: the latest date of the rows that match.
LatestMatched(s) == Max({0} \cup {s[i].at : i \in {j \in DOMAIN s : s[j].who # 0}})

\* The latest date of a payload, its unmatched rows included.
Latest(s) == Max({s[i].at : i \in DOMAIN s})

BeaFails(s) == \E w \in 1..2 : ~\E i \in Accepted("bea", s) : s[i].who = w

EiaFails(s) ==
    \/ Accepted("eia", s) = {}
    \/ \E i \in Accepted("eia", s) : s[i].at = 0 \/ s[i].val = "missing"

TreasuryFails(s) ==
    \/ \E i \in Accepted("treasury", s) : s[i].val = "missing"
    \/ \E w \in 1..2 : <<w, Latest(s)>> \notin DOMAIN RowsOf("treasury", s)

\* A pool that is not monitored may only be empty ("missing": it reports zero).
PoolsFail(s) == \E i \in DOMAIN s : s[i].who # 0 /\ s[i].at = 0 /\ s[i].val = "some"

Fails(p, s) ==
    CASE p = "bea" -> BeaFails(s)
      [] p = "eia" -> EiaFails(s)
      [] p = "treasury" -> s = <<>> \/ TreasuryFails(s)
      [] p = "zcash" -> s = <<>> \/ PoolsFail(s)
      [] OTHER -> FALSE

-----------------------------------------------------------------------------
\* Form 4: every reporting owner against every dated transaction, an owner's in
\* derivatives last; a transaction's index counts the rows before it.
RowBefore(s, p, q) ==
    \/ p[1] < q[1]
    \/ p[1] = q[1] /\ ~s[p[2]].derivative /\ s[q[2]].derivative
    \/ p[1] = q[1] /\ s[p[2]].derivative = s[q[2]].derivative /\ p[2] < q[2]

Transactions(reporters, s) ==
    LET rows == (1..reporters) \X {i \in DOMAIN s : s[i].at # 0}
    IN [q \in rows |-> Cardinality({p \in rows : RowBefore(s, p, q)})]

\* bitwise: the page's NAV and shares must multiply to its net assets, and its
\* NAV be at most MaxSkew days older than its shares.
Reconciles(nav, shares, assets) ==
    LET implied == nav * shares
        gap == IF implied < assets THEN assets - implied ELSE implied - assets
    IN IF assets = 0 THEN implied = 0 ELSE 100 * gap <= Tolerance * assets

BitwiseAccepts(r) == r.skew \in 0..MaxSkew /\ r.nav > 0 /\ Reconciles(r.nav, r.shares, r.assets)

\* sec_etf_shares: the first concept with a checkpoint, and of a quarter what was
\* filed first.
Checkpoints(s) ==
    LET dated(c) == {i \in DOMAIN s : s[i].concept = c /\ s[i].at # 0}
        concept == IF dated(1) # {} THEN 1 ELSE 2
        first(same) == Min({i \in same : \A j \in same : s[i].filed <= s[j].filed})
    IN [t \in {s[i].at : i \in dated(concept)} |-> first({i \in dated(concept) : s[i].at = t})]

Moved(s, indices) == SumFunctionOnSet([i \in DOMAIN s |-> s[i].value], indices)

\* Fault: a transaction on the boundary belongs to both windows.
FlowClosed(s, address, start, end) ==
    LET within == {i \in DOMAIN s : s[i].at \in start..end}
        into == {i \in within : s[i].to = address}
        out == {i \in within : s[i].from = address}
    IN [net |-> Moved(s, into) - Moved(s, out), count |-> Cardinality(into \cup out)]

\* etherscan: what moved to and from an address in [start, end), and how often.
Flow(s, address, start, end) ==
    LET within == {i \in DOMAIN s : s[i].at \in start..(end - 1)}
        into == {i \in within : s[i].to = address}
        out == {i \in within : s[i].from = address}
    IN [net |-> Moved(s, into) - Moved(s, out), count |-> Cardinality(into \cup out)]

\* sui_unlocks: the series' points, sorted by date and else left as they are; a rise
\* from one to the next is an unlock of the earlier one's date.
Points(s) == {i \in DOMAIN s : s[i].at # 0}

Earlier(s, i, j) == s[i].at < s[j].at \/ (s[i].at = s[j].at /\ i < j)

FollowedBy(s, i, j) == Earlier(s, i, j) /\ ~\E k \in Points(s) : Earlier(s, i, k) /\ Earlier(s, k, j)

Unlocks(s) ==
    LET last == {i \in Points(s) : ~\E j \in Points(s) : Earlier(s, i, j)}
        rises == {p \in Points(s) \X Points(s) :
                     FollowedBy(s, p[1], p[2]) /\ s[p[1]].total < s[p[2]].total}
    IN IF \E i \in last : s[i].total > 0
       THEN {[date |-> s[p[1]].at, tokens |-> s[p[2]].total - s[p[1]].total] : p \in rises}
       ELSE {}

\* iter_date_windows: inclusive windows of at most so many days.
DateWindows(start, end, days) ==
    {<<d, Min({d + days - 1, end})>> : d \in {d \in start..end : (d - start) % days = 0}}

-----------------------------------------------------------------------------
Usable(r) == r.who # 0 /\ r.at # 0 /\ r.val = "some"

\* A record with everything it needs has a row, unless the payload is refused.
\* A filing's accession may be lost to an unfit record before it, and a chart
\* needs the other two points of the date.
UsableIsStored ==
    parser \in Tabular /\ ~Fails(parser, payload) =>
    \A i \in DOMAIN payload :
        Usable(payload[i]) =>
           \/ Key(parser, payload[i]) \in DOMAIN Rows(parser, payload)
           \/ /\ parser = "filings"
              /\ \E j \in 1..(i - 1) : payload[j].who = payload[i].who /\ ~Usable(payload[j])
           \/ /\ parser = "chart"
              /\ \E w \in 1..3 : ~\E j \in DOMAIN payload :
                    Usable(payload[j]) /\ payload[j].who = w /\ payload[j].at = payload[i].at

\* What a source publishes further down the page neither takes back a row nor,
\* where the first record wins, changes it.
RowsStay ==
    parser \in Tabular =>
    \A n \in DOMAIN payload :
        LET before == Rows(parser, SubSeq(payload, 1, n))
            after == Rows(parser, payload)
        IN /\ DOMAIN before \subseteq DOMAIN after
           /\ parser \in FirstWins => \A k \in DOMAIN before : after[k] = before[k]

\* Whether a strict parser refuses a payload, and which keys it has, does not
\* depend on the order of its records.
OrderIsNothing ==
    parser \in {"bea", "eia", "treasury", "zcash"} /\ payload # <<>> =>
    /\ Fails(parser, payload) = Fails(parser, Reverse(payload))
    /\ DOMAIN Rows(parser, payload) = DOMAIN Rows(parser, Reverse(payload))

\* A Treasury payload that is not refused has every series at its newest date,
\* and a sum has every amount of its date once.
TreasuryIsCurrent ==
    parser = "treasury" /\ ~Fails(parser, payload) =>
    LET rows == Rows(parser, payload)
    IN \A t \in {payload[i].at : i \in DOMAIN payload} :
          (\A i \in DOMAIN payload : payload[i].at <= t) =>
             /\ <<1, t>> \in DOMAIN rows
             /\ rows[<<2, t>>] = {i \in DOMAIN payload : payload[i].at = t /\ payload[i].who = 2 /\ payload[i].val = "some"}

\* Reporters times dated transactions, each with an index of its own, none left out.
TransactionsAreWhole ==
    parser = "form4" =>
    LET index == Transactions(2, payload)
        dated == {i \in DOMAIN payload : payload[i].at # 0}
    IN /\ DOMAIN index = (1..2) \X dated
       /\ \A p, q \in DOMAIN index : index[p] = index[q] => p = q
       /\ {index[p] : p \in DOMAIN index} = 0..(2 * Cardinality(dated) - 1)

\* While filings only come later, a quarter's checkpoint is what was filed first,
\* unless the issuer turns to a concept that is preferred.
CheckpointsStay ==
    parser = "etf" /\ (\A i, j \in DOMAIN payload : i < j => payload[i].filed <= payload[j].filed) =>
    \A n \in DOMAIN payload :
        LET before == Checkpoints(SubSeq(payload, 1, n))
            after == Checkpoints(payload)
            preferred(m) == \E i \in 1..m : payload[i].concept = 1 /\ payload[i].at # 0
            turned == ~preferred(n) /\ preferred(Len(payload))
        IN turned \/ \A t \in DOMAIN before : t \in DOMAIN after /\ after[t] = before[t]

\* A page whose numbers are the fund's is accepted, one with the wrong net
\* assets is not.
FundsReconcile ==
    parser = "fund" =>
    \A i \in DOMAIN payload :
        LET r == payload[i]
        IN BitwiseAccepts(r) <=> r.nav > 0 /\ r.skew \in 0..MaxSkew /\ r.assets = r.nav * r.shares

\* Adjacent windows share no transaction and lose none; what two addresses send
\* one another sums to nothing.
FlowsAddUp ==
    parser = "whales" =>
    \A a \in 1..2, x, y, z \in 0..3 :
        x <= y /\ y <= z =>
           LET whole == Flow(payload, a, x, z)
               first == Flow(payload, a, x, y)
               second == Flow(payload, a, y, z)
           IN /\ whole.net = first.net + second.net /\ whole.count = first.count + second.count
              /\ Flow(payload, 1, x, z).net + Flow(payload, 2, x, z).net = 0

\* Where totals only grow and no date comes twice, the unlocks add up to what the
\* series grew by.
UnlocksAddUp ==
    LET at(i) == payload[i].at
        total(i) == payload[i].total
        points == Points(payload)
        unlocks == Unlocks(payload)
    IN parser = "unlocks" /\ (\A i, j \in points : i # j => at(i) # at(j) /\ (at(i) < at(j) => total(i) <= total(j)))
       => \A i, j \in points :
             (\A k \in points : at(i) <= at(k) /\ at(k) <= at(j)) =>
                SumFunctionOnSet([u \in unlocks |-> u.tokens], unlocks) = total(j) - total(i)

\* The windows of a backfill cover its days, each once.
WindowsTile ==
    parser = "windows" =>
    \A i \in DOMAIN payload :
        LET windows == DateWindows(payload[i].start, payload[i].end, payload[i].days)
        IN \A d \in payload[i].start..payload[i].end :
              Cardinality({w \in windows : w[1] <= d /\ d <= w[2]}) = 1

\* No parser loses, repeats or invents a row.
TablesAreRight ==
    /\ UsableIsStored /\ RowsStay /\ OrderIsNothing /\ TreasuryIsCurrent
    /\ TransactionsAreWhole /\ CheckpointsStay /\ FundsReconcile
    /\ FlowsAddUp /\ UnlocksAddUp /\ WindowsTile
=============================================================================
