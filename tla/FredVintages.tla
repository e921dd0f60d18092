------------------------------ MODULE FredVintages ------------------------------
(***************************************************************************)
(* One series of ingest.fred and normalize.fred: revisions of its          *)
(* observations arrive upstream, the daily collector asks for what is new  *)
(* since the latest stored vintage, and the normalizer upserts under       *)
(* (observation date, realtime_start).                                     *)
(*                                                                         *)
(* Data.  Days are naturals, 0 is "no day" and "no value"; Forever stands  *)
(* for 9999-12-31.  Upstream keeps one vintage per day: a value corrected  *)
(* twice on one day has the last one.                                      *)
(***************************************************************************)
EXTENDS Integers, FiniteSetsExt

CONSTANTS
    Obs,        \* observation dates of the series
    Value,      \* values an observation may have
    MaxDay,     \* bound: last day
    Twice       \* may a value revised after the day's collection be revised
                \* again before the next one

Day     == 1..MaxDay
Forever == MaxDay + 1

VARIABLES
    today,
    revision,   \* upstream: observation date -> day -> value published that day
    value, end, \* fred.observations: date -> realtime_start -> value, realtime_end
    blob,       \* the rows of the run being normalized
    fetched,    \* the day they were fetched, 0 if none are waiting
    asOf        \* the day of the last collection that was normalized, or 0

stored == <<value, end>>
vars   == <<today, revision, stored, blob, fetched, asOf>>

Row == [date : Obs, start : Day, end : 0..Forever, value : Value]

\* Types, and that no run is handed to the normalizer with a vintage that ends
\* before it starts (ingest.fred closes an interval on the day before the next).
TypeOK ==
    /\ today    \in Day
    /\ revision \in [Obs -> [Day -> Value \cup {0}]]
    /\ value    \in [Obs -> [Day -> Value \cup {0}]]
    /\ end      \in [Obs -> [Day -> 0..Forever]]
    /\ blob     \subseteq Row
    /\ \A r \in blob : r.start <= r.end
    /\ fetched  \in 0..today
    /\ asOf     \in 0..today

Init ==
    /\ today = 1 /\ blob = {} /\ fetched = 0 /\ asOf = 0
    /\ revision = [d \in Obs |-> [s \in Day |-> 0]]
    /\ value    = [d \in Obs |-> [s \in Day |-> 0]]
    /\ end      = [d \in Obs |-> [s \in Day |-> 0]]

-----------------------------------------------------------------------------
\* Upstream.

Published(d) == {s \in Day : revision[d][s] # 0}

\* The value of d in force on day t, 0 before its first vintage.
TrueValue(d, t) ==
    LET known == {s \in Published(d) : s <= t}
    IN  IF known = {} THEN 0 ELSE revision[d][Max(known)]

\* The interval of the vintage d got on day s.
TrueEnd(d, s) ==
    LET after == {u \in Published(d) : u > s}
    IN  IF after = {} THEN Forever ELSE Min(after) - 1

NextDay ==
    /\ today < MaxDay
    /\ today' = today + 1
    /\ UNCHANGED <<revision, stored, blob, fetched, asOf>>

\* d was revised on an earlier day that is, or is about to be, the boundary of
\* the next request, after that day's collection.
RevisedLate(d) ==
    \E s \in Published(d) : /\ s < today /\ value[d][s] = 0
                           /\ \/ \E e \in Obs : value[e][s] # 0
                              \/ \E r \in blob : r.start = s

\* A first value, a revision, or a correction on the same day.
Publish(d, v) ==
    /\ v # TrueValue(d, today) /\ v # TrueValue(d, today - 1)
    /\ Twice \/ ~RevisedLate(d)
    /\ revision' = [revision EXCEPT ![d][today] = v]
    /\ UNCHANGED <<today, stored, blob, fetched, asOf>>

-----------------------------------------------------------------------------
\* The collector.

StoredStarts == {s \in Day : \E d \in Obs : value[d][s] # 0}

\* latest_stored_vintage: over every observation date of the series.
Boundary == Max(StoredStarts)

OpenStarts(d) == {s \in Day : value[d][s] # 0 /\ s <= Boundary /\ end[d][s] = Forever}

\* A realtime window from b on: every vintage still in force on b or published
\* after it, its start clipped to b.
Response(b) ==
    UNION {{[date |-> d, start |-> (IF s < b THEN b ELSE s), end |-> TrueEnd(d, s), value |-> revision[d][s]] :
                s \in {s \in Published(d) : TrueEnd(d, s) >= b}} : d \in Obs}

\* Fault: a clipped row that closes an interval keeps the boundary as its key.
FilteredClipped(r, b) ==
    LET open  == OpenStarts(r.date)
        start == Max(open)
        held  == value[r.date][start]
    IN  IF r.start # b \/ open = {} \/ r.end # Forever THEN {r}
        ELSE IF r.value = held THEN {}
        ELSE {r} \cup (IF start = b THEN {}
                       ELSE {[date |-> r.date, start |-> start, end |-> b - 1, value |-> held]})

\* Fault: the interval a late revision replaces is left open.
FilteredUnclosed(r, b) ==
    LET open  == OpenStarts(r.date)
        start == Max(open)
    IN  IF r.start # b \/ open = {} THEN {r}
        ELSE IF r.end # Forever THEN {[r EXCEPT !.start = start]}
        ELSE IF r.value = value[r.date][start] THEN {}
        ELSE {r}

\* _filter_realtime_window_boundary_rows for one row.
Filtered(r, b) ==
    LET open  == OpenStarts(r.date)
        start == Max(open)
        held  == value[r.date][start]
    IN  IF r.start # b \/ open = {} THEN {r}
        ELSE IF r.end # Forever THEN {[r EXCEPT !.start = start]}
        ELSE IF r.value = held THEN {}
        ELSE {r} \cup (IF start = b THEN {}
                       ELSE {[date |-> r.date, start |-> start, end |-> b - 1, value |-> held]})

\* Fault: no end is derived for the rows of the wide chunks.
FullHistoryOpen ==
    UNION {{[date |-> d, start |-> s, end |-> Forever, value |-> revision[d][s]] : s \in Published(d)} : d \in Obs}

\* --backfill and a series not stored yet: vintage dates, wide chunks,
\* _derive_realtime_ends.
FullHistory ==
    UNION {{[date |-> d, start |-> s, end |-> TrueEnd(d, s), value |-> revision[d][s]] :
                s \in Published(d)} : d \in Obs}

\* A failed collection stores no run the normalizer would read, so only one
\* that succeeds shows.
Collect(backfill) ==
    /\ fetched = 0
    /\ blob' = IF backfill \/ StoredStarts = {} THEN FullHistory
               ELSE UNION {Filtered(r, Boundary) : r \in Response(Boundary)}
    /\ fetched' = today
    /\ UNCHANGED <<today, revision, stored, asOf>>

-----------------------------------------------------------------------------
\* The normalizer: bulk_upsert on (series_id, ts, realtime_start).

RowsAt(d, s) == {r \in blob : r.date = d /\ r.start = s}

Normalize ==
    /\ fetched # 0
    /\ value' = [d \in Obs |-> [s \in Day |->
                   IF RowsAt(d, s) = {} THEN value[d][s] ELSE (CHOOSE r \in RowsAt(d, s) : TRUE).value]]
    /\ end'   = [d \in Obs |-> [s \in Day |->
                   IF RowsAt(d, s) = {} THEN end[d][s] ELSE (CHOOSE r \in RowsAt(d, s) : TRUE).end]]
    /\ asOf' = fetched
    /\ fetched' = 0 /\ blob' = {}
    /\ UNCHANGED <<today, revision>>

\* The normalizer fails or never runs: its transaction leaves nothing.
Drop ==
    /\ fetched # 0
    /\ fetched' = 0 /\ blob' = {}
    /\ UNCHANGED <<today, revision, stored, asOf>>

Next ==
    \/ NextDay
    \/ \E d \in Obs, v \in Value : Publish(d, v)
    \/ \E backfill \in BOOLEAN : Collect(backfill)
    \/ Normalize
    \/ Drop

Spec == Init /\ [][Next]_vars

-----------------------------------------------------------------------------
\* Properties.

\* What the table says d was worth on day t: the values of all the intervals
\* that hold t.
ValuesOn(d, t) == {value[d][s] : s \in {u \in 1..t : value[d][u] # 0 /\ end[d][u] >= t}}

\* For every day before the last normalized collection, the stored intervals
\* say of each observation exactly what the source said that day: one value
\* where it had one, none before its first vintage. Collections meet revisions
\* in every order, are skipped, dropped and repeated, and mix with backfills
\* (fred.py's "preserving true interval closures").
HistoryIsRight ==
    \A d \in Obs, t \in 1..(asOf - 1) :
        ValuesOn(d, t) = {TrueValue(d, t)} \ {0}

\* Every stored vintage is one the source has: a start the request's window
\* clipped never becomes a key (fred.py's "keeps pseudo-vintages out").
NoPseudoVintages ==
    \A d \in Obs, s \in Day : value[d][s] # 0 => s \in Published(d)

\* A stored vintage that has been closed never changes again, whatever a later
\* incremental run or backfill brings (fred.py's "Historical FRED vintages are
\* immutable").
ClosedIsFinal ==
    [][\A d \in Obs, s \in Day :
        value[d][s] # 0 /\ end[d][s] # Forever =>
            value'[d][s] = value[d][s] /\ end'[d][s] = end[d][s]]_vars

\* latest_stored_vintage (fred.py:233): "Historical FRED vintages are immutable",
\* so a vintage from before the last normalized collection keeps its value.
\* False: a value revised after the collection of the day the next request
\* starts at, and revised again before that request, comes back as one clipped
\* and closed row, which _filter_realtime_window_boundary_rows moves onto the
\* older stored vintage it takes it to close.
VintagesAreImmutable ==
    [][\A d \in Obs, s \in 1..(asOf - 1) :
        value[d][s] # 0 => value'[d][s] = value[d][s]]_vars
=============================================================================
