------------------------------- MODULE Paging -------------------------------
(***************************************************************************)
(* The four paging loops of the collectors, each over a list that may grow *)
(* while it is being read: EIA (offset, first page's total), Treasury      *)
(* (page numbers, first page's total-pages), Etherscan's txlist (until a   *)
(* short page) and Sui's validators (cursor, one epoch).                   *)
(*                                                                         *)
(* Data.  A row is a date and, where several rows share one, a tie: the    *)
(* rates of a Treasury day, and of an EIA period the facet projections and *)
(* revisions that its normalizer expects.  New rows come with the latest   *)
(* date.                                                                   *)
(***************************************************************************)
EXTENDS Naturals, Sequences, FiniteSets, SequencesExt

CONSTANTS
    PageSize,   \* rows of a full page
    MaxPages,   \* the safety ceiling of EIA and Treasury
    MaxDate     \* bound: dates upstream publishes

Loop == {"eia", "treasury", "etherscan", "sui"}
Row  == [date : 1..MaxDate, tie : 1..2]

VARIABLES
    loop,      \* the loop that runs
    tied,      \* TRUE: the endpoint lists two rows a date
    upstream,  \* the rows the server holds
    atStart,   \* those it held when the loop asked for its first page
    epoch,     \* Sui's current epoch
    page,      \* number of the page to ask for next
    total,     \* what the first page said: rows or pages, {} if it says none
    began,     \* the epoch the first page named
    data,      \* rows accumulated
    outcome    \* "running", "returned" or "raised"

pagingVars == <<loop, tied, upstream, atStart, epoch, page, total, began, data, outcome>>

Listed(dates) == {r \in Row : r.date \in dates /\ (~tied => r.tie = 1)}

Init ==
    /\ loop \in Loop /\ tied \in BOOLEAN /\ (tied => loop \in {"eia", "treasury"})
    /\ \E d \in 0..MaxDate : upstream = Listed(1..d)
    /\ atStart = {} /\ data = <<>>
    /\ epoch = 1 /\ began = 0
    /\ page = 1 /\ total = {} /\ outcome = "running"

Latest == IF upstream = {} THEN 0 ELSE CHOOSE d \in 1..MaxDate :
             /\ \E r \in upstream : r.date = d
             /\ \A r \in upstream : r.date <= d

\* A day's rows appear, all of them at once; an epoch's validators are fixed.
Publish ==
    /\ outcome = "running" /\ loop # "sui" /\ Latest < MaxDate
    /\ upstream' = upstream \cup Listed({Latest + 1})
    /\ UNCHANGED <<loop, tied, atStart, epoch, page, total, began, data, outcome>>

\* A new epoch has its own list of validators.
NextEpoch ==
    /\ outcome = "running" /\ loop = "sui" /\ epoch = 1
    /\ epoch' = 2
    /\ \E d \in 1..MaxDate : upstream' = Listed(d..MaxDate)
    /\ UNCHANGED <<loop, tied, atStart, page, total, began, data, outcome>>

-----------------------------------------------------------------------------
Before(a, b) == a.date < b.date \/ (a.date = b.date /\ a.tie < b.tie)
Newest(a, b) == Before(b, a)

\* The rows, each where as many come before it as its place says.
Sorted(before(_, _)) ==
    [k \in 1..Cardinality(upstream) |->
        CHOOSE r \in upstream : Cardinality({q \in upstream : before(q, r)}) = k - 1]

Ascending == {Sorted(Before)}

Swapped(r, dates) == IF tied /\ r.date \in dates THEN [r EXCEPT !.tie = 3 - @] ELSE r

\* Ascending by date alone: the rows of one date come in any order, which the
\* server may choose again for each request.
AscendingByDate ==
    LET order == Sorted(Before)
    IN  {[k \in DOMAIN order |-> Swapped(order[k], dates)] : dates \in SUBSET {r.date : r \in upstream}}

\* Fault: rows of one date come in any order.
SortFieldsUntied == AscendingByDate

\* _sort_fields: the date and, on endpoints with several rows a date, their
\* tie-breakers.
SortFields == Ascending

\* Fault: EIA's newest rows first.
EiaOrderNewest == {Sorted(Newest)}

\* EIA build_page_url: ascending by period, and by nothing else.
EiaOrder == AscendingByDate

Rows(order, n) ==
    SubSeq(order, (n - 1) * PageSize + 1,
           IF n * PageSize < Len(order) THEN n * PageSize ELSE Len(order))

Read(rows) ==
    /\ data' = data \o rows
    /\ page' = page + 1
    /\ atStart' = IF page = 1 THEN upstream ELSE atStart

Settle(done) ==
    outcome' = IF done THEN "returned" ELSE IF page = MaxPages THEN "raised" ELSE "running"

\* _extract_total, _extract_total_pages: what the first page says, if it can be read.
Said(count) == IF page = 1 THEN {{}, {count}} ELSE {total}
PageCount   == (Cardinality(upstream) + PageSize - 1) \div PageSize

\* EIA _fetch_all_pages.
EiaPage ==
    /\ loop = "eia" /\ outcome = "running"
    /\ \E order \in EiaOrder, t \in Said(Cardinality(upstream)) :
          LET rows == Rows(order, page) IN
          /\ Read(rows) /\ total' = t
          /\ Settle(IF t = {} THEN Len(rows) < PageSize ELSE \A n \in t : Len(data) + Len(rows) >= n)
    /\ UNCHANGED <<loop, tied, upstream, epoch, began>>

\* Treasury _fetch_all_pages.
TreasuryPage ==
    /\ loop = "treasury" /\ outcome = "running"
    /\ \E order \in SortFields, t \in Said(PageCount) :
          LET rows == Rows(order, page) IN
          /\ Read(rows) /\ total' = t
          /\ Settle(IF t = {} THEN Len(rows) < PageSize ELSE \A n \in t : page >= n)
    /\ UNCHANGED <<loop, tied, upstream, epoch, began>>

\* fetch_txlist: no ceiling; after a full last page the next one says "no
\* transactions found", which is an empty page.
EtherscanPage ==
    /\ loop = "etherscan" /\ outcome = "running"
    /\ \E order \in Ascending :
          LET rows == Rows(order, page) IN
          /\ Read(rows)
          /\ outcome' = IF Len(rows) < PageSize THEN "returned" ELSE "running"
    /\ UNCHANGED <<loop, tied, upstream, epoch, total, began>>

\* Fault: the epoch is not compared between pages.
SuiPageAnyEpoch ==
    /\ loop = "sui" /\ outcome = "running"
    /\ \E order \in Ascending :
          LET rows == Rows(order, page) IN
          /\ Read(rows)
          /\ began' = IF page = 1 THEN epoch ELSE began
          /\ outcome' = IF page * PageSize >= Len(order) THEN "returned" ELSE "running"
    /\ UNCHANGED <<loop, tied, upstream, epoch, total>>

\* fetch_active_validators: a page of another epoch ends the run.
SuiPage ==
    /\ loop = "sui" /\ outcome = "running"
    /\ IF page > 1 /\ epoch # began
       THEN outcome' = "raised" /\ UNCHANGED <<data, page, atStart, began>>
       ELSE \E order \in Ascending :
               LET rows == Rows(order, page) IN
               /\ Read(rows)
               /\ began' = IF page = 1 THEN epoch ELSE began
               /\ outcome' = IF page * PageSize >= Len(order) THEN "returned" ELSE "running"
    /\ UNCHANGED <<loop, tied, upstream, epoch, total>>

\* A request fails for good: every loop raises.
PageFails ==
    /\ outcome = "running"
    /\ outcome' = "raised"
    /\ UNCHANGED <<loop, tied, upstream, atStart, epoch, page, total, began, data>>

Next == Publish \/ NextEpoch \/ EiaPage \/ TreasuryPage \/ EtherscanPage \/ SuiPage \/ PageFails

Spec == Init /\ [][Next]_pagingVars

-----------------------------------------------------------------------------
\* A loop that returns has every row the server held when it began, and none
\* twice, whatever was published between its pages: the rows keep their places in
\* the sort order, ties are broken, and Sui's pages are of one epoch.
EveryRowOnce == atStart \subseteq ToSet(data) /\ IsInjective(data)

\* EIA's ties are not broken: where several rows share a period the loop returns
\* as many rows of it as there were, but a period cut in two by the end of a page
\* may bring one of its rows twice and another not at all. build_page_url says
\* that page boundaries "cannot duplicate or skip rows"; that holds of a series
\* with one row a period, and of the rest this much.
EveryPeriodInNumber ==
    \A d \in 1..MaxDate :
        Cardinality({r \in atStart : r.date = d}) <= Cardinality({k \in DOMAIN data : data[k].date = d})

PagesLoseNothing ==
    outcome = "returned" =>
        IF loop = "eia" /\ tied THEN EveryPeriodInNumber ELSE EveryRowOnce
=============================================================================
