---------------------------- MODULE CollectorRuns ----------------------------
(***************************************************************************)
(* One run of each collector that walks a list of targets: what it stores  *)
(* when some requests fail or come back unusable, what it names in the     *)
(* run's partial_endpoints, and whether the run succeeds.  The paging      *)
(* inside one target is in Paging, the run row and its commits in          *)
(* IngestPipeline.                                                         *)
(*                                                                         *)
(* Data.  A request is a target and a part: the chunk of a backfill, a     *)
(* coin's metadata and chart, a company's submissions and facts, a day of  *)
(* the whale flows.  Target 0 is what is asked once: top ranks, the block  *)
(* numbers of a day.  An answer is usable, lost (timeout, network), an     *)
(* HTTP error that outlived the retries, a 200 of the wrong shape, or one  *)
(* of the right shape with nothing usable in it; the last is a payload     *)
(* like any other to a collector that only stores what it gets.            *)
(***************************************************************************)
EXTENDS Naturals, Sequences, FiniteSets, SequencesExt

Request == [target : 0..2, part : 1..2]
Answer  == {"ok", "lost", "status", "odd", "hollow"}
Source  == {"bea", "eia", "treasury", "coinbase", "yahoo", "coingecko", "sec", "cftc", "bitwise",
            "sec_etf_shares", "etherscan", "ishares", "sui_staking", "sui_unlocks", "zcash"}

VARIABLES
    source,
    answer,     \* what the server answers to each request of the run
    todo,       \* the requests left, in the order of the code
    blobs,      \* requests whose payload is stored: every blob commits on its own
    staged,     \* parsed and not yet written
    rows,       \* requests whose rows are in the source's table
    failures,   \* the list the run gathers
    partial,    \* metadata.partial_endpoints
    run         \* "running", "success" or "failed"

collectorVars == <<source, answer, todo, blobs, staged, rows, failures, partial, run>>

At(t, p) == [target |-> t, part |-> p]

ByTarget == <<At(1, 1), At(1, 2), At(2, 1), At(2, 2)>>
OnePart  == <<At(1, 1), At(2, 1)>>
ByDay    == <<At(0, 1), At(1, 1), At(2, 1), At(0, 2), At(1, 2), At(2, 2)>>

Single == {"ishares", "sui_staking", "sui_unlocks", "zcash"}

\* The daily run of each source, and the chunks of a backfill.
Plan(s) ==
    CASE s \in {"coinbase", "yahoo"}  -> {OnePart, ByTarget}
      [] s = "coingecko"              -> {ByTarget, Append(ByTarget, At(0, 1))}
      [] s = "sec"                    -> {ByTarget}
      [] s = "etherscan"              -> {ByDay, SubSeq(ByDay, 1, 3)}
      [] s \in Single                 -> {<<At(1, 1)>>}
      [] OTHER                        -> {OnePart}

\* The collectors that parse what they fetch; the others leave it to a normalizer.
Parses == {"cftc", "bitwise", "sec_etf_shares", "etherscan"} \cup Single

Answers(s) == IF s \in Parses THEN Answer ELSE Answer \ {"hollow"}

Init ==
    /\ source \in Source
    /\ todo \in Plan(source)
    /\ answer \in [ToSet(todo) -> Answers(source)]
    /\ blobs = {} /\ staged = {} /\ rows = {} /\ failures = {} /\ partial = {}
    /\ run = "running"

Asked == DOMAIN answer

-----------------------------------------------------------------------------
\* One request.

Next1 == todo' = Tail(todo)

\* A target whose unusable answers in soft are failures to be told at the end;
\* any other ends the run where it stands.
Fetch(s, soft) ==
    /\ source = s /\ run = "running" /\ todo # <<>>
    /\ LET r == Head(todo) IN
       /\ blobs'    = blobs \cup {x \in {r} : answer[x] = "ok"}
       /\ failures' = failures \cup {x \in {r} : answer[x] \in soft}
       /\ run'      = IF answer[r] \in soft \cup {"ok"} THEN run ELSE "failed"
    /\ Next1
    /\ UNCHANGED <<source, answer, staged, rows, partial>>

Bad   == {"lost", "status", "odd"}
Shown == {"ok", "odd", "hollow"}

\* Fault: the first unusable target ends the run.
BeaTargetRaises == Fetch("bea", {})

\* bea _fetch_target: a 200 with an error envelope is a failure like any other.
BeaTarget == Fetch("bea", Bad)

\* eia _fetch_target: so is an envelope or a page sequence that does not add up.
EiaTarget == Fetch("eia", Bad)

\* treasury _fetch_target.
TreasuryTarget == Fetch("treasury", Bad)

\* coinbase _fetch_named_window: a payload that is no list of candles.
CoinbaseWindow == Fetch("coinbase", Bad)

\* yahoo _fetch_window: no chart, or a chart with an error.
YahooWindow == Fetch("yahoo", Bad)

\* coingecko _fetch_and_store: a chart's shape is not looked at, metadata's is.
FetchAndStore(r) ==
    LET ok == answer[r] = "ok" \/ (r.part = 2 /\ answer[r] = "odd")
    IN  /\ blobs'    = blobs \cup {x \in {r} : ok}
        /\ failures' = failures \cup {x \in {r} : ~ok}

\* _fetch_coin_pair: after metadata that failed the chart is not asked for.
CoinPair ==
    /\ source = "coingecko" /\ run = "running" /\ todo # <<>> /\ Head(todo).target # 0
    /\ FetchAndStore(Head(todo))
    /\ todo' = IF Head(todo) \in failures' /\ Head(todo).part = 1 THEN Tail(Tail(todo)) ELSE Tail(todo)
    /\ UNCHANGED <<source, answer, staged, rows, partial, run>>

\* _fetch_market_ranks: optional.
MarketRanks ==
    /\ source = "coingecko" /\ run = "running" /\ todo # <<>> /\ Head(todo).target = 0
    /\ blobs'    = blobs \cup {r \in {Head(todo)} : answer[r] = "ok"}
    /\ failures' = failures \cup {r \in {Head(todo)} : answer[r] # "ok"}
    /\ Next1
    /\ UNCHANGED <<source, answer, staged, rows, partial, run>>

\* sec _fetch_blob: any JSON is stored.
FetchBlob(r) ==
    /\ blobs'    = blobs \cup {x \in {r} : answer[x] \in {"ok", "odd"}}
    /\ failures' = failures \cup {x \in {r} : answer[x] \in {"lost", "status"}}

\* sec _fetch_company_pair: without submissions the facts are not asked for;
\* submissions that are no object raise out of the loop.
CompanyPair ==
    /\ source = "sec" /\ run = "running" /\ todo # <<>>
    /\ LET r == Head(todo) IN
       /\ FetchBlob(r)
       /\ todo' = IF r \in failures' /\ r.part = 1 THEN Tail(Tail(todo)) ELSE Tail(todo)
       /\ run'  = IF r.part = 1 /\ answer[r] = "odd" THEN "failed" ELSE run
    /\ UNCHANGED <<source, answer, staged, rows, partial>>

\* cftc collect's loop: each market's rows commit on their own; a list without a
\* usable report is "no new reports", and a payload that is no list raises out of
\* the loop, after its blob is stored.
CftcMarket ==
    /\ source = "cftc" /\ run = "running" /\ todo # <<>>
    /\ LET r == Head(todo) IN
       /\ blobs'    = blobs \cup {x \in {r} : answer[x] \in Shown}
       /\ rows'     = rows \cup {x \in {r} : answer[x] = "ok"}
       /\ failures' = failures \cup {x \in {r} : answer[x] \in {"lost", "status"}}
       /\ run'      = IF answer[r] = "odd" THEN "failed" ELSE run
    /\ Next1
    /\ UNCHANGED <<source, answer, staged, partial>>

\* Fault: a page without a usable snapshot is passed over in silence.
BitwiseFundSilent ==
    /\ source = "bitwise" /\ run = "running" /\ todo # <<>>
    /\ blobs'    = blobs \cup {x \in {Head(todo)} : answer[x] \in Shown}
    /\ staged'   = staged \cup {x \in {Head(todo)} : answer[x] = "ok"}
    /\ failures' = failures \cup {x \in {Head(todo)} : answer[x] \in {"lost", "status"}}
    /\ Next1
    /\ UNCHANGED <<source, answer, rows, partial, run>>

\* bitwise collect's loop: parse_snapshot turns down an incomplete or
\* inconsistent page, which is then named.
BitwiseFund ==
    /\ source = "bitwise" /\ run = "running" /\ todo # <<>>
    /\ blobs'    = blobs \cup {x \in {Head(todo)} : answer[x] \in Shown}
    /\ staged'   = staged \cup {x \in {Head(todo)} : answer[x] = "ok"}
    /\ failures' = failures \cup {x \in {Head(todo)} : answer[x] # "ok"}
    /\ Next1
    /\ UNCHANGED <<source, answer, rows, partial, run>>

\* sec_etf_shares collect's loop: facts without a checkpoint give no rows and are
\* not named; a payload without facts is stored and raises out of the loop.
ShareFund ==
    /\ source = "sec_etf_shares" /\ run = "running" /\ todo # <<>>
    /\ LET r == Head(todo) IN
       /\ blobs'    = blobs \cup {x \in {r} : answer[x] \in Shown}
       /\ staged'   = staged \cup {x \in {r} : answer[x] = "ok"}
       /\ failures' = failures \cup {x \in {r} : answer[x] \in {"lost", "status"}}
       /\ run'      = IF answer[r] = "odd" THEN "failed" ELSE run
    /\ Next1
    /\ UNCHANGED <<source, answer, rows, partial>>

\* etherscan collect, the block numbers a day begins and ends at: any failure
\* ends the run.
BlockProbe ==
    /\ source = "etherscan" /\ run = "running" /\ todo # <<>> /\ Head(todo).target = 0
    /\ staged = {}
    /\ run' = IF answer[Head(todo)] = "ok" THEN run ELSE "failed"
    /\ Next1
    /\ UNCHANGED <<source, answer, blobs, staged, rows, failures, partial>>

LastOfDay == Len(todo) = 1 \/ todo[2].target = 0

\* etherscan collect, one address of a day, and after the last one the day's
\* upsert; a day without a row ends the run.  What comes is stored before it is
\* looked at, transactions that cannot be read move nothing and the address has
\* its row, and an HTTP error is not among the failures the loop goes on after.
WhaleAddress ==
    /\ source = "etherscan" /\ run = "running" /\ todo # <<>> /\ Head(todo).target # 0
    /\ LET r    == Head(todo)
           got  == staged \cup {x \in {r} : answer[x] \in {"ok", "hollow"}}
           lost == failures \cup {x \in {r} : answer[x] \in {"lost", "odd"}}
       IN  /\ blobs' = blobs \cup {x \in {r} : answer[x] \in Shown}
           /\ failures' = lost
           /\ IF answer[r] = "status" THEN run' = "failed" /\ UNCHANGED <<staged, rows, partial>>
              ELSE IF ~LastOfDay THEN staged' = got /\ UNCHANGED <<rows, partial, run>>
              ELSE IF got = {} THEN run' = "failed" /\ partial' = lost /\ UNCHANGED <<staged, rows>>
              ELSE rows' = rows \cup got /\ staged' = {} /\ UNCHANGED <<partial, run>>
    /\ Next1
    /\ UNCHANGED <<source, answer>>

\* The one request of a run: the answers that are stored, those that are named,
\* and those that end the run as a failure.
SinglePayload(s, stored, named, raised) ==
    /\ source = s /\ run = "running" /\ todo # <<>>
    /\ LET r == Head(todo) IN
       /\ blobs'   = blobs \cup {x \in {r} : answer[x] \in stored}
       /\ rows'    = rows \cup {x \in {r} : answer[x] = "ok"}
       /\ partial' = partial \cup {x \in {r} : answer[x] \in named}
       /\ run'     = IF answer[r] \in raised THEN "failed" ELSE "success"
    /\ Next1
    /\ UNCHANGED <<source, answer, staged, failures>>

\* ishares collect: a payload that is no object raises and is not named; a screener
\* without the funds, or with no usable one, is a success of no rows.
Ishares == SinglePayload("ishares", Shown, {"lost", "status"}, Bad)

\* sui_staking collect: a page of the wrong shape raises before any page is stored,
\* an epoch that does not parse after that; validators that cannot be read are
\* passed over, and none at all is a success of no rows.
SuiValidators ==
    \E stored \in {{"ok", "hollow"}, Shown} : SinglePayload("sui_staking", stored, Bad, Bad)

\* sui_unlocks collect: no usable series raises.
SuiUnlocks == SinglePayload("sui_unlocks", Shown, Bad \cup {"hollow"}, Bad \cup {"hollow"})

\* zcash_usage collect: no usable pool raises too.
ZcashPools == SinglePayload("zcash", Shown, Bad \cup {"hollow"}, Bad \cup {"hollow"})

-----------------------------------------------------------------------------
\* The end of a run.

\* Everything that failed is named first; required is what fails the run.
Ends(s, required) ==
    /\ source = s /\ run = "running" /\ todo = <<>>
    /\ partial' = failures
    /\ run' = IF failures \cap required = {} THEN "success" ELSE "failed"
    /\ UNCHANGED <<source, answer, todo, blobs, staged, rows, failures>>

\* bea, eia, treasury, sec collect; coinbase and yahoo collect and backfill;
\* cftc collect: one failure fails the run.
BeaEnds      == Ends("bea", Request)
EiaEnds      == Ends("eia", Request)
TreasuryEnds == Ends("treasury", Request)
CoinbaseEnds == Ends("coinbase", Request)
YahooEnds    == Ends("yahoo", Request)
SecEnds      == Ends("sec", Request)
CftcEnds     == Ends("cftc", Request)

\* Fault: the optional endpoints are required.
CoinGeckoEndsAll == Ends("coingecko", Request)

\* coingecko collect: target 1 is required, 2 and the ranks are not.
CoinGeckoEnds == Ends("coingecko", {At(1, 1), At(1, 2)})

\* bitwise collect after the loop: no snapshot at all fails the run, and one
\* upsert writes the rest.
BitwiseEnds ==
    /\ source = "bitwise" /\ run = "running" /\ todo = <<>>
    /\ partial' = failures
    /\ rows' = rows \cup staged
    /\ run' = IF staged = {} THEN "failed" ELSE "success"
    /\ UNCHANGED <<source, answer, todo, blobs, staged, failures>>

\* sec_etf_shares collect after the loop.
ShareFundsEnd ==
    /\ source = "sec_etf_shares" /\ run = "running" /\ todo = <<>>
    /\ partial' = failures
    /\ rows' = rows \cup staged
    /\ run' = IF staged = {} THEN "failed" ELSE "success"
    /\ UNCHANGED <<source, answer, todo, blobs, staged, failures>>

\* etherscan collect after the last day.
WhaleEnds == Ends("etherscan", {})

Next ==
    \/ BeaTarget \/ EiaTarget \/ TreasuryTarget \/ CoinbaseWindow \/ YahooWindow
    \/ CoinPair \/ MarketRanks \/ CompanyPair \/ CftcMarket \/ BitwiseFund \/ ShareFund
    \/ BlockProbe \/ WhaleAddress \/ Ishares \/ SuiValidators \/ SuiUnlocks \/ ZcashPools
    \/ BeaEnds \/ EiaEnds \/ TreasuryEnds \/ CoinbaseEnds \/ YahooEnds \/ SecEnds \/ CftcEnds
    \/ CoinGeckoEnds \/ BitwiseEnds \/ ShareFundsEnd \/ WhaleEnds

Spec == Init /\ [][Next]_collectorVars

-----------------------------------------------------------------------------
\* Where a request's data go.
Arrived == IF source \in Parses THEN rows ELSE blobs

\* Those that let a 200 with nothing usable pass without a word: no new reports, no
\* checkpoint, no fund, no validator.
Lenient == {"cftc", "sec_etf_shares", "ishares", "sui_staking"}

\* A run that succeeded has everything it set out to fetch, or names what it
\* has not: what was asked and lost, and what it never asked for because an
\* earlier part was lost (by that part).
SuccessAccountsForAll ==
    run = "success" =>
        \A r \in Asked : \/ r \in Arrived \cup partial
                         \/ r.target = 0 /\ source = "etherscan"
                         \/ At(r.target, 1) \in partial
                         \/ answer[r] = "hollow" /\ source \in Lenient

\* What the loop of each collector goes on after; anything else ends the run.
Soft(s) == CASE s \in {"cftc", "sec_etf_shares", "sec"} -> Answer \ {"odd"}
             [] s = "etherscan" -> Answer \ {"status"}
             [] OTHER -> Answer

\* One target's trouble is its own: when a run is over, however it ended, each
\* target that answered well all the way has arrived, whatever the others
\* answered, unless one of them failed in a way the loop does not expect, the
\* blocks of a day could not be found, or a whole day had no address.
HealthyTargetsArrive ==
    /\ run # "running"
    /\ \A r \in Asked : answer[r] \in Soft(source)
    /\ source = "etherscan" =>
          \A d \in {r.part : r \in Asked} : /\ answer[At(0, d)] = "ok"
                                            /\ \E t \in 1..2 : answer[At(t, d)] \in {"ok", "hollow"}
    => \A r \in Asked :
          (r.target # 0 /\ \A q \in Asked : q.target = r.target => answer[q] = "ok") => r \in Arrived

\* A run fails only for something it was bound to have: the optional coin and
\* the top ranks of CoinGecko, one fund or address among several, do not; a fund's
\* payload without facts does, and so does an address's HTTP error.
OptionalNeverFails ==
    run = "failed" =>
        CASE source = "coingecko" -> \E r \in Asked : r.target = 1 /\ answer[r] # "ok"
          [] source = "bitwise" -> \A r \in Asked : answer[r] # "ok"
          [] source = "sec_etf_shares" ->
               \/ \E r \in Asked : answer[r] = "odd"
               \/ \A r \in Asked : answer[r] # "ok"
          [] source = "etherscan" ->
               \E r \in Asked : \/ answer[r] = "status"
                                \/ r.target = 0 /\ answer[r] # "ok"
                                \/ /\ r.target # 0
                                   /\ {answer[r], answer[At(3 - r.target, r.part)]} \subseteq {"lost", "odd"}
          [] OTHER -> \E r \in Asked : answer[r] \in Bad \cup {"hollow"}

\* The three together: what the run row and the lake say of a run is true,
\* wherever its requests failed.
RunsAreHonest == SuccessAccountsForAll /\ HealthyTargetsArrive /\ OptionalNeverFails
=============================================================================
