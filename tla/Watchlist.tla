------------------------------- MODULE Watchlist -------------------------------
(***************************************************************************)
(* The watchlist file, as its loader, the collectors' target lists and the *)
(* two price resolvers (the read API's and the command line's) read it.    *)
(* An author adds entries to its sections; nothing checks the file before  *)
(* a program loads it.                                                     *)
(*                                                                         *)
(* Data.  A key stands for the symbol, CIK, code or id a section is looked *)
(* up by, letter case and padding folded; ref for the coin or the product  *)
(* an entry names. An entry is usable, or incomplete (its key can be read, *)
(* another field is unfit), or unreadable.                                 *)
(***************************************************************************)
EXTENDS Naturals, Sequences, FiniteSets, FiniteSetsExt, SequencesExt

CONSTANTS
    Key, Ref,
    MaxEntries      \* bound: entries in the file

VARIABLE file       \* the entries, section after section

Sections == <<"crypto", "crypto_price_targets", "equities", "macro_series", "protocols", "filers",
              "benchmarks", "yahoo_price_targets", "cot_markets", "etf_tickers",
              "eth_whale_addresses", "bea", "treasury", "eia">>

\* The sections that name a coin; crypto entries may have it traded at Coinbase.
OfCoins == {"crypto", "crypto_price_targets", "protocols"}

Entry == [section : ToSet(Sections), key : Key, ref : Ref, traded : BOOLEAN,
          fate : {"usable", "incomplete", "unreadable"}]

\* Entries that differ only in what nobody reads are one entry.
Plain(e) ==
    /\ e.section \notin OfCoins => e.ref = Min(Ref)
    /\ e.section # "crypto" => ~e.traded
    /\ e.fate = "unreadable" => e.key = Min(Key)
    /\ e.fate # "usable" => e.ref = Min(Ref) /\ ~e.traded

\* Read by one program, and without regard to any other section: such entries
\* stand beside their own kind only.
Alone == {"macro_series", "filers", "cot_markets", "eth_whale_addresses", "bea", "treasury", "eia"}

Init == file = <<>>

Add(e) ==
    /\ Len(file) < MaxEntries
    /\ file # <<>> => SelectInSeq(Sections, LAMBDA s : s = Last(file).section)
                        <= SelectInSeq(Sections, LAMBDA s : s = e.section)
    /\ \A i \in DOMAIN file :
          file[i].section = e.section \/ {file[i].section, e.section} \cap Alone = {}
    /\ file' = Append(file, e)

Next == \E e \in {e \in Entry : Plain(e)} : Add(e)

Spec == Init /\ [][Next]_file

-----------------------------------------------------------------------------
\* load_watchlist.

\* These sections keep every entry; a lookup takes the first.
KeepsAll == {"crypto", "equities", "macro_series", "protocols"}

\* Fault: a key counts as seen before the entry's other fields are checked.
KeepSeenEarly(pass, f, i) ==
    IF f[i].fate = "unreadable" \/ (f[i].section \notin KeepsAll /\ f[i].key \in pass.seen) THEN pass
    ELSE [seen |-> pass.seen \cup {f[i].key},
          kept |-> IF f[i].fate = "usable" THEN pass.kept \cup {i} ELSE pass.kept]

\* The first entry of a key is kept, here by its place in the file. Only an ETF
\* ticker counts as seen before its issuer is checked.
Keep(pass, f, i) ==
    IF \/ f[i].fate = "unreadable"
       \/ f[i].fate = "incomplete" /\ f[i].section # "etf_tickers"
       \/ f[i].section \notin KeepsAll /\ f[i].key \in pass.seen
    THEN pass
    ELSE [seen |-> pass.seen \cup {f[i].key},
          kept |-> IF f[i].fate = "usable" THEN pass.kept \cup {i} ELSE pass.kept]

\* The loop over a section.
Section(f, section) ==
    LET pass[i \in 0..Len(f)] ==
            IF i = 0 THEN [seen |-> {}, kept |-> {}]
            ELSE IF f[i].section = section THEN Keep(pass[i - 1], f, i) ELSE pass[i - 1]
    IN  pass[Len(f)].kept

In(f, section) == {i \in DOMAIN f : f[i].section = section}

\* An unfit whale address raises, unless it repeats an earlier one: then the
\* whole file fails to load, for every program.
Loads(f) ==
    LET whales == In(f, "eth_whale_addresses")
    IN \A i \in whales :
          \/ f[i].fate = "usable"
          \/ /\ f[i].fate = "incomplete"
             /\ \E j \in whales : j < i /\ f[j].fate # "unreadable" /\ f[j].key = f[i].key

None == 0

First(places) == IF places = {} THEN None ELSE Min(places)

\* The find_... lookups: the first entry of the key.
Find(f, section, k) == First({i \in Section(f, section) : f[i].key = k})

Has(f, section, k) == Find(f, section, k) # None

Sleeves == <<"crypto", "equities", "macro_series", "protocols", "filers">>

\* The first sleeve, in this order, that has the label.
Classify(f, k) ==
    LET sleeves == SelectSeq(Sleeves, LAMBDA s : Has(f, s, k))
    IN IF sleeves = <<>> THEN "unknown" ELSE Head(sleeves)

-----------------------------------------------------------------------------
\* The collectors' target lists; Exit is a loader that raises SystemExit.

Exit == {None}

Keys(f, places) == {f[i].key : i \in places}
Refs(f, places) == {f[i].ref : i \in places}

\* Yahoo's load_equities: four sections share one name space.
YahooSymbols(f) ==
    LET all == UNION {Section(f, s) : s \in {"equities", "benchmarks", "etf_tickers", "yahoo_price_targets"}}
    IN IF all = {} \/ Cardinality(Keys(f, all)) # Cardinality(all) THEN Exit ELSE all

\* Coinbase's load_products.
CoinbaseProducts(f) ==
    LET traded == {i \in Section(f, "crypto") : f[i].traded}
    IN IF traded = {} \/ Cardinality(Refs(f, traded)) # Cardinality(traded) THEN Exit ELSE traded

\* Fault: the first section to name a coin says whether it is required.
AddFirstOnly(targets, e) ==
    IF \E t \in targets : t.coin = e.ref THEN targets
    ELSE targets \cup {[coin |-> e.ref, required |-> e.section # "crypto_price_targets"]}

\* A coin is fetched once, and required if any section requires it.
AddCoinTarget(targets, e) ==
    LET named == {t \in targets : t.coin = e.ref}
    IN (targets \ named) \cup
          {[coin |-> e.ref,
            required |-> e.section # "crypto_price_targets" \/ \E t \in named : t.required]}

\* CoinGecko's load_coins: the loops over three sections, in their order.
Coins(f) ==
    LET named == UNION {Section(f, s) : s \in OfCoins}
        targets[i \in 0..Len(f)] ==
            IF i = 0 THEN {}
            ELSE IF i \in named THEN AddCoinTarget(targets[i - 1], f[i]) ELSE targets[i - 1]
    IN  targets[Len(f)]

\* FRED's load_series refuses a series twice; the file's other sections have
\* no duplicates left, or the collector fetches each request once.
FredSeries(f) ==
    LET series == Section(f, "macro_series")
    IN IF series = {} \/ Cardinality(Keys(f, series)) # Cardinality(series) THEN Exit ELSE series

\* DefiLlama goes on without its per-protocol endpoints.
ProtocolSlugs(f) == IF Loads(f) THEN Keys(f, Section(f, "protocols")) ELSE {}

-----------------------------------------------------------------------------
\* What a request for a ticker's prices reads: a source and the id there.

Sources == {"coingecko", "coinbase", "yahoo"}

Refused == [source |-> "none", id |-> 0]

OnYahoo(f, k) == Has(f, "equities", k) \/ Has(f, "benchmarks", k) \/ Has(f, "yahoo_price_targets", k)

\* A crypto entry comes before a price target.
Coin(f, k) == IF Has(f, "crypto", k) THEN Find(f, "crypto", k) ELSE Find(f, "crypto_price_targets", k)

Read(f, k, source) ==
    [source |-> source, id |-> IF source = "yahoo" THEN k ELSE f[Coin(f, k)].ref]

\* GET /prices/{ticker}; source "any" is none given.
ApiPrices(f, k, source) ==
    LET coin == Coin(f, k) # None
        from == IF source # "any" THEN source ELSE IF OnYahoo(f, k) THEN "yahoo" ELSE "coingecko"
    IN IF \/ ~coin /\ ~OnYahoo(f, k)
          \/ source = "any" /\ coin /\ OnYahoo(f, k)
          \/ from = "coingecko" /\ ~coin
          \/ from = "coinbase" /\ ~(Has(f, "crypto", k) /\ f[Find(f, "crypto", k)].traded)
          \/ from = "yahoo" /\ ~OnYahoo(f, k)
       THEN Refused ELSE Read(f, k, from)

\* genkei prices. The checks come in another order and split other cases.
CliPrices(f, k, source) ==
    LET coin == Coin(f, k) # None
        from == IF source # "any" THEN source ELSE IF OnYahoo(f, k) THEN "yahoo" ELSE "coingecko"
    IN IF \/ ~coin /\ ~OnYahoo(f, k)
          \/ source = "any" /\ coin /\ OnYahoo(f, k)
          \/ ~coin /\ from # "yahoo"
          \/ ~OnYahoo(f, k) /\ from = "yahoo"
          \/ from = "coinbase" /\ ~Has(f, "crypto", k)
          \/ from = "coinbase" /\ ~f[Find(f, "crypto", k)].traded
       THEN Refused ELSE Read(f, k, from)

-----------------------------------------------------------------------------
\* A usable entry is found, whatever stands beside it: the first of its key.
\* An ETF ticker may be lost to an earlier entry without an issuer.
UsableIsFound ==
    Loads(file) =>
    \A s \in ToSet(Sections), k \in Key :
        LET usable == {i \in In(file, s) : file[i].key = k /\ file[i].fate = "usable"}
        IN usable # {} =>
              \/ Find(file, s, k) = Min(usable)
              \/ /\ s = "etf_tickers"
                 /\ \E i \in In(file, s) :
                       i < Min(usable) /\ file[i].key = k /\ file[i].fate = "incomplete"

\* The API and the command line read the same prices for a ticker, or both
\* refuse it.
ResolversAgree ==
    \A k \in Key, source \in Sources \cup {"any"} : ApiPrices(file, k, source) = CliPrices(file, k, source)

\* What the resolvers read, a collector fetches, unless it refuses the file.
ResolvedIsCollected ==
    \A k \in Key, source \in Sources \cup {"any"} :
        LET read == ApiPrices(file, k, source)
        IN /\ read.source = "coingecko" => \E t \in Coins(file) : t.coin = read.id
           /\ read.source = "coinbase" /\ CoinbaseProducts(file) # Exit =>
                 read.id \in Refs(file, CoinbaseProducts(file))
           /\ read.source = "yahoo" /\ YahooSymbols(file) # Exit =>
                 read.id \in Keys(file, YahooSymbols(file))

\* A coin is fetched once, and required if some section requires it, wherever else
\* it is named.
RequiredStaysRequired ==
    \A t \in Coins(file) :
        /\ t.required <=> \E s \in {"crypto", "protocols"} : t.coin \in Refs(file, Section(file, s))
        /\ \A u \in Coins(file) : u.coin = t.coin => u = t

\* The file means the same to everyone who reads it.
FileIsOneTruth == UsableIsFound /\ ResolversAgree /\ ResolvedIsCollected /\ RequiredStaysRequired
=============================================================================
