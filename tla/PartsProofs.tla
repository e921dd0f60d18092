------------------------------ MODULE PartsProofs ------------------------------
(***************************************************************************)
(* Two parts of the lake on their own, apart from its other variables.     *)
(*                                                                         *)
(* The emitters keep up with their tables: whatever the number of days,    *)
(* the lateness of rows, the days that jobs skip and the length of the     *)
(* windows. Between two runs rows change from Pending on only, an event is *)
(* told by the rows of its day and before, and a window reaches back to    *)
(* Pending at least: so what lies before a window is already stored.       *)
(*                                                                         *)
(* The parsers make of a payload the rows it has, whatever its length.     *)
(* Nothing is kept between two payloads, so the invariant is only that a   *)
(* payload is one of the parser's records; the rest is about sequences,    *)
(* orders and sums.                                                        *)
(***************************************************************************)
EXTENDS Emitters, Integers, Sequences, FiniteSetTheorems, WellFoundedInduction, TLAPS

CONSTANTS MaxRecords            \* Parsers, with the constants of the code

VARIABLES parser, payload

Parse == INSTANCE Parsers WITH Tolerance <- 2, MaxSkew <- 3

\* Holdings of a period are complete once rows of its day can no longer land late.
EmitterAssumption ==
    /\ Emitter \subseteq {"crypto", "equity", "scoring", "tvl", "macro", "insider",
                          "crowding", "filings", "anomaly"}
    /\ LastDay \in Nat /\ Late \in Nat /\ Slack \in Nat /\ Lookback \in Nat /\ Span \in Nat
    /\ Lag \in 0..Late

\* The first day whose row may have changed since the last complete run.
Pending == ran + 1 - Lateness

\* A complete run has seen the rows of the day as they are.
Seen(d) == d < Pending \/ (ran = today /\ dirty = "none")

TypeOK ==
    /\ emitter \in Emitter /\ peer \in {"SPY", "QQQ"} /\ dirty \in {"rows", "flags", "none"}
    /\ today \in 0..LastDay /\ ran \in 0..today /\ first \in Nat
    /\ rows \in [Day -> Class[emitter] \cup {0}]
    /\ \A e \in events : e.ts \in Nat

\* No more days pass between two runs than the windows absorb.
RunsInTime == first # 0 => today <= ran + Slack + 1

\* Of the days the runs have covered and seen, every event is stored.
Stored ==
    first # 0 =>
    IF emitter = "insider"
    THEN \A a, b \in Present(first) :
            a <= b /\ b - a <= Span /\ Cardinality(Reporters({a, b})) = 2 /\ Seen(b)
                => \E e \in events : a <= e.ts /\ e.ts <= a + Span
    ELSE \A e \in Batch : first <= e.ts /\ Seen(e.ts) => e \in events

\* A stock's events are against one of the two benchmarks, and once a run is complete
\* against the one that now measures it.
PeersReplaced ==
    emitter = "equity" =>
    \A e \in events : e.ref \in {"SPY", "QQQ"} /\ (peer = "QQQ" /\ dirty = "none" => e.ref = "QQQ")

\* Flags are of days with a return, and once the detector has run they are those it
\* finds; their signals follow.
FlagsFollow ==
    emitter = "anomaly" =>
    /\ flags \subseteq {d \in Present(1) : Before(d, 1) # {} /\ d < today}
    /\ dirty # "rows" => \A d \in Since..today : d \in flags <=> d \in Outliers(1) /\ d # today
    /\ \A e \in events : e.ts < today
    /\ Fresh => InWindow(events) = InWindow(Batch)

EmitInv ==
    /\ TypeOK /\ RunsInTime /\ Stored /\ PeersReplaced /\ FlagsFollow
    /\ emitter = "macro" => NoGap(rows, today)
    /\ NothingIsInvented

-----------------------------------------------------------------------------
\* Natural numbers have a least.
LEMMA LeastNat ==
    ASSUME NEW S \in SUBSET Nat, S # {}
    PROVE  \E n \in S : \A m \in S : n <= m
<1> DEFINE R == OpToRel(<, Nat)
<1>1. \A m, n \in Nat : <<m, n>> \in R <=> m < n
  BY DEF OpToRel
<1>2. IsWellFoundedOn(R, Nat)
  BY NatLessThanWellFounded
<1> HIDE DEF R
<1>3. PICK n \in S : \A m \in S : ~ (<<m, n>> \in R)
  BY <1>2, WFMin
<1> SUFFICES ASSUME NEW m \in S PROVE n <= m
  OBVIOUS
<1>4. m \in Nat /\ n \in Nat
  OBVIOUS
<1>5. ~ (m < n)
  BY <1>1, <1>3, <1>4
<1> QED BY <1>4, <1>5

\* The latest of some days.
LEMMA LatestIs ==
    ASSUME NEW n \in Nat, NEW S \in SUBSET (1..n), S # {}
    PROVE  Latest(S) \in S /\ \A e \in S : e <= Latest(S)
<1> DEFINE Left == {n - d : d \in S}
<1>0. \A d \in S : n - d \in Nat
  OBVIOUS
<1>1. Left \in SUBSET Nat /\ Left # {}
  BY <1>0
<1>2. PICK l \in Left : \A m \in Left : l <= m
  <2> HIDE DEF Left
  <2> QED BY <1>1, LeastNat
<1>3. PICK d \in S : l = n - d
  OBVIOUS
<1>4. \A e \in S : n - d <= n - e
  BY <1>2, <1>3
<1>5. \A e \in S : e <= d
  BY <1>4
<1> QED BY <1>5 DEF Latest

LEMMA LatestIsIt ==
    ASSUME NEW n \in Nat, NEW S \in SUBSET (1..n), NEW d \in S, \A e \in S : e <= d
    PROVE  Latest(S) = d
<1>1. Latest(S) \in S /\ \A e \in S : e <= Latest(S)
  BY LatestIs
<1>2. \A e \in S : e \in Int
  OBVIOUS
<1> DEFINE l == Latest(S)
<1>3. l \in S /\ \A e \in S : e <= l
  BY <1>1
<1> HIDE DEF l
<1>4. l = d
  BY <1>2, <1>3
<1> QED BY <1>4 DEF l

\* The days with a row, and the one before.
LEMMA PresentIs ==
    ASSUME EmitterAssumption, TypeOK, NEW lo \in Nat \ {0}
    PROVE  /\ Present(lo) \in SUBSET (1..today)
           /\ \A d \in Present(lo) : d \in Day /\ d \in lo..today /\ rows[d] # 0
           /\ \A d \in 1..today : d \in Day /\ (rows[d] # 0 /\ lo <= d => d \in Present(lo))
BY DEF EmitterAssumption, TypeOK, Present, Day

LEMMA PriorIs ==
    ASSUME EmitterAssumption, TypeOK, NEW lo \in Nat \ {0}, NEW d \in Nat, Before(d, lo) # {}
    PROVE  /\ Prior(d, lo) \in Present(lo) /\ Prior(d, lo) < d
           /\ \A p \in Present(lo) : p < d => p <= Prior(d, lo)
<1>1. Before(d, lo) \in SUBSET (1..today)
  BY PresentIs DEF Before
<1>2. today \in Nat
  BY DEF TypeOK, EmitterAssumption
<1> QED BY <1>1, <1>2, LatestIs DEF Prior, Before

-----------------------------------------------------------------------------
\* A day passes: rows before Settled are as they were, and a row there is stays.
Settled == today + 1 - Lateness

LEMMA LatenessIs == ASSUME EmitterAssumption PROVE Lateness \in Nat /\ Late <= Lateness
BY DEF EmitterAssumption, Lateness

LEMMA NextDayRows ==
    ASSUME EmitterAssumption, TypeOK, NextDay
    PROVE  /\ TypeOK'
           /\ today' = today + 1 /\ today < LastDay
           /\ \A d \in Day : d < Settled => rows'[d] = rows[d]
           /\ \A d \in Day : rows[d] # 0 => rows'[d] # 0
<1>1. PICK f \in [{d \in Day : d <= today + 1 /\ d + Lateness >= today + 1} -> Class[emitter] \cup {0}] :
         /\ \A d \in DOMAIN f : rows[d] # 0 => f[d] # 0
         /\ rows' = [d \in Day |-> IF d \in DOMAIN f THEN f[d] ELSE rows[d]]
  BY DEF NextDay
<1>2. rows' \in [Day -> Class[emitter] \cup {0}]
  BY <1>1 DEF TypeOK
<1>3. today' = today + 1 /\ today < LastDay /\ today' \in 0..LastDay
  BY DEF NextDay, Days, TypeOK, EmitterAssumption
<1>4. dirty' \in {"rows", "flags", "none"}
  BY DEF NextDay, TypeOK
<1>5. TypeOK'
  BY <1>2, <1>3, <1>4 DEF NextDay, TypeOK, EmitterAssumption
<1>6. \A d \in Day : d < Settled => rows'[d] = rows[d]
  <2> SUFFICES ASSUME NEW d \in Day, d < Settled PROVE d \notin DOMAIN f
    BY <1>1
  <2> QED BY LatenessIs DEF Settled, Day, TypeOK, EmitterAssumption
<1>7. \A d \in Day : rows[d] # 0 => rows'[d] # 0
  BY <1>1
<1> QED BY <1>3, <1>5, <1>6, <1>7

LEMMA PastPresent ==
    ASSUME EmitterAssumption, TypeOK, NextDay
    PROVE  /\ \A d \in Nat : d < Settled => (d \in Present(1)' <=> d \in Present(1))
           /\ Present(1) \subseteq Present(1)'
           /\ Present(1)' \in SUBSET (1..(today + 1))
<1>1. /\ TypeOK' /\ today' = today + 1 /\ today < LastDay /\ today \in Nat
      /\ \A d \in Day : d < Settled => rows'[d] = rows[d]
      /\ \A d \in Day : rows[d] # 0 => rows'[d] # 0
  BY NextDayRows DEF TypeOK, EmitterAssumption
<1>2. Settled <= today + 1
  BY <1>1, LatenessIs DEF Settled
<1>3. \A d \in 1..(today + 1) : d \in Day
  BY <1>1 DEF Day, EmitterAssumption, TypeOK
<1>4. Settled \in Int
  BY LatenessIs, <1>1 DEF Settled
<1>5. \A d : d \in Present(1) <=> d \in 1..today /\ rows[d] # 0
  BY DEF Present
<1>6. \A d : d \in Present(1)' <=> d \in 1..(today + 1) /\ rows'[d] # 0
  BY <1>1 DEF Present
<1>7. ASSUME NEW d \in Nat, d < Settled PROVE d \in Present(1)' <=> d \in Present(1)
  <2>1. d \in 1..(today + 1) <=> d \in 1..today
    BY <1>2, <1>4, <1>7, <1>1
  <2>2. d \in 1..(today + 1) => rows'[d] = rows[d]
    BY <1>7, <1>1, <1>3
  <2> QED BY <2>1, <2>2, <1>5, <1>6
<1>8. \A d \in 1..today : d \in 1..(today + 1)
  BY <1>1
<1>9. \A d : d \in Present(1) => d \in Present(1)'
  BY <1>1, <1>3, <1>5, <1>6, <1>8
<1>10. \A d : d \in Present(1)' => d \in 1..(today + 1)
  BY <1>6
<1> QED BY <1>7, <1>9, <1>10

LEMMA PastPrior ==
    ASSUME EmitterAssumption, TypeOK, NextDay, NEW d \in Nat, d < Settled
    PROVE  /\ Before(d, 1)' = Before(d, 1)
           /\ Prior(d, 1)' = Prior(d, 1)
           /\ Before(d, 1) # {} => rows'[Prior(d, 1)] = rows[Prior(d, 1)]
           /\ d \in Present(1) => rows'[d] = rows[d]
<1>1. /\ \A p \in Nat : p < Settled => (p \in Present(1)' <=> p \in Present(1))
      /\ Present(1)' \in SUBSET (1..(today + 1)) /\ Present(1) \in SUBSET (1..today)
      /\ today \in Nat /\ Settled \in Int
  BY PastPresent, PresentIs, LatenessIs DEF TypeOK, EmitterAssumption, Settled
<1>2. \A p : p \in Before(d, 1)' <=> p \in Present(1)' /\ p < d
  BY DEF Before
<1>3. \A p : p \in Before(d, 1) <=> p \in Present(1) /\ p < d
  BY DEF Before
<1>4. \A p \in Nat : p < d => (p \in Present(1)' <=> p \in Present(1))
  BY <1>1
<1>5. \A p : p \in Before(d, 1)' => p \in Nat
  BY <1>1, <1>2
<1>6. \A p : p \in Before(d, 1) => p \in Nat
  BY <1>1, <1>3
<1>7. Before(d, 1)' = Before(d, 1)
  BY <1>2, <1>3, <1>4, <1>5, <1>6
<1>8. Prior(d, 1)' = Prior(d, 1)
  BY <1>7 DEF Prior
<1>9. \A p \in Present(1) : p \in Day /\ (p < Settled => rows'[p] = rows[p])
  BY PresentIs, NextDayRows
<1>10. Before(d, 1) # {} => Prior(d, 1) \in Present(1) /\ Prior(d, 1) < d
  BY PriorIs
<1>11. Before(d, 1) # {} => Prior(d, 1) < Settled
  BY <1>1, <1>10
<1> QED BY <1>7, <1>8, <1>9, <1>10, <1>11

-----------------------------------------------------------------------------
\* The bands of the scores: the function they are computed by, of any rows r.
BandStep(g, r, lo, d) ==
    IF d < lo THEN "neutral" ELSE IF r[d] = 0 THEN g[d - 1] ELSE NextBand(g[d - 1], r[d])

IsBand(g, r, lo, n) == g = [d \in 0..n |-> BandStep(g, r, lo, d)]

BandOf(r, lo, n) == CHOOSE g : IsBand(g, r, lo, n)

Entered(g, lo) == {d \in Present(lo) : Before(d, lo) # {} /\ g[d] # "neutral" /\ g[d] # g[d - 1]}

LEMMA BandsAre ==
    Bands(1) = {Event(d, BandOf(rows, 1, today)[d], "", 1) : d \in Entered(BandOf(rows, 1, today), 1)}
BY DEF Bands, BandOf, IsBand, BandStep, Entered

LEMMA BandsAreNext ==
    ASSUME NEW g, g = BandOf(rows', 1, today')
    PROVE  Bands(1)' = {Event(d, g[d], "", 1) : d \in Entered(g, 1)'}
BY DEF Bands, BandOf, IsBand, BandStep, Entered

\* A band depends on the rows up to its day.
Alike(r, s, k) == \A d \in 1..k : r[d] = s[d]
BandsAlike(g, h, k) == \A d \in 0..k : g[d] = h[d]

LEMMA BandsAgree ==
    ASSUME NEW r, NEW s, NEW m \in Nat, NEW n \in Nat, NEW k \in Nat, k <= m, k <= n,
           Alike(r, s, k),
           NEW g, NEW h, IsBand(g, r, 1, m), IsBand(h, s, 1, n)
    PROVE  BandsAlike(g, h, k)
<1> USE DEF Alike, BandsAlike
<1> DEFINE Differ == {d \in 0..k : g[d] # h[d]}
<1> SUFFICES ASSUME Differ # {} PROVE FALSE
  OBVIOUS
<1>1. Differ \in SUBSET Nat
  OBVIOUS
<1>2. PICK d \in Differ : \A e \in Differ : d <= e
  <2> HIDE DEF Differ
  <2> QED BY <1>1, LeastNat
<1>3. d \in 0..k /\ g[d] # h[d] /\ d \in 0..m /\ d \in 0..n
  OBVIOUS
<1>4. g[d] = BandStep(g, r, 1, d) /\ h[d] = BandStep(h, s, 1, d)
  BY <1>3 DEF IsBand
<1>5. CASE d = 0
  BY <1>3, <1>4, <1>5 DEF BandStep
<1>6. CASE d # 0
  <2>1. d - 1 \in 0..k /\ ~ (d <= d - 1) /\ d \in 1..k
    BY <1>3, <1>6
  <2>2. g[d - 1] = h[d - 1]
    BY <1>2, <2>1
  <2>3. r[d] = s[d]
    BY <2>1
  <2> QED BY <1>3, <1>4, <2>2, <2>3 DEF BandStep
<1> QED BY <1>5, <1>6

LEMMA BandExists ==
    ASSUME NEW r, NEW m \in Nat
    PROVE  IsBand(BandOf(r, 1, m), r, 1, m)
<1> DEFINE Lacks == {n \in Nat : ~ \E g : IsBand(g, r, 1, n)}
<1>1. Lacks = {}
  <2> SUFFICES ASSUME Lacks # {} PROVE FALSE
    OBVIOUS
  <2>1. PICK n \in Lacks : \A l \in Lacks : n <= l
    <3>1. Lacks \in SUBSET Nat
      OBVIOUS
    <3> HIDE DEF Lacks
    <3> QED BY <3>1, LeastNat
  <2>2. n \in Nat /\ ~ \E g : IsBand(g, r, 1, n)
    OBVIOUS
  <2>3. CASE n = 0
    <3> DEFINE g == [d \in 0..n |-> "neutral"]
    <3>1. \A d \in 0..n : BandStep(g, r, 1, d) = "neutral"
      BY <2>3 DEF BandStep
    <3>2. IsBand(g, r, 1, n)
      BY <3>1 DEF IsBand
    <3> QED BY <2>2, <3>2
  <2>4. CASE n # 0
    <3>1. n - 1 \in Nat /\ ~ (n <= n - 1)
      BY <2>2, <2>4
    <3>2. PICK f : IsBand(f, r, 1, n - 1)
      BY <2>1, <3>1
    <3> DEFINE g == [d \in 0..n |-> BandStep(f, r, 1, d)]
    <3>3. ASSUME NEW d \in 0..n PROVE g[d] = BandStep(g, r, 1, d)
      <4>1. CASE d = 0
        BY <4>1 DEF BandStep
      <4>2. CASE d # 0
        <5>1. d - 1 \in 0..(n - 1) /\ d - 1 \in 0..n
          BY <2>2, <4>2
        <5>2. f[d - 1] = BandStep(f, r, 1, d - 1)
          BY <3>2, <5>1 DEF IsBand
        <5>3. g[d - 1] = f[d - 1]
          BY <5>1, <5>2
        <5>4. g[d] = BandStep(f, r, 1, d)
          OBVIOUS
        <5> HIDE DEF g
        <5> QED BY <5>3, <5>4 DEF BandStep
      <4> QED BY <4>1, <4>2
    <3>4. g = [d \in 0..n |-> g[d]]
      OBVIOUS
    <3>5. IsBand(g, r, 1, n)
      <4> HIDE DEF g
      <4> QED BY <3>3, <3>4 DEF IsBand
    <3> QED BY <2>2, <3>5
  <2> QED BY <2>3, <2>4
<1> QED BY <1>1 DEF BandOf

-----------------------------------------------------------------------------
\* What the rows give once a day has passed, of the days before Settled, they gave
\* the day before.
LEMMA PastDays ==
    ASSUME EmitterAssumption, TypeOK, NextDay
    PROVE  \A d \in Present(1)' : d \in Nat
<1>1. today + 1 \in Nat /\ Present(1)' \in SUBSET (1..(today + 1))
  BY PastPresent DEF TypeOK
<1> QED BY <1>1

LEMMA PastCrossings ==
    ASSUME EmitterAssumption, TypeOK, NextDay, NEW e \in Crossings(1)', e.ts < Settled
    PROVE  e \in Crossings(1)
<1>1. PICK d \in Present(1)' :
         /\ e = Event(d, State(d)', peer', 1) /\ State(d)' # 2
         /\ Before(d, 1)' # {} => State(Prior(d, 1))' # State(d)'
  BY DEF Crossings
<1>2. d \in Nat /\ d < Settled
  BY <1>1, PastDays DEF Event
<1>3. d \in Present(1)
  BY <1>1, <1>2, PastPresent
<1>4. peer' = peer
  BY DEF NextDay
<1>5. State(d)' = State(d)
  BY <1>2, <1>3, <1>4, PastPrior DEF State
<1>6. Before(d, 1) # {} => State(Prior(d, 1))' = State(Prior(d, 1))
  BY <1>2, <1>4, PastPrior DEF State
<1>7. Before(d, 1)' = Before(d, 1)
  BY <1>2, PastPrior
<1> QED BY <1>1, <1>3, <1>4, <1>5, <1>6, <1>7 DEF Crossings

LEMMA PastBands ==
    ASSUME EmitterAssumption, TypeOK, NextDay, NEW e \in Bands(1)', e.ts < Settled
    PROVE  e \in Bands(1)
<1> DEFINE h == BandOf(rows, 1, today)
<1>0. PICK g : g = BandOf(rows', 1, today')
  OBVIOUS
<1>1. PICK d \in Entered(g, 1)' : e = Event(d, g[d], "", 1)
  <2>1. Bands(1)' = {Event(c, g[c], "", 1) : c \in Entered(g, 1)'}
    BY <1>0, BandsAreNext
  <2> QED BY <2>1
<1>2. d \in Present(1)' /\ Before(d, 1)' # {} /\ g[d] # "neutral" /\ g[d] # g[d - 1]
  BY DEF Entered
<1>3. d \in Nat /\ d < Settled /\ d # 0
  <2>1. d \in Nat /\ d < Settled
    BY <1>1, <1>2, PastDays DEF Event
  <2> QED BY <1>2, <2>1, PastPresent, PresentIs DEF TypeOK
<1>4. d \in Present(1)
  BY <1>2, <1>3, PastPresent
<1>5. today \in Nat /\ today' = today + 1 /\ d \in 1..today
  BY <1>4, NextDayRows, PresentIs DEF TypeOK
<1>6. IsBand(g, rows', 1, today') /\ IsBand(h, rows, 1, today)
  BY <1>0, <1>5, BandExists
<1>7. Alike(rows', rows, d)
  <2> SUFFICES ASSUME NEW c \in 1..d PROVE rows'[c] = rows[c]
    BY DEF Alike
  <2>1. c \in Day /\ c < Settled
    BY <1>3, <1>5, LatenessIs DEF Day, TypeOK, Settled, EmitterAssumption
  <2> QED BY <2>1, NextDayRows
<1> HIDE DEF h
<1>8. BandsAlike(g, h, d)
  <2>1. d <= today /\ d <= today' /\ today' \in Nat
    BY <1>5
  <2> QED BY <1>3, <1>5, <1>6, <1>7, <2>1, BandsAgree
<1>9. g[d] = h[d] /\ g[d - 1] = h[d - 1]
  <2>1. d \in 0..d /\ d - 1 \in 0..d
    BY <1>3
  <2> QED BY <1>8, <2>1 DEF BandsAlike
<1>10. d \in Entered(h, 1)
  BY <1>2, <1>3, <1>4, <1>9, PastPrior DEF Entered
<1> QED BY <1>1, <1>9, <1>10, BandsAre DEF h

LEMMA PastOnsets ==
    ASSUME EmitterAssumption, TypeOK, NextDay, NEW d \in Nat, d < Settled
    PROVE  d \in Onsets(1)' <=> d \in Onsets(1)
<1>1. d \in Present(1)' <=> d \in Present(1)
  BY PastPresent
<1> QED BY <1>1, PastPrior DEF Onsets

LEMMA PastEpisodes ==
    ASSUME EmitterAssumption, TypeOK, NextDay, NEW e \in Episodes(1)', e.ts < Settled
    PROVE  e \in Episodes(1)
<1>0. /\ Present(1)' \in SUBSET (1..(today + 1)) /\ Present(1) \in SUBSET (1..today)
      /\ Present(1) \subseteq Present(1)' /\ today + 1 \in Nat /\ Settled \in Int /\ today \in Nat
  BY PastPresent, PresentIs, LatenessIs DEF TypeOK, Settled
<1>1. CASE \E d \in Onsets(1)' : e = Event(d, "stress", d, 1)
  <2>1. PICK d \in Onsets(1)' : e = Event(d, "stress", d, 1)
    BY <1>1
  <2>2. d \in Nat /\ d < Settled
    BY <2>1, <1>0 DEF Onsets, Event
  <2>3. d \in Onsets(1)
    BY <2>1, <2>2, PastOnsets
  <2> QED BY <2>1, <2>3 DEF Episodes
<1>2. CASE \E d \in Present(1)' : /\ d = Latest(Present(1)') /\ rows'[d] = 2 /\ d \notin Onsets(1)'
                                   /\ e = Event(d, "stress", Latest(Onsets(1)'), 1)
  <2>1. PICK d \in Present(1)' : /\ d = Latest(Present(1)') /\ rows'[d] = 2 /\ d \notin Onsets(1)'
                                  /\ e = Event(d, "stress", Latest(Onsets(1)'), 1)
    BY <1>2
  <2>2. d \in Nat /\ d < Settled
    BY <2>1, <1>0 DEF Event
  <2>3. \A c \in Present(1)' : c <= d
    BY <1>0, <2>1, LatestIs
  <2>4. \A c \in Present(1)' : c \in Nat /\ c < Settled
    BY <1>0, <2>2, <2>3
  <2>5. Present(1)' = Present(1)
    BY <1>0, <2>4, PastPresent
  <2>6. Onsets(1)' \subseteq Present(1)' /\ Onsets(1) \subseteq Present(1)
    BY DEF Onsets
  <2>7. Onsets(1)' = Onsets(1)
    BY <2>4, <2>5, <2>6, PastOnsets
  <2>8. rows'[d] = rows[d]
    BY <2>1, <2>2, <2>5, PastPrior
  <2>9. /\ d \in Present(1) /\ d = Latest(Present(1)) /\ rows[d] = 2 /\ d \notin Onsets(1)
        /\ e = Event(d, "stress", Latest(Onsets(1)), 1)
    BY <2>1, <2>5, <2>7, <2>8
  <2> QED BY <2>9 DEF Episodes
<1> QED BY <1>1, <1>2 DEF Episodes

LEMMA PastTransitions ==
    ASSUME EmitterAssumption, TypeOK, NextDay, NEW e \in Transitions(1)', e.ts < Settled
    PROVE  e \in Transitions(1)
<1>1. PICK d \in Present(1)' :
         /\ e = Event(d, rows'[d], "", 1)
         /\ Before(d, 1)' # {} /\ rows'[Prior(d, 1)'] # rows'[d]
  BY DEF Transitions
<1>2. d \in Nat /\ d < Settled
  BY <1>1, PastDays DEF Event
<1>3. d \in Present(1)
  BY <1>1, <1>2, PastPresent
<1> QED BY <1>1, <1>2, <1>3, PastPrior DEF Transitions

LEMMA PastCrowding ==
    ASSUME EmitterAssumption, TypeOK, NextDay, NEW e \in Crowding(1)', e.ts < Settled
    PROVE  e \in Crowding(1)
<1>1. PICK d \in Present(1)' :
         /\ d + Lag <= today' /\ Before(d, 1)' # {}
         /\ \/ e = Event(d, "add", "", rows'[d] - rows'[Prior(d, 1)']) /\ rows'[d] > rows'[Prior(d, 1)']
            \/ /\ e = Event(d, "jump", "", 2) /\ rows'[d] > rows'[Prior(d, 1)']
               /\ rows'[d] - rows'[Prior(d, 1)'] >= 2
            \/ e = Event(d, "exit", "", rows'[Prior(d, 1)'] - rows'[d]) /\ rows'[d] < rows'[Prior(d, 1)']
  BY DEF Crowding
<1>2. d \in Nat /\ d < Settled
  <2>1. \A kind, strength : Event(d, kind, "", strength).ts = d
    BY DEF Event
  <2>2. e.ts = d
    BY <1>1, <2>1
  <2> QED BY <2>2, PastDays
<1>3. d \in Present(1)
  BY <1>1, <1>2, PastPresent
<1>4. d + Lag <= today
  BY <1>2, LatenessIs DEF Settled, EmitterAssumption, TypeOK
<1>5. Before(d, 1) # {}
  BY <1>1, <1>2, PastPrior
<1>6. /\ rows'[d] = rows[d] /\ Prior(d, 1)' = Prior(d, 1)
      /\ rows'[Prior(d, 1)] = rows[Prior(d, 1)]
  BY <1>2, <1>3, <1>5, PastPrior
<1>7. \/ e = Event(d, "add", "", rows[d] - rows[Prior(d, 1)]) /\ rows[d] > rows[Prior(d, 1)]
      \/ /\ e = Event(d, "jump", "", 2) /\ rows[d] > rows[Prior(d, 1)]
         /\ rows[d] - rows[Prior(d, 1)] >= 2
      \/ e = Event(d, "exit", "", rows[Prior(d, 1)] - rows[d]) /\ rows[d] < rows[Prior(d, 1)]
  BY <1>1, <1>6
<1> QED BY <1>3, <1>4, <1>5, <1>7 DEF Crowding

LEMMA PastFilings ==
    ASSUME EmitterAssumption, TypeOK, NextDay, NEW e \in Filings(1)', e.ts < Settled
    PROVE  e \in Filings(1)
<1>1. PICK p \in Present(1)' \X {1, 2} :
         /\ p[2] \in (IF rows'[p[1]] = 3 THEN {1, 2} ELSE IF rows'[p[1]] = 2 THEN {2} ELSE {1})
         /\ e = Event(p[1] + (IF rows'[p[1]] = 4 THEN 1 ELSE 0), p[2], p[1], 1)
  BY DEF Filings
<1> DEFINE d == p[1]
<1>2. d \in Present(1)' /\ p[2] \in {1, 2}
  OBVIOUS
<1>3. d \in Nat /\ Settled \in Int
  BY <1>2, PastPresent, LatenessIs DEF TypeOK, Settled
<1>4. e.ts = d + (IF rows'[d] = 4 THEN 1 ELSE 0)
  BY <1>1 DEF Event
<1>5. d < Settled
  BY <1>3, <1>4
<1>6. d \in Present(1)
  BY <1>2, <1>3, <1>5, PastPresent
<1>7. rows'[d] = rows[d]
  BY <1>3, <1>5, <1>6, PastPrior
<1>8. p \in Present(1) \X {1, 2}
  BY <1>6
<1> QED BY <1>1, <1>7, <1>8 DEF Filings

LEMMA PastOutliers ==
    ASSUME EmitterAssumption, TypeOK, NextDay, emitter = "anomaly",
           NEW e \in Signals(Outliers(1) \ {today})', e.ts < Settled
    PROVE  e \in Signals(Outliers(1) \ {today})
<1>1. PICK d \in Present(1)' : /\ rows'[d] = 2 /\ Before(d, 1)' # {} /\ e = Event(d, "anomaly", "", 1)
  BY DEF Signals, Outliers
<1>2. d \in Nat /\ d < Settled
  <2>1. d \in Nat
    BY PastDays
  <2> QED BY <1>1, <2>1 DEF Event
<1>3. d \in Present(1)
  BY <1>1, <1>2, PastPresent
<1>4. d # today
  BY <1>2, NextDayRows DEF Settled, Lateness, EmitterAssumption, TypeOK
<1>5. rows[d] = 2 /\ Before(d, 1) # {}
  BY <1>1, <1>2, <1>3, PastPrior
<1> QED BY <1>1, <1>3, <1>4, <1>5 DEF Signals, Outliers

LEMMA PastBatch ==
    ASSUME EmitterAssumption, TypeOK, NextDay, emitter # "insider", NEW e \in Batch', e.ts < Settled
    PROVE  e \in Batch
<1>0. emitter' = emitter /\ emitter \in {"crypto", "equity", "scoring", "tvl", "macro", "insider",
                                          "crowding", "filings", "anomaly"}
  BY DEF NextDay, TypeOK, EmitterAssumption
<1>1. CASE emitter \in {"crypto", "equity"}
  BY <1>0, <1>1, PastCrossings DEF Batch, Gives
<1>2. CASE emitter = "scoring"
  BY <1>0, <1>2, PastBands DEF Batch, Gives
<1>3. CASE emitter = "tvl"
  BY <1>0, <1>3, PastEpisodes DEF Batch, Gives
<1>4. CASE emitter = "macro"
  BY <1>0, <1>4, PastTransitions DEF Batch, Gives
<1>5. CASE emitter = "crowding"
  BY <1>0, <1>5, PastCrowding DEF Batch, Gives
<1>6. CASE emitter = "filings"
  BY <1>0, <1>6, PastFilings DEF Batch, Gives
<1>7. CASE emitter = "anomaly"
  BY <1>0, <1>7, PastOutliers DEF Batch, Gives
<1> QED BY <1>0, <1>1, <1>2, <1>3, <1>4, <1>5, <1>6, <1>7

-----------------------------------------------------------------------------
\* Events are dated, and a stock's are against what measures it.
LEMMA EventIs == \A d, kind, ref, strength :
                     Event(d, kind, ref, strength).ts = d /\ Event(d, kind, ref, strength).ref = ref
BY DEF Event

LEMMA BatchIsDated ==
    ASSUME EmitterAssumption, TypeOK, emitter # "insider", NEW e \in Batch
    PROVE  e.ts \in Nat \ {0} /\ (emitter = "equity" => e.ref = peer)
<1>0. emitter \in {"crypto", "equity", "scoring", "tvl", "macro", "insider", "crowding", "filings", "anomaly"}
  BY DEF TypeOK, EmitterAssumption
<1> DEFINE From1 == \E d \in Present(1) : \E kind, ref, strength :
                      e \in {Event(d, kind, ref, strength), Event(d + 1, kind, ref, strength)}
<1>1. From1 => e.ts \in Nat \ {0}
  <2>1. today \in Nat /\ Present(1) \in SUBSET (1..today)
    BY PresentIs DEF TypeOK
  <2>2. \A d \in Present(1) : d \in Nat \ {0} /\ d + 1 \in Nat \ {0}
    BY <2>1
  <2> QED BY <2>2, EventIs
<1>2. CASE emitter \in {"crypto", "equity"}
  <2>1. PICK d \in Present(1) : e = Event(d, State(d), peer, 1)
    BY <1>2 DEF Batch, Gives, Crossings
  <2> QED BY <1>1, <2>1, EventIs
<1>3. CASE emitter = "scoring"
  <2>1. PICK d \in Entered(BandOf(rows, 1, today), 1) : e = Event(d, BandOf(rows, 1, today)[d], "", 1)
    BY <1>3, BandsAre DEF Batch, Gives
  <2> QED BY <1>1, <1>3, <2>1 DEF Entered
<1>4. CASE emitter = "tvl"
  BY <1>1, <1>4 DEF Batch, Gives, Episodes, Onsets
<1>5. CASE emitter = "macro"
  BY <1>1, <1>5 DEF Batch, Gives, Transitions
<1>6. CASE emitter = "crowding"
  BY <1>1, <1>6 DEF Batch, Gives, Crowding
<1>7. CASE emitter = "filings"
  <2>1. PICK p \in Present(1) \X {1, 2} : e = Event(p[1] + (IF rows[p[1]] = 4 THEN 1 ELSE 0), p[2], p[1], 1)
    BY <1>7 DEF Batch, Gives, Filings
  <2>2. p[1] \in Present(1) /\ p[1] \in Nat
    BY PresentIs DEF TypeOK
  <2>3. e \in {Event(p[1], p[2], p[1], 1), Event(p[1] + 1, p[2], p[1], 1)}
    BY <2>1, <2>2
  <2> QED BY <1>1, <1>7, <2>2, <2>3
<1>8. CASE emitter = "anomaly"
  BY <1>1, <1>8 DEF Batch, Gives, Signals, Outliers
<1> HIDE DEF From1
<1> QED BY <1>0, <1>2, <1>3, <1>4, <1>5, <1>6, <1>7, <1>8

\* So they are the next day.
Dated == TypeOK /\ emitter # "insider" => \A e \in Batch : e.ts \in Nat \ {0}

LEMMA BatchIsDatedNext == ASSUME EmitterAssumption PROVE Dated'
<1>1. Dated
  BY BatchIsDated DEF Dated
<1> QED BY <1>1, PTL

\* A window reaches back to Pending.
LEMMA SinceIs ==
    ASSUME EmitterAssumption, TypeOK
    PROVE  /\ Since \in Nat \ {0} /\ (today > 0 => Since <= today)
           /\ Pending \in Int /\ Pending <= today + 1
           /\ RunsInTime /\ first # 0 => \A d \in Nat \ {0} : d < Since => d < Pending
           /\ RunsInTime /\ first # 0 /\ emitter = "insider" =>
                 \A a, b \in Nat \ {0} : a < Since /\ b - a <= Span => b < Pending
<1>1. /\ today \in Nat /\ ran \in Nat /\ ran <= today /\ Lateness \in Nat /\ Slack \in Nat /\ Span \in Nat
      /\ Window \in Nat /\ Window >= Lateness + Slack
      /\ emitter = "insider" => Window = Lateness + Slack + Span
  BY LatenessIs DEF TypeOK, EmitterAssumption, Window
<1> QED BY <1>1 DEF Since, RunsInTime, Pending

\* In the window, what is found is what the whole history gives: a regime's
\* predecessor is no further away than the lookback.
LEMMA FoundIsBatch ==
    ASSUME EmitterAssumption, TypeOK, emitter = "macro" => NoGap(rows, today),
           emitter \notin {"insider", "anomaly"}
    PROVE  InWindow(Found) = InWindow(Batch)
<1>1. CASE emitter # "macro"
  BY <1>1 DEF Found, Batch, Gives, TypeOK, EmitterAssumption
<1>2. CASE emitter = "macro"
  <2> DEFINE lo == From(Lookback)
  <2>1. lo \in Nat \ {0} /\ Since \in Nat /\ Lookback \in Nat /\ today \in Nat
        /\ \A d \in Nat \ {0} : Since <= d + Lookback => lo <= d
    BY SinceIs DEF From, EmitterAssumption, TypeOK
  <2> HIDE DEF lo
  <2>2. \A x : x \in Present(lo) <=> x \in Present(1) /\ lo <= x
    BY <2>1 DEF Present
  <2>3. ASSUME NEW d \in Present(1), Since <= d
        PROVE  /\ d \in Present(lo)
               /\ Before(d, lo) # {} <=> Before(d, 1) # {}
               /\ Before(d, 1) # {} => Prior(d, lo) = Prior(d, 1)
    <3>1. d \in 1..today
      BY PresentIs
    <3>2. d \in Present(lo)
      BY <2>1, <2>2, <2>3, <3>1
    <3>3. Before(d, lo) \subseteq Before(d, 1)
      BY <2>2 DEF Before
    <3>4. ASSUME Before(d, 1) # {}
          PROVE  Before(d, lo) # {} /\ Prior(d, lo) = Prior(d, 1)
      <4>1. \E p \in 1..(d - 1) : rows[p] # 0
        <5>1. PICK p \in Before(d, 1) : TRUE
          BY <3>4
        <5>2. p \in 1..today /\ p < d /\ rows[p] # 0
          BY PresentIs DEF Before
        <5>3. p \in 1..(d - 1)
          BY <3>1, <5>2
        <5> QED BY <5>2, <5>3
      <4>2. PICK p \in 1..(d - 1) : rows[p] # 0 /\ p + Lookback >= d
        BY <1>2, <3>1, <4>1 DEF NoGap
      <4>3. p \in Nat \ {0} /\ p < d /\ p \in 1..today /\ Since <= p + Lookback
        BY <2>1, <2>3, <3>1, <4>2
      <4>4. lo <= p /\ p \in Present(lo)
        BY <2>1, <4>2, <4>3, PresentIs
      <4>5. p \in Before(d, lo)
        BY <4>3, <4>4 DEF Before
      <4> DEFINE q == Prior(d, 1)
      <4>6. q \in Present(1) /\ q < d /\ \A x \in Present(1) : x < d => x <= q
        BY <3>1, <3>4, PriorIs
      <4>7. q \in 1..today
        BY <4>6, PresentIs
      <4> HIDE DEF q
      <4>8. p <= q
        BY <2>2, <4>3, <4>4, <4>6
      <4>9. lo <= q
        BY <2>1, <4>3, <4>4, <4>7, <4>8
      <4>10. q \in Before(d, lo) /\ \A x \in Before(d, lo) : x <= q
        BY <2>2, <4>6, <4>9 DEF Before
      <4>11. Before(d, lo) \in SUBSET (1..today)
        BY <2>1, PresentIs DEF Before
      <4>12. Prior(d, lo) = q
        BY <2>1, <4>10, <4>11, LatestIsIt DEF Prior
      <4> QED BY <4>5, <4>12 DEF q
    <3> QED BY <3>2, <3>3, <3>4
  <2>4. \A x \in Present(lo) : x \in Present(1)
    BY <2>2
  <2>5. ASSUME NEW x \in InWindow(Transitions(lo)) PROVE x \in InWindow(Transitions(1))
    <3>1. PICK d \in Present(lo) : x = Event(d, rows[d], "", 1) /\ Before(d, lo) # {} /\ rows[Prior(d, lo)] # rows[d]
      BY DEF InWindow, Transitions
    <3>2. x.ts >= Since /\ x.ts = d /\ d \in Nat
      <4>1. x.ts >= Since
        BY DEF InWindow
      <4>2. x.ts = d
        BY <3>1 DEF Event
      <4>3. d \in 1..today
        BY <2>1, PresentIs
      <4> QED BY <4>1, <4>2, <4>3
    <3>3. d \in Present(1) /\ Since <= d
      BY <2>1, <2>4, <3>2
    <3> QED BY <2>3, <3>1, <3>2, <3>3 DEF InWindow, Transitions
  <2>6. ASSUME NEW x \in InWindow(Transitions(1)) PROVE x \in InWindow(Transitions(lo))
    <3>1. PICK d \in Present(1) : x = Event(d, rows[d], "", 1) /\ Before(d, 1) # {} /\ rows[Prior(d, 1)] # rows[d]
      BY DEF InWindow, Transitions
    <3>2. x.ts >= Since /\ x.ts = d /\ d \in Nat
      <4>1. x.ts >= Since
        BY DEF InWindow
      <4>2. x.ts = d
        BY <3>1 DEF Event
      <4>3. d \in 1..today
        BY <2>1, PresentIs
      <4> QED BY <4>1, <4>2, <4>3
    <3>3. d \in Present(lo) /\ Since <= d
      BY <2>1, <2>3, <3>2
    <3> QED BY <2>3, <3>1, <3>2, <3>3 DEF InWindow, Transitions
  <2>7. InWindow(Transitions(lo)) = InWindow(Transitions(1))
    BY <2>5, <2>6
  <2> QED BY <1>2, <2>7 DEF Found, Batch, Gives, lo
<1> QED BY <1>1, <1>2

-----------------------------------------------------------------------------
\* The insiders' clusters: the function they are scanned by.
Near(lo, d) == {e \in Present(lo) : d <= e /\ e <= d + Span}
Traders(lo, d) == Cardinality(Reporters(Near(lo, d)))

ScanStep(g, lo, n) ==
    LET d == today + 1 - n
    IN  IF n = 0 THEN {}
        ELSE IF rows[d] # 0 /\ Traders(lo, d) >= 2
             THEN {Event(Latest(Near(lo, d)), "cluster", d, Traders(lo, d))} \cup g[today - Latest(Near(lo, d))]
             ELSE g[n - 1]

IsScan(g, lo) == g = [n \in 0..today |-> ScanStep(g, lo, n)]

ScanOf(lo) == CHOOSE g : IsScan(g, lo)

LEMMA ClustersAre ==
    ASSUME NEW lo
    PROVE  Clusters(lo) = {[c EXCEPT !.ref = ""] :
                             c \in ScanOf(lo)[IF lo > today THEN 0 ELSE today + 1 - lo]}
BY DEF Clusters, ScanOf, IsScan, ScanStep, Near, Traders

LEMMA MoreReporters ==
    ASSUME EmitterAssumption, TypeOK, emitter = "insider",
           NEW D \in SUBSET Present(1), NEW B \in SUBSET D
    PROVE  /\ Cardinality(Reporters(D)) \in Nat /\ Cardinality(Reporters(B)) <= Cardinality(Reporters(D))
           /\ D = {} => Cardinality(Reporters(D)) = 0
<1>1. \A d \in D : rows[d] \in 1..3
  <2>1. \A d \in D : d \in Day /\ rows[d] # 0
    BY PresentIs
  <2> QED BY <2>1 DEF TypeOK, Class, Day
<1>2. Reporters(D) \in SUBSET (1..2) /\ Reporters(B) \in SUBSET Reporters(D)
  BY <1>1 DEF Reporters
<1>3. IsFiniteSet(1..2)
  <2>1. 1 \in Int /\ 2 \in Int
    OBVIOUS
  <2> QED BY <2>1, FS_Interval
<1>4. IsFiniteSet(Reporters(D))
  BY <1>2, <1>3, FS_Subset
<1>5. D = {} => Reporters(D) = {}
  BY DEF Reporters
<1>6. Cardinality(Reporters(D)) \in Nat
  BY <1>4, FS_CardinalityType
<1>7. Cardinality(Reporters(B)) <= Cardinality(Reporters(D))
  BY <1>2, <1>4, FS_Subset
<1>8. D = {} => Cardinality(Reporters(D)) = 0
  BY <1>5, FS_EmptySet
<1> QED BY <1>6, <1>7, <1>8

\* The scan goes on with fewer days.
LEMMA NearIs ==
    ASSUME EmitterAssumption, TypeOK, emitter = "insider", NEW lo \in Nat \ {0}, NEW n \in 1..today,
           Traders(lo, today + 1 - n) >= 2
    PROVE  LET t == Latest(Near(lo, today + 1 - n))
           IN  t \in (today + 1 - n)..(today + 1 - n + Span) /\ today - t \in 0..(n - 1) /\ t \in 1..today
<1> DEFINE d == today + 1 - n
           W == Near(lo, d)
<1>1. Present(lo) \in SUBSET (1..today) /\ Present(lo) \subseteq Present(1) /\ today \in Nat
  BY PresentIs DEF TypeOK, Present
<1>2. W \in SUBSET Present(1) /\ W \in SUBSET (1..today)
  BY <1>1 DEF Near
<1>3. W # {}
  <2>1. W = {} => Cardinality(Reporters(W)) = 0
    BY <1>2, MoreReporters
  <2> QED BY <2>1 DEF Traders
<1>4. Latest(W) \in W
  <2> HIDE DEF W
  <2> QED BY <1>1, <1>2, <1>3, LatestIs
<1>5. Latest(W) \in 1..today /\ d <= Latest(W) /\ Latest(W) <= d + Span
  BY <1>2, <1>4 DEF Near
<1> QED BY <1>1, <1>5 DEF EmitterAssumption

LEMMA ScanDepends ==
    ASSUME EmitterAssumption, TypeOK, emitter = "insider", NEW lo \in Nat \ {0}, NEW n \in 0..today,
           NEW f, NEW g, \A i \in 0..(n - 1) : f[i] = g[i]
    PROVE  ScanStep(f, lo, n) = ScanStep(g, lo, n)
<1>0. today \in Nat
  BY DEF TypeOK
<1>1. CASE n = 0
  BY <1>1 DEF ScanStep
<1>2. CASE n # 0 /\ Traders(lo, today + 1 - n) >= 2
  <2>1. n \in 1..today
    BY <1>2
  <2>2. today - Latest(Near(lo, today + 1 - n)) \in 0..(n - 1) /\ n - 1 \in 0..(n - 1)
    <3>1. today - Latest(Near(lo, today + 1 - n)) \in 0..(n - 1)
      BY <1>2, <2>1, NearIs
    <3> QED BY <1>0, <2>1, <3>1
  <2> QED BY <2>2 DEF ScanStep
<1>3. CASE n # 0 /\ ~ (Traders(lo, today + 1 - n) >= 2)
  <2>1. n - 1 \in 0..(n - 1)
    BY <1>3
  <2> QED BY <1>3, <2>1 DEF ScanStep
<1> QED BY <1>1, <1>2, <1>3

LEMMA ScanExists ==
    ASSUME EmitterAssumption, TypeOK, emitter = "insider", NEW lo \in Nat \ {0}
    PROVE  IsScan(ScanOf(lo), lo)
<1> DEFINE Partly(g, n) == \A i \in 0..n : g[i] = ScanStep(g, lo, i)
           Lacks == {n \in 0..today : ~ \E g : Partly(g, n)}
<1>0. today \in Nat
  BY DEF TypeOK
<1>1. Lacks = {}
  <2> SUFFICES ASSUME Lacks # {} PROVE FALSE
    OBVIOUS
  <2>1. PICK n \in Lacks : \A l \in Lacks : n <= l
    <3>1. Lacks \in SUBSET Nat
      BY <1>0
    <3> HIDE DEF Lacks
    <3> QED BY <3>1, LeastNat
  <2>2. n \in 0..today /\ ~ \E g : Partly(g, n)
    OBVIOUS
  <2>3. \E f : \A i \in 0..(n - 1) : f[i] = ScanStep(f, lo, i)
    <3>1. CASE n = 0
      BY <3>1
    <3>2. CASE n # 0
      <4>1. n - 1 \in 0..today /\ ~ (n <= n - 1)
        BY <1>0, <2>2, <3>2
      <4>2. n - 1 \notin Lacks
        BY <2>1, <4>1
      <4> QED BY <4>1, <4>2
    <3> QED BY <3>1, <3>2
  <2>4. PICK f : \A i \in 0..(n - 1) : f[i] = ScanStep(f, lo, i)
    BY <2>3
  <2> DEFINE g == [i \in 0..n |-> ScanStep(f, lo, i)]
  <2>5. \A i \in 0..(n - 1) : f[i] = g[i]
    BY <2>2, <2>4
  <2>6. \A i \in 0..n : g[i] = ScanStep(f, lo, i)
    OBVIOUS
  <2> HIDE DEF g
  <2>7. ASSUME NEW i \in 0..n PROVE g[i] = ScanStep(g, lo, i)
    <3>1. i \in 0..today /\ \A j \in 0..(i - 1) : j \in 0..(n - 1)
      BY <1>0, <2>2
    <3>2. \A j \in 0..(i - 1) : f[j] = g[j]
      BY <2>5, <3>1
    <3>3. ScanStep(f, lo, i) = ScanStep(g, lo, i)
      BY <3>1, <3>2, ScanDepends
    <3> QED BY <2>6, <3>3
  <2>8. Partly(g, n)
    BY <2>7
  <2> QED BY <2>2, <2>8
<1>2. today \in 0..today
  BY <1>0
<1>3. PICK f : Partly(f, today)
  BY <1>1, <1>2
<1> DEFINE g == [i \in 0..today |-> f[i]]
<1>4. \A i \in 0..today : g[i] = ScanStep(g, lo, i)
  <2> SUFFICES ASSUME NEW i \in 0..today PROVE g[i] = ScanStep(g, lo, i)
    OBVIOUS
  <2>1. \A j \in 0..(i - 1) : f[j] = g[j]
    <3>1. \A j \in 0..(i - 1) : j \in 0..today
      BY <1>0
    <3> QED BY <3>1
  <2>2. g[i] = f[i] /\ f[i] = ScanStep(f, lo, i)
    BY <1>3
  <2> HIDE DEF g
  <2> QED BY <2>1, <2>2, ScanDepends
<1>5. g = [i \in 0..today |-> g[i]]
  OBVIOUS
<1>6. IsScan(g, lo)
  <2> HIDE DEF g
  <2> QED BY <1>4, <1>5 DEF IsScan
<1> QED BY <1>6 DEF ScanOf

\* A cluster that ends on day t.
EndsOn(c, t) == \E d, n : c = Event(t, "cluster", d, n)

\* Whoever stands in a crowd after the days passed is told of, near.
Told(g, lo, n) ==
    /\ \A c \in g[n] : \E t \in Nat : EndsOn(c, t)
    /\ \A a \in Present(lo) : today + 1 - n <= a /\ Traders(lo, a) >= 2 =>
          \E t \in a..(a + Span) : \E c \in g[n] : EndsOn(c, t)

LEMMA ScanTells ==
    ASSUME EmitterAssumption, TypeOK, emitter = "insider", NEW lo \in Nat \ {0}
    PROVE  \A n \in 0..today : Told(ScanOf(lo), lo, n)
<1> DEFINE g == ScanOf(lo)
           Misses == {n \in 0..today : ~ Told(g, lo, n)}
<1>0. today \in Nat /\ Span \in Nat
  BY DEF TypeOK, EmitterAssumption
<1> SUFFICES ASSUME Misses # {} PROVE FALSE
  OBVIOUS
<1>1. PICK n \in Misses : \A l \in Misses : n <= l
  <2>1. Misses \in SUBSET Nat
    BY <1>0
  <2> HIDE DEF Misses
  <2> QED BY <2>1, LeastNat
<1>2. n \in 0..today /\ ~ Told(g, lo, n)
  OBVIOUS
<1>3. \A l \in 0..(n - 1) : Told(g, lo, l)
  BY <1>0, <1>1, <1>2
<1> HIDE DEF Misses
<1>4. g[n] = ScanStep(g, lo, n)
  BY <1>2, ScanExists DEF IsScan
<1> HIDE DEF g
<1>5. \A a \in Present(lo) : a \in 1..today /\ rows[a] # 0
  BY <1>0, PresentIs
<1>6. CASE n = 0
  <2>1. g[n] = {}
    BY <1>4, <1>6 DEF ScanStep
  <2>2. \A a \in Present(lo) : ~ (today + 1 - n <= a)
    BY <1>0, <1>5, <1>6
  <2> QED BY <1>2, <2>1, <2>2 DEF Told
<1> DEFINE d == today + 1 - n
<1>7. CASE n # 0 /\ rows[d] # 0 /\ Traders(lo, d) >= 2
  <2> DEFINE t == Latest(Near(lo, d))
             c == Event(t, "cluster", d, Traders(lo, d))
  <2>1. n \in 1..today
    BY <1>0, <1>2, <1>7
  <2>2. t \in d..(d + Span) /\ today - t \in 0..(n - 1) /\ t \in 1..today
    BY <1>7, <2>1, NearIs
  <2>3. g[n] = {c} \cup g[today - t]
    BY <1>4, <1>7 DEF ScanStep
  <2>4. EndsOn(c, t)
    BY DEF EndsOn
  <2>5. Told(g, lo, today - t)
    BY <1>3, <2>2
  <2> HIDE DEF t, c
  <2>6. \A x \in g[n] : \E y \in Nat : EndsOn(x, y)
    <3>1. t \in Nat
      BY <2>2
    <3> QED BY <2>3, <2>4, <2>5, <3>1 DEF Told
  <2>7. ASSUME NEW a \in Present(lo), d <= a, Traders(lo, a) >= 2
        PROVE  \E y \in a..(a + Span) : \E x \in g[n] : EndsOn(x, y)
    <3>1. CASE a <= t
      <4>1. t \in a..(a + Span)
        BY <1>0, <1>5, <2>1, <2>2, <2>7, <3>1
      <4> QED BY <2>3, <2>4, <4>1
    <3>2. CASE ~ (a <= t)
      <4>1. today + 1 - (today - t) <= a
        BY <1>0, <1>5, <2>2, <3>2
      <4>2. PICK y \in a..(a + Span) : \E x \in g[today - t] : EndsOn(x, y)
        BY <2>5, <2>7, <4>1 DEF Told
      <4> QED BY <2>3, <4>2
    <3> QED BY <3>1, <3>2
  <2> QED BY <1>2, <2>6, <2>7 DEF Told
<1>8. CASE n # 0 /\ ~ (rows[d] # 0 /\ Traders(lo, d) >= 2)
  <2>1. g[n] = g[n - 1]
    BY <1>4, <1>8 DEF ScanStep
  <2>2. Told(g, lo, n - 1)
    BY <1>2, <1>3, <1>8, <1>0
  <2>3. ASSUME NEW a \in Present(lo), d <= a, Traders(lo, a) >= 2
        PROVE  today + 1 - (n - 1) <= a
    <3>1. a # d
      BY <1>5, <1>8, <2>3
    <3> QED BY <1>0, <1>2, <1>5, <2>3, <3>1
  <2> QED BY <1>2, <2>1, <2>2, <2>3 DEF Told
<1> QED BY <1>6, <1>7, <1>8

\* Where two insiders traded near each other, a cluster ends soon after the first.
LEMMA ClustersCover ==
    ASSUME EmitterAssumption, TypeOK, emitter = "insider", NEW lo \in Nat \ {0}
    PROVE  /\ \A e \in Clusters(lo) : e.ts \in Nat
           /\ \A a, b \in Present(lo) :
                 a <= b /\ b - a <= Span /\ Cardinality(Reporters({a, b})) = 2
                     => \E e \in Clusters(lo) : a <= e.ts /\ e.ts <= a + Span
<1> DEFINE past == IF lo > today THEN 0 ELSE today + 1 - lo
           found == ScanOf(lo)[past]
<1>0. today \in Nat /\ Span \in Nat /\ past \in 0..today
  BY DEF TypeOK, EmitterAssumption
<1>1. Clusters(lo) = {[c EXCEPT !.ref = ""] : c \in found}
  BY ClustersAre
<1>2. Told(ScanOf(lo), lo, past)
  BY <1>0, ScanTells
<1> HIDE DEF past
<1>3. \A c, t : EndsOn(c, t) => [c EXCEPT !.ref = ""].ts = t
  BY DEF EndsOn, Event
<1>4. \A e \in Clusters(lo) : e.ts \in Nat
  <2> SUFFICES ASSUME NEW c \in found PROVE [c EXCEPT !.ref = ""].ts \in Nat
    BY <1>1
  <2> QED BY <1>2, <1>3 DEF Told
<1>5. ASSUME NEW a \in Present(lo), NEW b \in Present(lo), a <= b, b - a <= Span,
             Cardinality(Reporters({a, b})) = 2
      PROVE  \E e \in Clusters(lo) : a <= e.ts /\ e.ts <= a + Span
  <2>1. a \in 1..today /\ b \in 1..today /\ lo <= a /\ Present(lo) \subseteq Present(1)
    BY <1>0, PresentIs DEF Present
  <2>2. {a, b} \subseteq Near(lo, a) /\ Near(lo, a) \subseteq Present(1)
    BY <1>0, <1>5, <2>1 DEF Near
  <2>3. Traders(lo, a) >= 2
    <3>1. /\ Cardinality(Reporters(Near(lo, a))) \in Nat
          /\ Cardinality(Reporters({a, b})) <= Cardinality(Reporters(Near(lo, a)))
      BY <2>2, MoreReporters
    <3> QED BY <1>5, <3>1 DEF Traders
  <2>4. today + 1 - past <= a
    BY <1>0, <2>1 DEF past
  <2>5. PICK t \in a..(a + Span), c \in found : EndsOn(c, t)
    BY <1>2, <2>3, <2>4 DEF Told
  <2>6. [c EXCEPT !.ref = ""] \in Clusters(lo) /\ [c EXCEPT !.ref = ""].ts = t
    BY <1>1, <1>3, <2>5
  <2>7. a <= t /\ t <= a + Span
    BY <1>0, <2>1
  <2> QED BY <2>6, <2>7
<1> QED BY <1>4, <1>5

-----------------------------------------------------------------------------
\* Each step keeps the invariant.
LEMMA InitInv == EmitterAssumption /\ Init => EmitInv
<1> SUFFICES ASSUME EmitterAssumption, Init PROVE EmitInv
  OBVIOUS
<1>1. TypeOK
  BY DEF Init, TypeOK, EmitterAssumption
<1>2. Since = 1
  BY SinceIs, <1>1 DEF Init, Since, Window, Lateness, EmitterAssumption
<1>3. FlagsFollow
  BY <1>2 DEF Init, FlagsFollow, Fresh
<1>4. NoGap(rows, today)
  BY DEF Init, NoGap
<1> QED BY <1>1, <1>3, <1>4 DEF Init, EmitInv, RunsInTime, Stored, PeersReplaced, NothingIsInvented

LEMMA PresentFrom ==
    ASSUME NEW lo \in Nat \ {0}, today \in Nat
    PROVE  \A d : d \in Present(lo) <=> d \in Present(1) /\ lo <= d
BY DEF Present

LEMMA NextDayStored ==
    ASSUME EmitterAssumption, EmitInv, NextDay
    PROVE  Stored'
<1>1. TypeOK /\ TypeOK' /\ today' = today + 1 /\ today \in Nat /\ ran \in Nat /\ ran <= today
  BY NextDayRows DEF EmitInv, TypeOK
<1>2. UNCHANGED <<emitter, peer, flags, events, ran, first, owed>>
  BY DEF NextDay
<1>3. Lateness \in Nat /\ Lateness' = Lateness
  BY <1>2, LatenessIs DEF Lateness
<1>4. Pending \in Int /\ Settled \in Int /\ Pending <= Settled
  BY <1>1, <1>3 DEF Pending, Settled
<1>5. \A d : Seen(d)' => d < Pending
  <2>1. ran' # today' /\ Pending' = Pending
    BY <1>1, <1>2, <1>3 DEF Pending
  <2> QED BY <2>1 DEF Seen
<1>6. \A d \in Nat : d < Pending => d < Settled
  BY <1>4
<1> SUFFICES ASSUME first # 0 PROVE Stored'
  BY <1>2 DEF Stored
<1>7. first \in Nat \ {0}
  BY <1>1 DEF TypeOK
<1>8. CASE emitter # "insider"
  <2> SUFFICES ASSUME NEW e \in Batch', first <= e.ts, Seen(e.ts)' PROVE e \in events
    BY <1>2, <1>8 DEF Stored
  <2>1. e.ts < Pending
    BY <1>5
  <2>2. e.ts \in Nat
    BY <1>1, <1>2, <1>8, BatchIsDatedNext DEF Dated
  <2>3. e \in Batch
    BY <1>1, <1>6, <1>8, <2>1, <2>2, PastBatch
  <2> QED BY <1>8, <2>1, <2>3 DEF EmitInv, Stored, Seen
<1>9. CASE emitter = "insider"
  <2> SUFFICES ASSUME NEW a \in Present(first)', NEW b \in Present(first)', a <= b, b - a <= Span,
                      Cardinality(Reporters({a, b})') = 2, Seen(b)'
               PROVE  \E e \in events : a <= e.ts /\ e.ts <= a + Span
    BY <1>2, <1>9 DEF Stored
  <2>1. /\ a \in Present(1)' /\ b \in Present(1)' /\ first <= a /\ first <= b
    BY <1>1, <1>2, <1>7, PresentFrom DEF Present
  <2>2. a \in Nat /\ b \in Nat /\ b < Pending
    BY <1>1, <1>5, <2>1, PastDays
  <2>3. a < Settled /\ b < Settled
    BY <1>4, <2>2
  <2>4. a \in Present(1) /\ b \in Present(1)
    BY <1>1, <2>1, <2>2, <2>3, PastPresent
  <2>5. a \in Present(first) /\ b \in Present(first)
    BY <1>1, <1>7, <2>1, <2>4, PresentFrom
  <2>6. rows'[a] = rows[a] /\ rows'[b] = rows[b]
    BY <1>1, <2>2, <2>3, <2>4, PastPrior
  <2>7. Reporters({a, b})' = Reporters({a, b})
    BY <2>6 DEF Reporters
  <2>8. Cardinality(Reporters({a, b})) = 2
    BY <2>7
  <2> QED BY <1>9, <2>2, <2>5, <2>8 DEF EmitInv, Stored, Seen
<1> QED BY <1>8, <1>9

LEMMA NextDayInv ==
    ASSUME EmitterAssumption, EmitInv, NextDay
    PROVE  EmitInv'
<1>1. TypeOK /\ TypeOK' /\ today' = today + 1 /\ today \in Nat /\ ran \in Nat /\ ran <= today /\ Slack \in Nat
  BY NextDayRows DEF EmitInv, TypeOK, EmitterAssumption
<1>2. UNCHANGED <<emitter, peer, flags, events, ran, first, owed>>
  BY DEF NextDay
<1>3. RunsInTime'
  BY <1>1, <1>2 DEF NextDay, RunsInTime
<1>4. emitter' = "macro" => NoGap(rows', today')
  BY <1>1, <1>2 DEF NextDay
<1>5. PeersReplaced'
  <2>1. dirty' = "none" => dirty = "none"
    BY DEF NextDay
  <2> QED BY <1>2, <2>1 DEF EmitInv, PeersReplaced
<1>6. FlagsFollow'
  <2> SUFFICES ASSUME emitter = "anomaly" PROVE FlagsFollow'
    BY <1>2 DEF FlagsFollow
  <2>1. dirty' = "rows"
    BY DEF NextDay
  <2>2. \A d \in Present(1) : d \in Present(1)' /\ (Before(d, 1) # {} => Before(d, 1)' # {})
    BY <1>1, PastPresent DEF Before
  <2>3. flags' \subseteq {d \in Present(1)' : Before(d, 1)' # {} /\ d < today'}
    <3>1. \A d \in Present(1) : d < today => d < today'
      BY <1>1, PresentIs
    <3> QED BY <1>2, <2>2, <3>1 DEF EmitInv, FlagsFollow
  <2>4. \A e \in events' : e.ts < today'
    BY <1>1, <1>2 DEF EmitInv, FlagsFollow, TypeOK
  <2>5. ~ Fresh'
    BY <2>1 DEF Fresh
  <2> QED BY <2>1, <2>3, <2>4, <2>5 DEF FlagsFollow
<1>7. NothingIsInvented'
  BY <1>2 DEF EmitInv, NothingIsInvented
<1> QED BY <1>1, <1>3, <1>4, <1>5, <1>6, <1>7, NextDayStored DEF EmitInv

LEMMA ReclassifyInv ==
    ASSUME EmitterAssumption, EmitInv, Reclassify
    PROVE  EmitInv'
<1>1. emitter = "equity" /\ UNCHANGED <<emitter, today, rows, flags, events, ran, owed>>
      /\ peer' = "QQQ" /\ dirty' = "rows" /\ first' = 0
  BY DEF Reclassify
<1>2. TypeOK'
  BY <1>1 DEF EmitInv, TypeOK
<1>3. PeersReplaced'
  BY <1>1 DEF EmitInv, PeersReplaced
<1>4. FlagsFollow' /\ RunsInTime' /\ Stored' /\ NothingIsInvented'
  BY <1>1 DEF EmitInv, FlagsFollow, RunsInTime, Stored, NothingIsInvented
<1> QED BY <1>1, <1>2, <1>3, <1>4 DEF EmitInv

\* What a run writes of its window: the events of the window as they are, an event
\* before it untouched.
LEMMA Upserts ==
    ASSUME EmitterAssumption, TypeOK, NEW new, \A n \in new : n.ts >= Since
    PROVE  /\ Upserted(new) \subseteq events \cup new /\ new \subseteq Upserted(new)
           /\ \A e \in events : e.ts < Since => e \in Upserted(new)
           /\ \A e \in events : \E n \in Upserted(new) : n.ts = e.ts
<1>1. ASSUME NEW e \in events, NEW n \in new, Key(n) = Key(e) PROVE n.ts = e.ts
  BY <1>1 DEF Key
<1>2. ASSUME NEW e \in events, e.ts < Since PROVE \A n \in new : Key(n) # Key(e)
  <2> SUFFICES ASSUME NEW n \in new, Key(n) = Key(e) PROVE FALSE
    OBVIOUS
  <2>1. n.ts = e.ts /\ e.ts \in Nat /\ Since \in Nat /\ n.ts >= Since
    BY <1>1, SinceIs DEF TypeOK
  <2> QED BY <1>2, <2>1
<1> QED BY <1>1, <1>2 DEF Upserted

\* A run, of the emitters whose events are all of the batch.
LEMMA RunStores ==
    ASSUME EmitterAssumption, EmitInv, emitter \notin {"insider", "anomaly"},
           NEW e \in Batch, first # 0 \/ Since <= e.ts, first = 0 \/ first <= e.ts,
           first # 0 /\ e.ts < Since => Seen(e.ts)
    PROVE  e \in Upserted(InWindow(Found)) /\ (emitter = "equity" /\ peer = "QQQ" => e.ref # "SPY")
<1>1. InWindow(Found) = InWindow(Batch)
  BY FoundIsBatch DEF EmitInv
<1>2. \A n \in InWindow(Found) : n.ts >= Since
  BY DEF InWindow
<1>3. e.ts \in Nat /\ Since \in Nat /\ TypeOK /\ (emitter = "equity" => e.ref = peer)
  BY SinceIs, BatchIsDated DEF EmitInv
<1>4. CASE e.ts >= Since
  <2>1. e \in InWindow(Found)
    BY <1>1, <1>4 DEF InWindow
  <2> QED BY <1>2, <1>3, <2>1, Upserts
<1>5. CASE e.ts < Since
  <2>1. e \in events
    BY <1>3, <1>5 DEF EmitInv, Stored
  <2> QED BY <1>2, <1>3, <1>5, <2>1, Upserts
<1> QED BY <1>3, <1>4, <1>5

\* A run changes no row.
LEMMA SameHistory ==
    ASSUME UNCHANGED <<emitter, today, rows, peer>>
    PROVE  /\ UNCHANGED <<Lateness, Since, Batch>>
           /\ Outliers(1)' = Outliers(1)
           /\ \A lo, d : Present(lo)' = Present(lo) /\ Before(d, lo)' = Before(d, lo)
           /\ \A D : Reporters(D)' = Reporters(D)
<1>1. UNCHANGED <<Lateness, Window, Since>>
  BY DEF Lateness, Window, Since
<1>2. \A lo : Present(lo)' = Present(lo)
  BY DEF Present
<1>3. \A lo, d : Before(d, lo)' = Before(d, lo) /\ Prior(d, lo)' = Prior(d, lo)
  BY <1>2 DEF Before, Prior
<1>4. \A D : Reporters(D)' = Reporters(D)
  BY DEF Reporters
<1>5. Crossings(1)' = Crossings(1)
  BY DEF Crossings, State, Present, Before, Prior
<1>6. Bands(1)' = Bands(1)
  BY DEF Bands, Present, Before
<1>7. Episodes(1)' = Episodes(1)
  BY DEF Episodes, Onsets, Present, Before, Prior
<1>8. Transitions(1)' = Transitions(1)
  BY DEF Transitions, Present, Before, Prior
<1>9. Clusters(1)' = Clusters(1)
  BY DEF Clusters, Present, Reporters
<1>10. Crowding(1)' = Crowding(1)
  BY DEF Crowding, Present, Before, Prior
<1>11. Filings(1)' = Filings(1)
  BY DEF Filings, Present
<1>12. Outliers(1)' = Outliers(1)
  BY DEF Outliers, Present, Before
<1>13. Batch' = Batch
  BY <1>5, <1>6, <1>7, <1>8, <1>9, <1>10, <1>11, <1>12 DEF Batch, Gives, Signals
<1> QED BY <1>1, <1>2, <1>3, <1>4, <1>12, <1>13
\* A run whose rows and flags are as they were leaves these as they are.
LEMMA RunKeeps ==
    ASSUME EmitterAssumption, EmitInv, UNCHANGED <<emitter, today, rows, peer>>,
           today > 0, ran' = today, dirty' = "none", first' = IF first = 0 THEN Since ELSE first,
           \A e \in events' : e.ts \in Nat
    PROVE  /\ TypeOK' /\ RunsInTime' /\ (emitter' = "macro" => NoGap(rows', today'))
           /\ first' \in Nat \ {0}
           /\ first = 0 => first' = Since
           /\ first # 0 => first' = first
<1>1. TypeOK /\ Since \in Nat \ {0} /\ Slack \in Nat /\ today \in Nat
  BY SinceIs DEF EmitInv, TypeOK, EmitterAssumption
<1>2. first' \in Nat \ {0}
  BY <1>1 DEF TypeOK
<1>3. TypeOK'
  BY <1>1, <1>2 DEF TypeOK
<1>4. RunsInTime'
  BY <1>1 DEF RunsInTime
<1> QED BY <1>2, <1>3, <1>4 DEF EmitInv

\* What the last run has covered before the window is settled.
LEMMA CoveredBefore ==
    ASSUME EmitterAssumption, EmitInv, first # 0
    PROVE  /\ \A d \in Nat \ {0} : d < Since => Seen(d)
           /\ emitter = "insider" =>
                 \A a, b \in Nat \ {0} : a < Since /\ b - a <= Span => Seen(b)
BY SinceIs DEF EmitInv, Seen

LEMMA InsiderStored ==
    ASSUME EmitterAssumption, EmitInv, Emit, emitter = "insider"
    PROVE  Stored' /\ \A e \in events' : e.ts \in Nat
<1>1. TypeOK /\ Since \in Nat \ {0} /\ today \in Nat /\ Span \in Nat
  BY SinceIs DEF EmitInv, TypeOK, EmitterAssumption
<1>2. /\ UNCHANGED <<emitter, today, rows, peer>> /\ ran' = today /\ dirty' = "none"
      /\ first' = IF first = 0 THEN Since ELSE first
      /\ events' = Upserted(InWindow(Clusters(Since)))
  <2>1. Found = Clusters(Since)
    BY DEF Found, Gives
  <2>2. \A E : {e \in E : emitter = "equity" /\ peer = "QQQ" => e.ref # "SPY"} = E
    OBVIOUS
  <2> QED BY <2>1, <2>2 DEF Emit, Ran
<1>3. /\ \A e \in Clusters(Since) : e.ts \in Nat
      /\ \A a, b \in Present(Since) :
            a <= b /\ b - a <= Span /\ Cardinality(Reporters({a, b})) = 2
                => \E e \in Clusters(Since) : a <= e.ts /\ e.ts <= a + Span
  BY <1>1, ClustersCover
<1> DEFINE new == InWindow(Clusters(Since))
<1>4. /\ Upserted(new) \subseteq events \cup new /\ new \subseteq Upserted(new)
      /\ \A e \in events : \E n \in Upserted(new) : n.ts = e.ts
  BY <1>1, Upserts DEF InWindow
<1>5. \A e \in events' : e.ts \in Nat
  BY <1>1, <1>2, <1>3, <1>4 DEF InWindow, TypeOK
<1>6. /\ \A lo : Present(lo)' = Present(lo)
      /\ \A D : Reporters(D)' = Reporters(D)
  BY <1>2, SameHistory
<1>7. ASSUME NEW a \in Present(1), NEW b \in Present(1), a <= b, b - a <= Span,
             Cardinality(Reporters({a, b})) = 2,
             first = 0 => Since <= a, first # 0 => first <= a
      PROVE  \E e \in events' : a <= e.ts /\ e.ts <= a + Span
  <2>1. a \in 1..today /\ b \in 1..today
    BY <1>1, PresentIs
  <2>2. CASE Since <= a
    <3>1. a \in Present(Since) /\ b \in Present(Since)
      BY <1>1, <1>7, <2>1, <2>2, PresentFrom
    <3>2. PICK e \in Clusters(Since) : a <= e.ts /\ e.ts <= a + Span
      BY <1>3, <1>7, <3>1
    <3>3. e \in new
      BY <1>1, <1>3, <2>1, <2>2, <3>2 DEF InWindow
    <3> QED BY <1>2, <1>4, <3>2, <3>3
  <2>3. CASE ~ (Since <= a)
    <3>1. first # 0 /\ first \in Nat \ {0} /\ first <= a /\ first <= b
      BY <1>1, <1>7, <2>1, <2>3 DEF TypeOK
    <3>2. Seen(b)
      BY <1>1, <1>7, <2>1, <2>3, <3>1, CoveredBefore
    <3>3. a \in Present(first) /\ b \in Present(first)
      BY <1>1, <3>1, PresentFrom
    <3>4. PICK e \in events : a <= e.ts /\ e.ts <= a + Span
      BY <1>7, <3>1, <3>2, <3>3 DEF EmitInv, Stored
    <3>5. PICK n \in Upserted(new) : n.ts = e.ts
      BY <1>4
    <3> QED BY <1>2, <3>4, <3>5
  <2> QED BY <2>2, <2>3
<1>8. Stored'
  <2>1. \A d \in Present(first)' : d \in Present(1) /\ (first = 0 => Since <= d) /\ (first # 0 => first <= d)
    <3>1. PICK f : f = first'
      OBVIOUS
    <3>2. f \in Nat \ {0} /\ (first = 0 => f = Since) /\ (first # 0 => f = first)
      BY <1>1, <1>2, <3>1 DEF TypeOK
    <3>3. Present(first)' = Present(f)
      BY <1>2, <3>1 DEF Present
    <3> QED BY <1>1, <3>2, <3>3, PresentFrom
  <2>2. \A a, b : Reporters({a, b})' = Reporters({a, b})
    BY <1>6
  <2> QED BY <1>2, <1>7, <2>1, <2>2 DEF Stored
<1> QED BY <1>5, <1>8

LEMMA EmitStepInv ==
    ASSUME EmitterAssumption, EmitInv, Emit
    PROVE  EmitInv'
<1>1. TypeOK /\ Since \in Nat \ {0} /\ today \in Nat /\ today > 0 /\ emitter # "anomaly"
  BY SinceIs DEF EmitInv, TypeOK, EmitterAssumption, Emit
<1>2. /\ UNCHANGED <<emitter, today, rows, peer>> /\ ran' = today /\ dirty' = "none"
      /\ first' = IF first = 0 THEN Since ELSE first
      /\ owed' = owed \cup Batch
  BY DEF Emit, Ran
<1>3. /\ UNCHANGED <<Since, Batch>>
  BY <1>2, SameHistory
<1>4. FlagsFollow'
  BY <1>1, <1>2 DEF FlagsFollow
<1>5. CASE emitter = "insider"
  <2>1. Stored' /\ \A e \in events' : e.ts \in Nat
    BY <1>5, InsiderStored
  <2>2. PeersReplaced' /\ NothingIsInvented'
    BY <1>2, <1>5 DEF PeersReplaced, NothingIsInvented
  <2> QED BY <1>1, <1>2, <1>4, <2>1, <2>2, RunKeeps DEF EmitInv
<1>6. CASE emitter # "insider"
  <2> DEFINE new == InWindow(Found)
  <2>1. new = InWindow(Batch) /\ new \subseteq Batch /\ \A n \in new : n.ts >= Since
    BY <1>1, <1>6, FoundIsBatch DEF EmitInv, InWindow
  <2>2. Upserted(new) \subseteq events \cup Batch
    BY <1>1, <2>1, Upserts
  <2>3. events' = {e \in Upserted(new) : emitter = "equity" /\ peer = "QQQ" => e.ref # "SPY"}
    BY DEF Emit
  <2>4. \A e \in Batch : e.ts \in Nat \ {0} /\ (emitter = "equity" => e.ref = peer)
    BY <1>1, <1>6, BatchIsDated
  <2>5. events' \subseteq events \cup Batch
    BY <2>2, <2>3
  <2>6. \A e \in events' : e.ts \in Nat
    BY <1>1, <2>4, <2>5 DEF TypeOK
  <2>7. /\ TypeOK' /\ RunsInTime' /\ (emitter' = "macro" => NoGap(rows', today'))
        /\ first = 0 => first' = Since
        /\ first # 0 => first' = first
    BY <1>1, <1>2, <2>6, RunKeeps
  <2>8. NothingIsInvented'
    BY <1>2, <1>6, <2>5 DEF EmitInv, NothingIsInvented
  <2>9. PeersReplaced'
    <3> SUFFICES ASSUME emitter = "equity", NEW e \in events'
                 PROVE  e.ref \in {"SPY", "QQQ"} /\ (peer = "QQQ" => e.ref = "QQQ")
      BY <1>2 DEF PeersReplaced
    <3>1. e.ref \in {"SPY", "QQQ"}
      BY <1>1, <2>4, <2>5 DEF EmitInv, PeersReplaced, TypeOK
    <3>2. peer = "QQQ" => e.ref # "SPY"
      BY <2>3
    <3> QED BY <3>1, <3>2
  <2>10. ASSUME NEW e \in Batch, first = 0 => Since <= e.ts, first # 0 => first <= e.ts
         PROVE  e \in events'
    <3>1. first # 0 /\ e.ts < Since => Seen(e.ts)
      BY <2>4, CoveredBefore
    <3> QED BY <1>1, <1>6, <2>3, <2>10, <3>1, RunStores
  <2>11. Stored'
    BY <1>2, <1>3, <1>6, <2>7, <2>10 DEF Stored
  <2> QED BY <1>4, <2>7, <2>8, <2>9, <2>11 DEF EmitInv
<1> QED BY <1>5, <1>6
LEMMA EquityDiesInv ==
    ASSUME EmitterAssumption, EmitInv, EquityDies
    PROVE  EmitInv'
<1>1. TypeOK /\ Since \in Nat \ {0} /\ emitter = "equity" /\ peer = "QQQ"
  BY SinceIs DEF EmitInv, EquityDies
<1>2. /\ UNCHANGED <<emitter, today, rows, peer, flags, ran, first, dirty>>
      /\ events' = Upserted(InWindow(Found)) /\ owed' = owed \cup Batch
  BY DEF EquityDies
<1>3. UNCHANGED <<Lateness, Since, Batch>>
  BY <1>2, SameHistory
<1> DEFINE new == InWindow(Found)
<1>4. new \subseteq Batch /\ \A n \in new : n.ts >= Since
  BY <1>1, FoundIsBatch DEF EmitInv, InWindow
<1>5. \A e \in Batch : e.ts \in Nat \ {0} /\ e.ref = peer
  BY <1>1, BatchIsDated
<1>6. events' \subseteq events \cup Batch
  BY <1>1, <1>2, <1>4, Upserts
<1>7. TypeOK'
  BY <1>1, <1>2, <1>5, <1>6 DEF TypeOK
<1>8. RunsInTime' /\ FlagsFollow' /\ (emitter' = "macro" => NoGap(rows', today')) /\ NothingIsInvented'
  BY <1>1, <1>2, <1>6 DEF EmitInv, RunsInTime, FlagsFollow, NothingIsInvented
<1>9. PeersReplaced'
  BY <1>1, <1>2, <1>5, <1>6 DEF EmitInv, PeersReplaced
<1>10. Stored'
  <2>1. \A d : Seen(d)' <=> Seen(d)
    BY <1>2, <1>3 DEF Seen, Pending
  <2>2. ASSUME first # 0, NEW e \in Batch, first <= e.ts, Seen(e.ts)
        PROVE  e \in events'
    BY <1>1, <1>2, <2>2, RunStores
  <2> QED BY <1>1, <1>2, <1>3, <2>1, <2>2 DEF Stored
<1> QED BY <1>7, <1>8, <1>9, <1>10 DEF EmitInv

LEMMA DetectInv ==
    ASSUME EmitterAssumption, EmitInv, Detect
    PROVE  EmitInv'
<1>1. TypeOK /\ Since \in Nat \ {0} /\ emitter = "anomaly" /\ today \in Nat
  BY SinceIs DEF EmitInv, TypeOK, Detect
<1>2. /\ UNCHANGED <<emitter, today, rows, peer, events, ran, first, owed>>
      /\ dirty' = IF dirty = "rows" THEN "flags" ELSE dirty
  BY DEF Detect
<1>3. /\ UNCHANGED <<Lateness, Since, Batch>> /\ Outliers(1)' = Outliers(1)
      /\ \A lo, d : Present(lo)' = Present(lo) /\ Before(d, lo)' = Before(d, lo)
  BY <1>2, SameHistory
<1> DEFINE returns == {d \in Present(1) : Before(d, 1) # {} /\ Since <= d /\ d < today}
           stale == {f \in flags : \E a, b \in returns : a <= f /\ f <= b}
<1>4. flags' = (flags \ stale) \cup (Outliers(1) \cap returns)
  BY DEF Detect
<1>5. \A d \in Present(1) : d \in Nat /\ d <= today
  BY <1>1, PresentIs
<1>6. TypeOK' /\ RunsInTime' /\ NothingIsInvented' /\ PeersReplaced' /\ emitter' # "macro"
  BY <1>1, <1>2 DEF EmitInv, TypeOK, RunsInTime, NothingIsInvented, PeersReplaced
<1>7. dirty' = "none" <=> dirty = "none"
  BY <1>2
<1>8. Stored'
  <2>1. \A d : Seen(d)' <=> Seen(d)
    BY <1>2, <1>3, <1>7 DEF Seen, Pending
  <2> QED BY <1>1, <1>2, <1>3, <2>1 DEF EmitInv, Stored
<1>9. flags \subseteq {d \in Present(1) : Before(d, 1) # {} /\ d < today}
  BY <1>1 DEF EmitInv, FlagsFollow
<1>10. flags' \subseteq {d \in Present(1) : Before(d, 1) # {} /\ d < today}
  BY <1>4, <1>9
<1>11. ASSUME NEW d \in Since..today
       PROVE  d \in flags' <=> d \in Outliers(1) /\ d # today
  <2>1. ASSUME d \in Outliers(1), d # today PROVE d \in flags'
    <3>1. d \in returns
      BY <1>1, <2>1 DEF Outliers
    <3> QED BY <1>4, <2>1, <3>1
  <2>2. ASSUME d \in flags' PROVE d \in Outliers(1) /\ d # today
    <3>1. d \in returns /\ d # today
      BY <1>1, <1>10, <2>2
    <3>2. d \in flags => d \in stale
      BY <1>1, <3>1
    <3> QED BY <1>4, <2>2, <3>1, <3>2
  <2> QED BY <2>1, <2>2
<1>12. FlagsFollow'
  <2>1. Fresh' <=> Fresh
    BY <1>2, <1>7 DEF Fresh
  <2>2. InWindow(events)' = InWindow(events) /\ InWindow(Batch)' = InWindow(Batch)
    BY <1>2, <1>3 DEF InWindow
  <2> HIDE DEF returns, stale
  <2> QED BY <1>1, <1>2, <1>3, <1>10, <1>11, <2>1, <2>2 DEF EmitInv, FlagsFollow
<1> QED BY <1>6, <1>8, <1>12 DEF EmitInv

LEMMA ProjectInv ==
    ASSUME EmitterAssumption, EmitInv, Project
    PROVE  EmitInv'
<1>1. TypeOK /\ Since \in Nat \ {0} /\ emitter = "anomaly" /\ today \in Nat /\ today > 0 /\ Since <= today
  BY SinceIs DEF EmitInv, TypeOK, Project
<1>2. /\ UNCHANGED <<emitter, today, rows, peer, flags>> /\ ran' = today /\ dirty' = "none"
      /\ first' = IF first = 0 THEN Since ELSE first
      /\ owed' = owed \cup Batch /\ dirty # "rows"
  BY DEF Project, Ran
<1>3. /\ UNCHANGED <<Since, Batch>> /\ Outliers(1)' = Outliers(1)
      /\ \A lo, d : Present(lo)' = Present(lo) /\ Before(d, lo)' = Before(d, lo)
  BY <1>2, SameHistory
<1> DEFINE written == Signals({f \in flags : Since <= f /\ f < today})
<1>4. /\ flags \subseteq {d \in Present(1) : Before(d, 1) # {} /\ d < today}
      /\ \A d \in Since..today : d \in flags <=> d \in Outliers(1) /\ d # today
      /\ \A e \in events : e.ts < today
  BY <1>1, <1>2 DEF EmitInv, FlagsFollow
<1>5. \A d \in Present(1) : d \in Nat \ {0} /\ d <= today
  BY <1>1, PresentIs
<1>6. /\ Batch = Signals(Outliers(1) \ {today})
      /\ \A d : Event(d, "anomaly", "", 1).ts = d
  BY <1>1 DEF Batch, Gives, Event
<1>7. Outliers(1) \subseteq Present(1)
  BY DEF Outliers
<1>8. written = InWindow(Batch)
  <2>1. {f \in flags : Since <= f /\ f < today} = {d \in Outliers(1) \ {today} : d >= Since}
    <3>1. \A d \in Nat : Since <= d /\ d <= today <=> d \in Since..today
      BY <1>1
    <3>2. \A d \in Nat : d >= Since <=> Since <= d
      BY <1>1
    <3>3. \A d \in Nat : d <= today => (d < today <=> d # today)
      BY <1>1
    <3> QED BY <1>4, <1>5, <1>7, <3>1, <3>2, <3>3
  <2>2. InWindow(Batch) = Signals({d \in Outliers(1) \ {today} : d >= Since})
    BY <1>6 DEF InWindow, Signals
  <2> QED BY <2>1, <2>2
<1>9. \A e \in Batch : e.ts \in Nat \ {0} /\ e.ts < today
  <2>1. \A d \in Outliers(1) \ {today} : d \in Nat \ {0} /\ d < today
    BY <1>1, <1>5, <1>7
  <2> QED BY <1>6, <2>1 DEF Signals
<1>10. events' = {e \in events : e.ts < Since \/ e.ts >= today} \cup InWindow(Batch)
  BY <1>8 DEF Project
<1>11. \A e \in events' : e.ts \in Nat /\ e.ts < today
  BY <1>1, <1>4, <1>9, <1>10 DEF TypeOK, InWindow
<1>12. InWindow(events') = InWindow(Batch)
  <2>1. \A e \in events : e.ts \in Nat
    BY <1>1 DEF TypeOK
  <2>2. \A e \in events : e.ts >= Since => ~ (e.ts < Since \/ e.ts >= today)
    BY <1>1, <1>4, <2>1
  <2> QED BY <1>10, <2>2 DEF InWindow
<1>13. /\ TypeOK' /\ RunsInTime' /\ (emitter' = "macro" => NoGap(rows', today'))
       /\ first = 0 => first' = Since
       /\ first # 0 => first' = first
  BY <1>1, <1>2, <1>11, RunKeeps
<1>14. NothingIsInvented' /\ PeersReplaced'
  BY <1>1, <1>2, <1>10 DEF EmitInv, NothingIsInvented, PeersReplaced, InWindow
<1>15. Stored'
  <2>1. ASSUME NEW e \in Batch, first = 0 => Since <= e.ts, first # 0 => first <= e.ts
        PROVE  e \in events'
    <3>1. e.ts \in Nat \ {0}
      BY <1>9
    <3>2. CASE e.ts >= Since
      BY <1>10, <3>2 DEF InWindow
    <3>3. CASE ~ (e.ts >= Since)
      <4>1. e.ts < Since /\ first # 0
        BY <1>1, <2>1, <3>1, <3>3
      <4>2. Seen(e.ts)
        BY <3>1, <4>1, CoveredBefore
      <4>3. e \in events
        BY <1>1, <2>1, <4>1, <4>2 DEF EmitInv, Stored
      <4> QED BY <1>10, <4>1, <4>3
    <3> QED BY <3>2, <3>3
  <2> QED BY <1>1, <1>2, <1>3, <1>13, <2>1 DEF Stored
<1>16. FlagsFollow'
  <2>1. InWindow(events)' = InWindow(events') /\ InWindow(Batch)' = InWindow(Batch)
    BY <1>3 DEF InWindow
  <2> QED BY <1>1, <1>2, <1>3, <1>4, <1>11, <1>12, <2>1 DEF FlagsFollow
<1> QED BY <1>13, <1>14, <1>15, <1>16 DEF EmitInv

LEMMA NextEmitInv ==
    ASSUME EmitterAssumption, EmitInv, [Next]_emittersVars
    PROVE  EmitInv'
<1>1. CASE NextDay
  BY <1>1, NextDayInv
<1>2. CASE Reclassify
  BY <1>2, ReclassifyInv
<1>3. CASE Emit
  BY <1>3, EmitStepInv
<1>4. CASE EquityDies
  BY <1>4, EquityDiesInv
<1>5. CASE Detect
  BY <1>5, DetectInv
<1>6. CASE Project
  BY <1>6, ProjectInv
<1>7. CASE UNCHANGED emittersVars
  <2>1. UNCHANGED <<emitter, today, rows, peer, flags, events, ran, first, dirty, owed>>
    BY <1>7 DEF emittersVars
  <2>2. UNCHANGED <<Lateness, Since, Batch>> /\ Outliers(1)' = Outliers(1)
        /\ \A lo, d : Present(lo)' = Present(lo) /\ Before(d, lo)' = Before(d, lo)
    BY <2>1, SameHistory
  <2>3. \A D : Reporters(D)' = Reporters(D)
    BY <2>1, SameHistory
  <2>4. \A d : Seen(d)' <=> Seen(d)
    BY <2>1, <2>2 DEF Seen, Pending
  <2>5. Present(first)' = Present(first)
    BY <2>1 DEF Present
  <2>6. \A a, b : Reporters({a, b})' = Reporters({a, b})
    BY <2>3
  <2>7. TypeOK' /\ RunsInTime' /\ PeersReplaced' /\ NothingIsInvented' /\ (emitter' = "macro" => NoGap(rows', today'))
    BY <2>1 DEF EmitInv, TypeOK, RunsInTime, PeersReplaced, NothingIsInvented
  <2>8. Stored'
    BY <2>1, <2>2, <2>4, <2>5, <2>6 DEF EmitInv, Stored
  <2>9. FlagsFollow'
    <3>1. InWindow(events)' = InWindow(events) /\ InWindow(Batch)' = InWindow(Batch)
      BY <2>1, <2>2 DEF InWindow
    <3>2. Fresh' <=> Fresh
      BY <2>1 DEF Fresh
    <3> QED BY <2>1, <2>2, <3>1, <3>2 DEF EmitInv, FlagsFollow
  <2> QED BY <2>7, <2>8, <2>9 DEF EmitInv
<1> QED BY <1>1, <1>2, <1>3, <1>4, <1>5, <1>6, <1>7 DEF Next

LEMMA EmitInvTells == EmitterAssumption /\ EmitInv => EventsAreOwed
<1> SUFFICES ASSUME EmitterAssumption, EmitInv, Fresh PROVE NothingIsForgotten /\ ReplacedIsGone
  BY DEF EventsAreOwed, EmitInv
<1>1. first # 0 /\ \A d : Seen(d)
  BY DEF Fresh, Seen
<1>2. first \in Nat /\ (emitter # "insider" => \A e \in Batch : e.ts \in Nat)
  BY BatchIsDated DEF EmitInv, TypeOK
<1>3. CASE emitter = "insider"
  <2>1. PairsAreCovered
    BY <1>1, <1>3 DEF EmitInv, Stored, PairsAreCovered
  <2> QED BY <1>3, <2>1 DEF NothingIsForgotten, ReplacedIsGone
<1>4. CASE emitter # "insider"
  <2>1. \A e \in Batch : e.ts >= first => e \in events
    BY <1>1, <1>2, <1>4 DEF EmitInv, Stored
  <2>2. NothingIsForgotten
    BY <1>4, <2>1 DEF NothingIsForgotten
  <2>3. ReplacedIsGone
    BY DEF ReplacedIsGone, EmitInv, PeersReplaced, FlagsFollow, Fresh
  <2> QED BY <2>2, <2>3
<1> QED BY <1>3, <1>4

\* Jobs that see a trailing window, skip days and meet late and corrected rows end up
\* with the events that one pass over the whole history finds, and store none that it
\* never gave: for each emitter (run.py's of experiments.emitters), any number of days,
\* rows any number of days late, and a window that absorbs them.
THEOREM EmittersKeepUp == EmitterAssumption => (Spec => []EventsAreOwed)
<1> SUFFICES ASSUME EmitterAssumption PROVE Spec => []EventsAreOwed
  OBVIOUS
<1>1. Init => EmitInv
  BY InitInv
<1>2. EmitInv /\ [Next]_emittersVars => EmitInv'
  BY NextEmitInv
<1>3. EmitInv => EventsAreOwed
  BY EmitInvTells
<1> QED BY <1>1, <1>2, <1>3, PTL DEF Spec

-----------------------------------------------------------------------------
\* Sums of a function over a finite set, as the community modules' fold defines them.
AnyOf(T) == CHOOSE x \in T : TRUE
TotalStep(g, f, T) == IF T = {} THEN 0 ELSE f[AnyOf(T)] + g[T \ {AnyOf(T)}]
IsTotal(g, f, S) == g = [T \in SUBSET S |-> TotalStep(g, f, T)]
TotalsOf(f, S) == CHOOSE g : IsTotal(g, f, S)
TotalOf(f, S) == TotalsOf(f, S)[S]

LEMMA WithoutAny ==
    ASSUME NEW S, IsFiniteSet(S), NEW T \in SUBSET S
    PROVE  /\ IsFiniteSet(T) /\ Cardinality(T) \in Nat
           /\ Cardinality(T) = 0 <=> T = {}
           /\ \A x \in T : /\ T \ {x} \in SUBSET S
                           /\ Cardinality(T \ {x}) \in Nat /\ Cardinality(T \ {x}) = Cardinality(T) - 1
           /\ T # {} => AnyOf(T) \in T
<1>1. IsFiniteSet(T)
  BY FS_Subset
<1>2. Cardinality(T) \in Nat /\ (Cardinality(T) = 0 <=> T = {})
  BY <1>1, FS_CardinalityType, FS_EmptySet
<1>3. \A x \in T : IsFiniteSet(T \ {x}) /\ Cardinality(T \ {x}) = Cardinality(T) - 1
  BY <1>1, FS_RemoveElement
<1>4. \A x \in T : Cardinality(T \ {x}) \in Nat
  BY <1>3, FS_CardinalityType
<1> QED BY <1>1, <1>2, <1>3, <1>4 DEF AnyOf

\* A counterexample of least size.
LEMMA SmallestSet ==
    ASSUME NEW X, X # {}, \A T \in X : Cardinality(T) \in Nat
    PROVE  \E T \in X : \A U \in X : Cardinality(T) <= Cardinality(U)
<1> DEFINE Sizes == {Cardinality(T) : T \in X}
<1>1. Sizes \in SUBSET Nat /\ Sizes # {}
  OBVIOUS
<1>2. \E n \in Sizes : \A m \in Sizes : n <= m
  <2> HIDE DEF Sizes
  <2> QED BY <1>1, LeastNat
<1> QED BY <1>2

LEMMA TotalExists ==
    ASSUME NEW f, NEW S, IsFiniteSet(S)
    PROVE  IsTotal(TotalsOf(f, S), f, S)
<1> DEFINE Upto(n) == {T \in SUBSET S : Cardinality(T) <= n}
           Partly(g, n) == \A T \in Upto(n) : g[T] = TotalStep(g, f, T)
           Lacks == {n \in Nat : ~ \E g : Partly(g, n)}
<1>0. \A T \in SUBSET S : Cardinality(T) \in Nat
  BY WithoutAny
<1>1. ASSUME NEW g, NEW h, NEW T \in SUBSET S,
             \A U \in SUBSET S : Cardinality(U) < Cardinality(T) => g[U] = h[U]
      PROVE  TotalStep(g, f, T) = TotalStep(h, f, T)
  <2>1. CASE T = {}
    BY <2>1 DEF TotalStep
  <2>2. CASE T # {}
    <3> DEFINE U == T \ {AnyOf(T)}
    <3>1. U \in SUBSET S /\ Cardinality(U) < Cardinality(T)
      BY <1>0, <2>2, WithoutAny
    <3>2. g[U] = h[U]
      BY <1>1, <3>1
    <3> QED BY <2>2, <3>2 DEF TotalStep
  <2> QED BY <2>1, <2>2
<1>2. Lacks = {}
  <2> SUFFICES ASSUME Lacks # {} PROVE FALSE
    OBVIOUS
  <2>1. PICK n \in Lacks : \A l \in Lacks : n <= l
    <3>1. Lacks \in SUBSET Nat
      OBVIOUS
    <3> HIDE DEF Lacks
    <3> QED BY <3>1, LeastNat
  <2>2. n \in Nat /\ ~ \E g : Partly(g, n)
    OBVIOUS
  <2>3. \E h : \A T \in SUBSET S : Cardinality(T) < n => h[T] = TotalStep(h, f, T)
    <3>1. CASE n = 0
      BY <1>0, <3>1
    <3>2. CASE n # 0
      <4>1. n - 1 \in Nat /\ ~ (n <= n - 1)
        BY <2>2, <3>2
      <4>2. n - 1 \notin Lacks
        BY <2>1, <4>1
      <4>3. PICK h : Partly(h, n - 1)
        BY <4>1, <4>2
      <4>4. \A T \in SUBSET S : Cardinality(T) < n => T \in Upto(n - 1)
        BY <1>0, <2>2
      <4> QED BY <4>3, <4>4
    <3> QED BY <3>1, <3>2
  <2>4. PICK h : \A T \in SUBSET S : Cardinality(T) < n => h[T] = TotalStep(h, f, T)
    BY <2>3
  <2> DEFINE g == [T \in SUBSET S |-> TotalStep(h, f, T)]
  <2>5. \A T \in SUBSET S : g[T] = TotalStep(h, f, T)
    OBVIOUS
  <2> HIDE DEF g
  <2>6. ASSUME NEW T \in Upto(n) PROVE g[T] = TotalStep(g, f, T)
    <3>1. T \in SUBSET S /\ \A U \in SUBSET S : Cardinality(U) < Cardinality(T) => Cardinality(U) < n
      BY <1>0, <2>2
    <3>2. \A U \in SUBSET S : Cardinality(U) < Cardinality(T) => h[U] = g[U]
      BY <2>4, <2>5, <3>1
    <3>3. TotalStep(h, f, T) = TotalStep(g, f, T)
      BY <1>1, <3>1, <3>2
    <3> QED BY <2>5, <3>1, <3>3
  <2> QED BY <2>2, <2>6
<1>3. S \in SUBSET S /\ Cardinality(S) \in Nat /\ \A T \in SUBSET S : Cardinality(T) <= Cardinality(S)
  BY <1>0, FS_Subset
<1>4. PICK h : Partly(h, Cardinality(S))
  BY <1>2, <1>3
<1>5. \A T \in SUBSET S : h[T] = TotalStep(h, f, T)
  BY <1>3, <1>4
<1> DEFINE g == [T \in SUBSET S |-> h[T]]
<1>6. \A T \in SUBSET S : g[T] = h[T]
  OBVIOUS
<1>7. g = [T \in SUBSET S |-> g[T]]
  OBVIOUS
<1> HIDE DEF g
<1>8. \A T \in SUBSET S : g[T] = TotalStep(g, f, T)
  <2> SUFFICES ASSUME NEW T \in SUBSET S PROVE g[T] = TotalStep(g, f, T)
    OBVIOUS
  <2>1. TotalStep(h, f, T) = TotalStep(g, f, T)
    BY <1>1, <1>6
  <2> QED BY <1>5, <1>6, <2>1
<1>9. IsTotal(g, f, S)
  BY <1>7, <1>8 DEF IsTotal
<1> QED BY <1>9 DEF TotalsOf

\* The sum over a part does not depend on the whole.
LEMMA TotalOfPart ==
    ASSUME NEW f, NEW S, IsFiniteSet(S), NEW T \in SUBSET S
    PROVE  TotalsOf(f, S)[T] = TotalOf(f, T)
<1> DEFINE g == TotalsOf(f, S)
           h == TotalsOf(f, T)
           Bad == {U \in SUBSET T : g[U] # h[U]}
<1>1. IsFiniteSet(T)
  BY WithoutAny
<1>2. /\ \A U \in SUBSET T : g[U] = TotalStep(g, f, U)
      /\ \A U \in SUBSET T : h[U] = TotalStep(h, f, U)
  <2>1. IsTotal(g, f, S) /\ IsTotal(h, f, T)
    BY <1>1, TotalExists
  <2>2. \A U \in SUBSET T : U \in SUBSET S
    OBVIOUS
  <2> HIDE DEF g, h
  <2> QED BY <2>1, <2>2 DEF IsTotal
<1> HIDE DEF g, h
<1>3. Bad = {}
  <2> SUFFICES ASSUME Bad # {} PROVE FALSE
    OBVIOUS
  <2>1. \A U \in Bad : U \in SUBSET T /\ Cardinality(U) \in Nat
    BY <1>1, WithoutAny
  <2>2. PICK U \in Bad : \A V \in Bad : Cardinality(U) <= Cardinality(V)
    <3> HIDE DEF Bad
    <3> QED BY <2>1, SmallestSet
  <2>3. U \in SUBSET T /\ g[U] # h[U]
    OBVIOUS
  <2>4. CASE U = {}
    BY <1>2, <2>3, <2>4 DEF TotalStep
  <2>5. CASE U # {}
    <3> DEFINE V == U \ {AnyOf(U)}
    <3>1. V \in SUBSET T /\ Cardinality(V) \in Nat /\ Cardinality(V) = Cardinality(U) - 1
      BY <1>1, <2>3, <2>5, WithoutAny
    <3>2. ~ (Cardinality(U) <= Cardinality(V))
      BY <2>1, <3>1
    <3>3. V \notin Bad
      BY <2>2, <3>2
    <3>4. g[V] = h[V]
      BY <3>1, <3>3
    <3> QED BY <1>2, <2>3, <2>5, <3>4 DEF TotalStep
  <2> QED BY <2>4, <2>5
<1>4. g[T] = h[T]
  BY <1>3
<1> QED BY <1>4 DEF g, h, TotalOf

LEMMA TotalOnce ==
    ASSUME NEW f, NEW S, IsFiniteSet(S), S # {}
    PROVE  TotalOf(f, S) = f[AnyOf(S)] + TotalOf(f, S \ {AnyOf(S)})
<1>1. IsTotal(TotalsOf(f, S), f, S)
  BY TotalExists
<1>2. TotalsOf(f, S)[S] = TotalStep(TotalsOf(f, S), f, S)
  <2> DEFINE g == TotalsOf(f, S)
  <2>1. IsTotal(g, f, S)
    BY <1>1
  <2> HIDE DEF g
  <2>2. g[S] = TotalStep(g, f, S)
    BY <2>1 DEF IsTotal
  <2> QED BY <2>2 DEF g
<1>3. TotalsOf(f, S)[S \ {AnyOf(S)}] = TotalOf(f, S \ {AnyOf(S)})
  BY TotalOfPart
<1> QED BY <1>2, <1>3 DEF TotalStep, TotalOf

LEMMA TotalEmpty == \A f : TotalOf(f, {}) = 0
<1> SUFFICES ASSUME NEW f PROVE TotalOf(f, {}) = 0
  OBVIOUS
<1> DEFINE g == TotalsOf(f, {})
<1>1. IsTotal(g, f, {})
  BY TotalExists, FS_EmptySet
<1> HIDE DEF g
<1>2. g[{}] = TotalStep(g, f, {})
  BY <1>1 DEF IsTotal
<1> QED BY <1>2 DEF g, TotalOf, TotalStep

\* Any element may be counted first.
LEMMA TotalAdds ==
    ASSUME NEW f, NEW S, IsFiniteSet(S), \A x \in S : f[x] \in Int
    PROVE  /\ TotalOf(f, S) \in Int
           /\ \A x \in S : TotalOf(f, S) = f[x] + TotalOf(f, S \ {x})
<1> DEFINE Good(T) == /\ TotalOf(f, T) \in Int
                      /\ \A x \in T : TotalOf(f, T) = f[x] + TotalOf(f, T \ {x})
           Bad == {T \in SUBSET S : ~ Good(T)}
<1>1. Bad = {}
  <2> SUFFICES ASSUME Bad # {} PROVE FALSE
    OBVIOUS
  <2>1. \A T \in Bad : T \in SUBSET S /\ Cardinality(T) \in Nat
    BY WithoutAny
  <2>2. PICK T \in Bad : \A U \in Bad : Cardinality(T) <= Cardinality(U)
    <3> HIDE DEF Bad
    <3> QED BY <2>1, SmallestSet
  <2>3. T \in SUBSET S /\ ~ Good(T) /\ IsFiniteSet(T) /\ Cardinality(T) \in Nat
    BY WithoutAny
  <2>4. ASSUME NEW U \in SUBSET S, Cardinality(U) < Cardinality(T) PROVE Good(U)
    <3>1. Cardinality(U) \in Nat
      BY WithoutAny
    <3>2. U \notin Bad
      BY <2>2, <2>3, <2>4, <3>1
    <3> QED BY <3>2
  <2>5. CASE T = {}
    BY <2>3, <2>5, TotalEmpty
  <2>6. CASE T # {}
    <3> DEFINE a == AnyOf(T)
    <3>1. /\ a \in T
          /\ \A x \in T : T \ {x} \in SUBSET S /\ Cardinality(T \ {x}) < Cardinality(T)
      BY <2>3, <2>6, WithoutAny
    <3>2. TotalOf(f, T) = f[a] + TotalOf(f, T \ {a})
      BY <2>3, <2>6, TotalOnce
    <3>3. \A x \in T : Good(T \ {x})
      BY <2>4, <3>1
    <3>4. TotalOf(f, T) \in Int
      BY <2>3, <3>1, <3>2, <3>3
    <3>5. ASSUME NEW x \in T PROVE TotalOf(f, T) = f[x] + TotalOf(f, T \ {x})
      <4>1. CASE x = a
        BY <3>2, <4>1
      <4>2. CASE x # a
        <5> DEFINE B == T \ {a}
                   C == T \ {x}
                   D == T \ {a, x}
        <5>1. x \in B /\ a \in C /\ B \ {x} = D /\ C \ {a} = D
          BY <3>1, <4>2
        <5>2. TotalOf(f, B) = f[x] + TotalOf(f, D)
          BY <3>1, <3>3, <5>1
        <5>3. TotalOf(f, C) = f[a] + TotalOf(f, D)
          BY <3>3, <5>1
        <5>4. Good(B) /\ Good(C) /\ B \in SUBSET S
          BY <3>1, <3>3
        <5>5. TotalOf(f, D) \in Int
          <6>1. B \in SUBSET S /\ D = B \ {x} /\ D \in SUBSET S
            BY <5>1
          <6>2. Cardinality(D) < Cardinality(B) /\ Cardinality(B) < Cardinality(T) /\ Cardinality(B) \in Nat /\ Cardinality(D) \in Nat
            <7>1. Cardinality(B) < Cardinality(T) /\ Cardinality(B) \in Nat
              BY <3>1, <5>4, WithoutAny
            <7>2. Cardinality(B \ {x}) = Cardinality(B) - 1 /\ Cardinality(B \ {x}) \in Nat
              BY <5>1, <5>4, WithoutAny
            <7> HIDE DEF B, D
            <7>3. Cardinality(D) = Cardinality(B) - 1 /\ Cardinality(D) \in Nat
              BY <6>1, <7>2
            <7> QED BY <7>1, <7>3
          <6> HIDE DEF B, D
          <6>3. Cardinality(D) < Cardinality(T)
            BY <2>3, <6>2
          <6>4. Good(D)
            BY <2>4, <6>1, <6>3
          <6> QED BY <6>4
        <5>6. f[a] \in Int /\ f[x] \in Int
          BY <2>3, <3>1
        <5> HIDE DEF B, C, D
        <5>7. TotalOf(f, T) = f[a] + TotalOf(f, B) /\ B = T \ {a} /\ C = T \ {x}
          BY <3>2 DEF B, C
        <5>8. f[a] + (f[x] + TotalOf(f, D)) = f[x] + (f[a] + TotalOf(f, D))
          <6> DEFINE p == f[a]
                     q == f[x]
                     r == TotalOf(f, D)
          <6>1. p \in Int /\ q \in Int /\ r \in Int
            BY <5>5, <5>6
          <6> HIDE DEF p, q, r
          <6>2. p + (q + r) = q + (p + r)
            BY <6>1
          <6> QED BY <6>2 DEF p, q, r
        <5> QED BY <5>2, <5>3, <5>7, <5>8
      <4> QED BY <4>1, <4>2
    <3>6. Good(T)
      BY <3>4, <3>5
    <3> QED BY <2>3, <3>6
  <2> QED BY <2>5, <2>6
<1>2. Good(S)
  BY <1>1
<1> QED BY <1>2

\* Sums over disjoint sets.
LEMMA TotalUnion ==
    ASSUME NEW f, NEW S, NEW T, IsFiniteSet(S), IsFiniteSet(T), S \cap T = {},
           \A x \in S \cup T : f[x] \in Int
    PROVE  TotalOf(f, S \cup T) = TotalOf(f, S) + TotalOf(f, T)
<1> DEFINE Bad == {U \in SUBSET T : TotalOf(f, S \cup U) # TotalOf(f, S) + TotalOf(f, U)}
<1>1. Bad = {}
  <2> SUFFICES ASSUME Bad # {} PROVE FALSE
    OBVIOUS
  <2>1. \A U \in Bad : U \in SUBSET T /\ Cardinality(U) \in Nat
    BY WithoutAny
  <2>2. PICK U \in Bad : \A V \in Bad : Cardinality(U) <= Cardinality(V)
    <3> HIDE DEF Bad
    <3> QED BY <2>1, SmallestSet
  <2>3. U \in SUBSET T /\ TotalOf(f, S \cup U) # TotalOf(f, S) + TotalOf(f, U)
    OBVIOUS
  <2>4. TotalOf(f, S) \in Int
    BY TotalAdds
  <2>5. CASE U = {}
    <3>1. S \cup U = S /\ TotalOf(f, U) = 0
      BY <2>5, TotalEmpty
    <3>2. TotalOf(f, S \cup U) = TotalOf(f, S)
      BY <3>1
    <3>3. TotalOf(f, S) = TotalOf(f, S) + TotalOf(f, U)
      BY <2>4, <3>1
    <3> QED BY <2>3, <3>2, <3>3
  <2>6. CASE U # {}
    <3>1. PICK x : x \in U
      BY <2>6
    <3> DEFINE V == U \ {x}
    <3>2. V \in SUBSET T /\ Cardinality(V) \in Nat /\ Cardinality(V) = Cardinality(U) - 1 /\ IsFiniteSet(U)
      BY <2>3, <3>1, WithoutAny
    <3>3. V \notin Bad
      BY <2>1, <2>2, <3>2
    <3>4. TotalOf(f, S \cup V) = TotalOf(f, S) + TotalOf(f, V)
      BY <3>2, <3>3
    <3>5. (S \cup U) \ {x} = S \cup V /\ x \in S \cup U /\ IsFiniteSet(S \cup U)
      BY <2>3, <3>1, <3>2, FS_Union
    <3>6. TotalOf(f, S \cup U) = f[x] + TotalOf(f, S \cup V)
      <4>1. \A y \in S \cup U : f[y] \in Int
        BY <2>3
      <4> QED BY <3>5, <4>1, TotalAdds
    <3>7. TotalOf(f, U) = f[x] + TotalOf(f, V) /\ TotalOf(f, V) \in Int /\ f[x] \in Int
      <4>1. \A y \in U : f[y] \in Int
        BY <2>3
      <4>2. IsFiniteSet(V)
        BY <3>2, WithoutAny
      <4> QED BY <3>1, <3>2, <4>1, <4>2, TotalAdds
    <3> HIDE DEF V
    <3> QED BY <2>3, <2>4, <3>4, <3>6, <3>7
  <2> QED BY <2>5, <2>6
<1>2. T \in SUBSET T
  OBVIOUS
<1> QED BY <1>1, <1>2

-----------------------------------------------------------------------------
\* Parsers: payloads of any length.
Parsed == /\ parser \in Parse!Tabular \cup {"form4", "etf", "fund", "whales", "unlocks", "windows"}
          /\ payload \in Seq(Parse!Record(parser))

LEMMA ParsedInit == Parse!Init => Parsed
BY DEF Parse!Init, Parsed

LEMMA ParsedStays == Parsed /\ UNCHANGED <<parser, payload>> => Parsed'
BY DEF Parsed, Parse!Tabular, Parse!Record, Parse!Fields

LEMMA ParsedNext == Parsed /\ Parse!Next => Parsed'
<1> SUFFICES ASSUME Parsed, NEW r \in Parse!Record(parser), Parse!Arrive(r) PROVE Parsed'
  BY DEF Parse!Next
<1>1. parser' = parser /\ payload' = Append(payload, r)
  BY DEF Parse!Arrive
<1> DEFINE R == Parse!Record(parser)
<1>2. payload \in Seq(R) /\ r \in R
  BY DEF Parsed
<1> HIDE DEF R
<1>3. Append(payload, r) \in Seq(R)
  BY <1>2
<1> QED BY <1>1, <1>3 DEF Parsed, R

LEMMA RecordsAre ==
    ASSUME Parsed
    PROVE  /\ Len(payload) \in Nat /\ DOMAIN payload = 1..Len(payload)
           /\ \A i \in DOMAIN payload : payload[i] \in Parse!Record(parser)
<1> DEFINE R == Parse!Record(parser)
<1>1. payload \in Seq(R)
  BY DEF Parsed
<1> HIDE DEF R
<1>2. /\ Len(payload) \in Nat /\ DOMAIN payload = 1..Len(payload)
      /\ \A i \in DOMAIN payload : payload[i] \in R
  BY <1>1
<1> QED BY <1>2 DEF R

\* What a table's parser accepts.
LEMMA AcceptsAre ==
    \A r : /\ Parse!Accepts("bea", r) <=> r.who # 0 /\ r.at # 0
           /\ Parse!Accepts("eia", r) <=> r.who = 1
           /\ Parse!Accepts("treasury", r) <=> r.who # 0 /\ r.at # 0
           /\ Parse!Accepts("coinbase", r) <=> r.at # 0 /\ r.val = "some"
           /\ Parse!Accepts("yahoo", r) <=> r.at # 0 /\ r.val = "some"
           /\ Parse!Accepts("cftc", r) <=> r.at # 0 /\ r.val = "some"
           /\ Parse!Accepts("chart", r) <=> r.at # 0 /\ r.val = "some"
           /\ Parse!Accepts("rank", r) <=> r.who # 0 /\ r.at # 0
           /\ Parse!Accepts("filings", r) <=> r.who # 0 /\ r.at # 0
           /\ Parse!Accepts("filings13f", r) <=> r.who # 0 /\ r.at # 0 /\ r.val # "missing"
           /\ Parse!Accepts("facts", r) <=> r.who # 0 /\ r.at # 0
           /\ Parse!Accepts("fred", r) <=> r.at # 0
           /\ Parse!Accepts("ishares", r) <=> r.who # 0 /\ r.at # 0 /\ r.val = "some"
           /\ Parse!Accepts("zcash", r) <=> r.who # 0 /\ r.at # 0 /\ r.val # "null"
           /\ Parse!Accepts("validators", r) <=> r.who # 0 /\ r.val = "some"
BY DEF Parse!Accepts, Parse!Bea, Parse!Eia, Parse!Treasury, Parse!Candle, Parse!YahooBar, Parse!Cot,
       Parse!ChartPoint, Parse!Rank, Parse!Filing, Parse!Filing13F, Parse!Fact, Parse!Vintage,
       Parse!ScreenerFund, Parse!Pool, Parse!Validator

\* The records of one key, and the row of them.
SameKey(p, s, k) == {i \in Parse!Accepted(p, s) : Parse!Key(p, s[i]) = k}

LEMMA RowsAre ==
    ASSUME NEW p, NEW s
    PROVE  /\ p # "chart" => Parse!Rows(p, s) = Parse!RowsOf(p, s)
           /\ p = "chart" => Parse!Rows(p, s) = Parse!ChartRows(s)
           /\ \A k : k \in DOMAIN Parse!RowsOf(p, s) <=> SameKey(p, s, k) # {}
           /\ \A k : SameKey(p, s, k) # {} => Parse!RowsOf(p, s)[k] = Parse!Kept(p, s, SameKey(p, s, k))
<1>1. /\ p # "chart" => Parse!Rows(p, s) = Parse!RowsOf(p, s)
      /\ p = "chart" => Parse!Rows(p, s) = Parse!ChartRows(s)
  BY DEF Parse!Rows
<1>2. \A k : k \in DOMAIN Parse!RowsOf(p, s) <=> SameKey(p, s, k) # {}
  BY DEF Parse!RowsOf, SameKey
<1>3. \A k \in DOMAIN Parse!RowsOf(p, s) : Parse!RowsOf(p, s)[k] = Parse!Kept(p, s, SameKey(p, s, k))
  BY DEF Parse!RowsOf, SameKey
<1> QED BY <1>1, <1>2, <1>3

LEMMA UsableRows == Parsed => Parse!UsableIsStored
<1> SUFFICES ASSUME Parsed, parser \in Parse!Tabular, NEW i \in DOMAIN payload, Parse!Usable(payload[i])
             PROVE  \/ Parse!Key(parser, payload[i]) \in DOMAIN Parse!Rows(parser, payload)
                    \/ /\ parser = "filings"
                       /\ \E j \in 1..(i - 1) : payload[j].who = payload[i].who /\ ~Parse!Usable(payload[j])
                    \/ /\ parser = "chart"
                       /\ \E w \in 1..3 : ~\E j \in DOMAIN payload :
                             Parse!Usable(payload[j]) /\ payload[j].who = w /\ payload[j].at = payload[i].at
  BY DEF Parse!UsableIsStored
<1> DEFINE r == payload[i]
<1>1. r.who # 0 /\ r.at # 0 /\ r.val = "some" /\ r \in Parse!Record(parser)
  BY RecordsAre DEF Parse!Usable
<1>2. Parse!Accepts(parser, r)
  <2> HIDE DEF r
  <2>1. parser = "eia" => r.who = 1
    BY <1>1 DEF Parse!Record, Parse!Fields
  <2> QED BY <1>1, <2>1, AcceptsAre DEF Parse!Tabular
<1>3. CASE parser \notin {"filings", "chart"}
  <2>1. i \in Parse!Accepted(parser, payload)
    BY <1>2, <1>3 DEF Parse!Accepted
  <2>2. SameKey(parser, payload, Parse!Key(parser, r)) # {}
    BY <2>1 DEF SameKey
  <2> QED BY <1>3, <2>2, RowsAre
<1>4. CASE parser = "filings"
  <2> DEFINE Same == {j \in DOMAIN payload : payload[j].who = r.who}
  <2>1. Same \in SUBSET Nat /\ Same # {}
    BY RecordsAre
  <2>2. PICK j \in Same : \A k \in Same : j <= k
    <3> HIDE DEF Same
    <3> QED BY <2>1, LeastNat
  <2>3. j \in DOMAIN payload /\ payload[j].who = r.who /\ j <= i /\ j \in Nat /\ i \in Nat /\ j >= 1
    BY <2>2, RecordsAre
  <2>4. \A k \in 1..(j - 1) : payload[k].who # r.who
    <3> SUFFICES ASSUME NEW k \in 1..(j - 1), payload[k].who = r.who PROVE FALSE
      OBVIOUS
    <3>1. k \in DOMAIN payload /\ ~ (j <= k)
      BY <2>3, RecordsAre
    <3> QED BY <2>2, <3>1
  <2>5. CASE Parse!Usable(payload[j])
    <3>1. Parse!Accepts("filings", payload[j])
      BY <2>5, AcceptsAre DEF Parse!Usable
    <3>2. j \in Parse!Accepted("filings", payload)
      BY <2>3, <2>4, <3>1 DEF Parse!Accepted
    <3>3. Parse!Key("filings", payload[j]) = r.who /\ Parse!Key("filings", r) = r.who
      BY <2>3 DEF Parse!Key
    <3>4. SameKey("filings", payload, Parse!Key("filings", r)) # {}
      BY <3>2, <3>3 DEF SameKey
    <3> QED BY <1>4, <3>4, RowsAre
  <2>6. CASE ~ Parse!Usable(payload[j])
    <3>1. j # i
      BY <2>6
    <3>2. j \in 1..(i - 1)
      BY <2>3, <3>1
    <3> QED BY <1>4, <2>3, <2>6, <3>2
  <2> QED BY <2>5, <2>6
<1>5. CASE parser = "chart"
  <2> SUFFICES ASSUME \A w \in 1..3 : \E j \in DOMAIN payload :
                          Parse!Usable(payload[j]) /\ payload[j].who = w /\ payload[j].at = r.at
               PROVE  Parse!Key(parser, r) \in DOMAIN Parse!Rows(parser, payload)
    BY <1>5
  <2>1. \A j \in DOMAIN payload : Parse!Usable(payload[j]) => j \in Parse!Accepted("chart", payload)
    BY AcceptsAre DEF Parse!Accepted, Parse!Usable
  <2>2. \A w \in 1..3 : r.at \in {payload[j].at : j \in {j \in Parse!Accepted("chart", payload) : payload[j].who = w}}
    BY <2>1
  <2>3. r.at \in DOMAIN Parse!ChartRows(payload)
    BY <2>2 DEF Parse!ChartRows
  <2> QED BY <1>5, <2>3, RowsAre DEF Parse!Key
<1> QED BY <1>3, <1>4, <1>5

\* The beginning of a payload.
LEMMA PrefixIs ==
    ASSUME Parsed, NEW n \in DOMAIN payload
    PROVE  LET s == SubSeq(payload, 1, n)
           IN  /\ DOMAIN s = 1..n /\ \A i \in 1..n : s[i] = payload[i]
               /\ n \in Nat /\ 1..n \subseteq DOMAIN payload
               /\ \A p : Parse!Accepted(p, s) = Parse!Accepted(p, payload) \cap (1..n)
<1> DEFINE s == SubSeq(payload, 1, n)
<1>1. n \in Nat /\ n >= 1 /\ n <= Len(payload) /\ 1..n \subseteq DOMAIN payload
  BY RecordsAre
<1>2. DOMAIN s = 1..n /\ \A i \in 1..n : s[i] = payload[i]
  <2> DEFINE R == Parse!Record(parser)
  <2>1. payload \in Seq(R)
    BY DEF Parsed
  <2> HIDE DEF R
  <2> QED BY <1>1, <2>1
<1> HIDE DEF s
<1>3. ASSUME NEW p PROVE Parse!Accepted(p, s) = Parse!Accepted(p, payload) \cap (1..n)
  <2>1. \A i \in 1..n : \A j \in 1..(i - 1) : j \in 1..n
    BY <1>1
  <2> QED BY <1>1, <1>2, <2>1 DEF Parse!Accepted
<1> QED BY <1>1, <1>2, <1>3 DEF s

\* The least of some records and of those of them at the beginning.
LEMMA FirstStays ==
    ASSUME NEW n \in Nat, NEW S \in SUBSET (Nat \ {0}), S \cap (1..n) # {}
    PROVE  Parse!Min(S \cap (1..n)) = Parse!Min(S) /\ Parse!Min(S) \in S
<1> DEFINE A == S \cap (1..n)
<1>1. PICK a \in A : \A i \in A : a <= i
  <2>1. A \in SUBSET Nat /\ A # {}
    OBVIOUS
  <2> HIDE DEF A
  <2> QED BY <2>1, LeastNat
<1>2. a \in S /\ a \in Nat /\ a <= n /\ \A i \in S : i \in Nat /\ i >= 1 /\ (i <= n => i \in A)
  OBVIOUS
<1>3. \A i \in S : a <= i
  <2> SUFFICES ASSUME NEW i \in S PROVE a <= i
    OBVIOUS
  <2>1. CASE i <= n
    BY <1>1, <1>2, <2>1
  <2>2. CASE ~ (i <= n)
    BY <1>2, <2>2
  <2> QED BY <2>1, <2>2
<1>4. Parse!Min(A) = a
  <2>1. \A b \in A : b \in Nat
    OBVIOUS
  <2> HIDE DEF A
  <2> QED BY <1>1, <2>1 DEF Parse!Min
<1>5. Parse!Min(S) = a
  <2>1. a \in S /\ a \in Nat /\ \A b \in S : b \in Nat
    BY <1>2
  <2>2. \A b \in S : (\A y \in S : b <= y) => b = a
    BY <1>3, <2>1
  <2> QED BY <1>3, <2>1, <2>2 DEF Parse!Min
<1> QED BY <1>2, <1>4, <1>5

LEMMA RowsDoStay == Parsed => Parse!RowsStay
<1> SUFFICES ASSUME Parsed, parser \in Parse!Tabular, NEW n \in DOMAIN payload
             PROVE  LET s == SubSeq(payload, 1, n)
                    IN  /\ DOMAIN Parse!Rows(parser, s) \subseteq DOMAIN Parse!Rows(parser, payload)
                        /\ parser \in Parse!FirstWins =>
                              \A k \in DOMAIN Parse!Rows(parser, s) :
                                  Parse!Rows(parser, payload)[k] = Parse!Rows(parser, s)[k]
  BY DEF Parse!RowsStay
<1> DEFINE s == SubSeq(payload, 1, n)
           A(p) == Parse!Accepted(p, payload)
<1>1. /\ DOMAIN s = 1..n /\ \A i \in 1..n : s[i] = payload[i]
      /\ n \in Nat /\ \A p : Parse!Accepted(p, s) = A(p) \cap (1..n)
  BY PrefixIs
<1> HIDE DEF s
<1>2. A(parser) \in SUBSET (Nat \ {0}) /\ A("chart") \in SUBSET (Nat \ {0})
  BY RecordsAre DEF Parse!Accepted
<1> HIDE DEF A
<1>3. CASE parser = "chart"
  <2>1. DOMAIN Parse!ChartRows(s) \subseteq DOMAIN Parse!ChartRows(payload)
    <3> DEFINE when(t, w) == {t[i].at : i \in {j \in Parse!Accepted("chart", t) : t[j].who = w}}
    <3>1. \A t : DOMAIN Parse!ChartRows(t) = when(t, 1) \cap when(t, 2) \cap when(t, 3)
      BY DEF Parse!ChartRows
    <3>2. \A w : when(s, w) \subseteq when(payload, w)
      <4> SUFFICES ASSUME NEW w, NEW j \in Parse!Accepted("chart", s), s[j].who = w
                   PROVE  s[j].at \in when(payload, w)
        OBVIOUS
      <4>1. j \in Parse!Accepted("chart", payload) /\ s[j] = payload[j]
        BY <1>1 DEF A
      <4> QED BY <4>1
    <3> HIDE DEF when
    <3> QED BY <3>1, <3>2
  <2> QED BY <1>3, <2>1, RowsAre DEF Parse!FirstWins, s
<1>4. CASE parser # "chart"
  <2> DEFINE same(k) == SameKey(parser, payload, k)
             part(k) == SameKey(parser, s, k)
  <2>1. \A k : part(k) = same(k) \cap (1..n) /\ same(k) \in SUBSET (Nat \ {0})
    BY <1>1, <1>2 DEF SameKey, A
  <2>2. \A k : /\ k \in DOMAIN Parse!RowsOf(parser, s) <=> part(k) # {}
               /\ k \in DOMAIN Parse!RowsOf(parser, payload) <=> same(k) # {}
    BY RowsAre
  <2>3. \A k : /\ part(k) # {} => Parse!RowsOf(parser, s)[k] = Parse!Kept(parser, s, part(k))
               /\ same(k) # {} => Parse!RowsOf(parser, payload)[k] = Parse!Kept(parser, payload, same(k))
    BY RowsAre
  <2> HIDE DEF same, part
  <2>4. ASSUME parser \in Parse!FirstWins, NEW k, part(k) # {}
        PROVE  Parse!RowsOf(parser, payload)[k] = Parse!RowsOf(parser, s)[k]
    <3>1. Parse!Min(part(k)) = Parse!Min(same(k))
      BY <1>1, <2>1, <2>4, FirstStays
    <3>2. parser # "treasury"
      BY <2>4 DEF Parse!FirstWins
    <3>3. Parse!Kept(parser, s, part(k)) = {Parse!Min(part(k))} /\ Parse!Kept(parser, payload, same(k)) = {Parse!Min(same(k))}
      BY <2>4, <3>2 DEF Parse!Kept
    <3>4. same(k) # {}
      BY <2>1, <2>4
    <3> QED BY <2>3, <2>4, <3>1, <3>3, <3>4
  <2>5. \A k : part(k) # {} => same(k) # {}
    BY <2>1
  <2> QED BY <1>4, <2>2, <2>4, <2>5, RowsAre DEF s
<1> QED BY <1>3, <1>4

\* A payload read backwards has the same records.
LEMMA BackwardsIs ==
    ASSUME Parsed
    PROVE  LET s == payload  t == Parse!Reverse(payload)
           IN  /\ DOMAIN t = DOMAIN s
               /\ \A i \in DOMAIN s : \E j \in DOMAIN s : t[j] = s[i]
               /\ \A i \in DOMAIN s : \E j \in DOMAIN s : s[j] = t[i]
<1> DEFINE n == Len(payload)
           t == Parse!Reverse(payload)
           other(i) == n - i + 1
<1>1. n \in Nat /\ DOMAIN payload = 1..n
  BY RecordsAre
<1>2. t = [i \in 1..n |-> payload[other(i)]]
  BY DEF Parse!Reverse
<1>3. \A i \in 1..n : other(i) \in 1..n /\ other(other(i)) = i
  BY <1>1
<1>4. DOMAIN t = 1..n /\ \A i \in 1..n : t[i] = payload[other(i)]
  BY <1>2
<1> HIDE DEF n, t, other
<1>5. \A i \in 1..n : t[other(i)] = payload[i]
  BY <1>3, <1>4
<1> QED BY <1>1, <1>3, <1>4, <1>5 DEF t

\* What is decided by which records there are.
Shuffled(s, t) ==
    /\ DOMAIN t = DOMAIN s /\ s # <<>> /\ t # <<>>
    /\ \A i \in DOMAIN s : \E j \in DOMAIN t : t[j] = s[i]
    /\ \A i \in DOMAIN t : \E j \in DOMAIN s : s[j] = t[i]

LEMMA SameRecords ==
    ASSUME NEW s, NEW t, Shuffled(s, t), NEW p, p \in {"bea", "eia", "treasury", "zcash"}
    PROVE  /\ Parse!Fails(p, s) <=> Parse!Fails(p, t)
           /\ DOMAIN Parse!Rows(p, s) = DOMAIN Parse!Rows(p, t)
<1>0. /\ DOMAIN t = DOMAIN s /\ s # <<>> /\ t # <<>>
      /\ \A i \in DOMAIN s : \E j \in DOMAIN t : t[j] = s[i]
      /\ \A i \in DOMAIN t : \E j \in DOMAIN s : s[j] = t[i]
  BY DEF Shuffled
<1>1. ASSUME NEW q \in {"bea", "eia", "treasury", "zcash"}
      PROVE  /\ \A i \in Parse!Accepted(q, s) : \E j \in Parse!Accepted(q, t) : t[j] = s[i]
             /\ \A i \in Parse!Accepted(q, t) : \E j \in Parse!Accepted(q, s) : s[j] = t[i]
  BY <1>0 DEF Parse!Accepted
<1>2. ASSUME NEW q \in {"bea", "eia", "treasury", "zcash"}
      PROVE  DOMAIN Parse!RowsOf(q, s) = DOMAIN Parse!RowsOf(q, t)
  <2>1. \A k : SameKey(q, s, k) # {} <=> SameKey(q, t, k) # {}
    <3> SUFFICES ASSUME NEW k PROVE SameKey(q, s, k) # {} <=> SameKey(q, t, k) # {}
      OBVIOUS
    <3>1. \A i \in SameKey(q, s, k) : \E j : j \in SameKey(q, t, k)
      BY <1>1 DEF SameKey
    <3>2. \A i \in SameKey(q, t, k) : \E j : j \in SameKey(q, s, k)
      BY <1>1 DEF SameKey
    <3> QED BY <3>1, <3>2
  <2>2. \A k : k \in DOMAIN Parse!RowsOf(q, s) <=> k \in DOMAIN Parse!RowsOf(q, t)
    BY <2>1, RowsAre
  <2>3. /\ DOMAIN Parse!RowsOf(q, s) = {Parse!Key(q, s[i]) : i \in Parse!Accepted(q, s)}
        /\ DOMAIN Parse!RowsOf(q, t) = {Parse!Key(q, t[i]) : i \in Parse!Accepted(q, t)}
    BY DEF Parse!RowsOf
  <2> QED BY <2>2, <2>3
<1>3. Parse!Latest(s) = Parse!Latest(t)
  <2>1. {s[i].at : i \in DOMAIN s} = {t[i].at : i \in DOMAIN t}
    <3>1. ASSUME NEW i \in DOMAIN s PROVE s[i].at \in {t[j].at : j \in DOMAIN t}
      <4>1. PICK j \in DOMAIN t : t[j] = s[i]
        BY <1>0
      <4> QED BY <4>1
    <3>2. ASSUME NEW i \in DOMAIN t PROVE t[i].at \in {s[j].at : j \in DOMAIN s}
      <4>1. PICK j \in DOMAIN s : s[j] = t[i]
        BY <1>0
      <4> QED BY <4>1
    <3> QED BY <3>1, <3>2
  <2> QED BY <2>1 DEF Parse!Latest
<1>4. Parse!BeaFails(s) <=> Parse!BeaFails(t)
  <2>1. ASSUME NEW w
        PROVE  (\E i \in Parse!Accepted("bea", s) : s[i].who = w) <=> (\E i \in Parse!Accepted("bea", t) : t[i].who = w)
    <3>1. /\ \A i \in Parse!Accepted("bea", s) : \E j \in Parse!Accepted("bea", t) : t[j] = s[i]
          /\ \A i \in Parse!Accepted("bea", t) : \E j \in Parse!Accepted("bea", s) : s[j] = t[i]
      BY <1>1
    <3>2. ASSUME NEW i \in Parse!Accepted("bea", s), s[i].who = w PROVE \E j \in Parse!Accepted("bea", t) : t[j].who = w
      BY <3>1, <3>2
    <3>3. ASSUME NEW i \in Parse!Accepted("bea", t), t[i].who = w PROVE \E j \in Parse!Accepted("bea", s) : s[j].who = w
      BY <3>1, <3>3
    <3> QED BY <3>2, <3>3
  <2> QED BY <2>1 DEF Parse!BeaFails
<1>5. Parse!EiaFails(s) <=> Parse!EiaFails(t)
  BY <1>1 DEF Parse!EiaFails
<1>6. Parse!TreasuryFails(s) <=> Parse!TreasuryFails(t)
  BY <1>1, <1>2, <1>3 DEF Parse!TreasuryFails
<1>7. Parse!PoolsFail(s) <=> Parse!PoolsFail(t)
  BY <1>0 DEF Parse!PoolsFail
<1>8. Parse!Fails(p, s) <=> Parse!Fails(p, t)
  BY <1>0, <1>4, <1>5, <1>6, <1>7 DEF Parse!Fails
<1> QED BY <1>2, <1>8, RowsAre

LEMMA OrderIsNot == Parsed => Parse!OrderIsNothing
<1> SUFFICES ASSUME Parsed, parser \in {"bea", "eia", "treasury", "zcash"}, payload # <<>>
             PROVE  /\ Parse!Fails(parser, payload) = Parse!Fails(parser, Parse!Reverse(payload))
                    /\ DOMAIN Parse!Rows(parser, payload) = DOMAIN Parse!Rows(parser, Parse!Reverse(payload))
  BY DEF Parse!OrderIsNothing
<1> DEFINE t == Parse!Reverse(payload)
<1>1. /\ DOMAIN t = DOMAIN payload
      /\ \A i \in DOMAIN payload : \E j \in DOMAIN payload : t[j] = payload[i]
      /\ \A i \in DOMAIN payload : \E j \in DOMAIN payload : payload[j] = t[i]
  BY BackwardsIs
<1>2. DOMAIN payload # {}
  <2>1. Len(payload) # 0
    <3> DEFINE R == Parse!Record(parser)
    <3>1. payload \in Seq(R)
      BY DEF Parsed
    <3> HIDE DEF R
    <3> QED BY <3>1
  <2> QED BY <2>1, RecordsAre
<1>3. t # <<>>
  BY <1>1, <1>2
<1> HIDE DEF t
<1>4. Shuffled(payload, t)
  BY <1>1, <1>3 DEF Shuffled
<1>6. /\ Parse!Fails(parser, payload) <=> Parse!Fails(parser, t)
      /\ DOMAIN Parse!Rows(parser, payload) = DOMAIN Parse!Rows(parser, t)
  BY <1>4, SameRecords
<1>5. Parse!Fails(parser, payload) \in BOOLEAN /\ Parse!Fails(parser, t) \in BOOLEAN
  BY DEF Parse!Fails, Parse!BeaFails, Parse!EiaFails, Parse!TreasuryFails, Parse!PoolsFail
<1> QED BY <1>5, <1>6 DEF t

LEMMA NewestIs ==
    ASSUME NEW S \in SUBSET Nat, NEW t \in S, \A x \in S : x <= t
    PROVE  Parse!Max(S) = t
<1>1. \A x \in S : (\A y \in S : x >= y) => x = t
  OBVIOUS
<1> QED BY <1>1 DEF Parse!Max

LEMMA TreasuryIsNew == Parsed => Parse!TreasuryIsCurrent
<1> SUFFICES ASSUME Parsed, parser = "treasury", ~Parse!Fails("treasury", payload),
                    NEW u \in DOMAIN payload, \A i \in DOMAIN payload : payload[i].at <= payload[u].at
             PROVE  LET t == payload[u].at
                        table == Parse!Rows("treasury", payload)
                    IN  /\ <<1, t>> \in DOMAIN table
                        /\ table[<<2, t>>] = {i \in DOMAIN payload : payload[i].at = t /\ payload[i].who = 2 /\ payload[i].val = "some"}
  BY DEF Parse!TreasuryIsCurrent
<1> DEFINE t == payload[u].at
           table == Parse!RowsOf("treasury", payload)
           same == SameKey("treasury", payload, <<2, t>>)
<1>1. \A i \in DOMAIN payload : i \in Nat /\ payload[i].at \in Nat /\ payload[i].who \in Nat
  BY RecordsAre DEF Parse!Record, Parse!Fields
<1>2. Parse!Latest(payload) = t
  <2> DEFINE S == {payload[i].at : i \in DOMAIN payload}
  <2>1. S \in SUBSET Nat /\ t \in S /\ \A x \in S : x <= t
    BY <1>1
  <2> HIDE DEF S, t
  <2>2. Parse!Max(S) = t
    BY <2>1, NewestIs
  <2> QED BY <2>2 DEF Parse!Latest, S
<1>3. <<1, t>> \in DOMAIN table /\ <<2, t>> \in DOMAIN table
  BY <1>2 DEF Parse!Fails, Parse!TreasuryFails
<1>4. same # {} /\ table[<<2, t>>] = Parse!Kept("treasury", payload, same)
  <2> HIDE DEF t
  <2> QED BY <1>3, RowsAre
<1>5. same = {i \in DOMAIN payload : payload[i].at = t /\ payload[i].who = 2 /\ t # 0}
  BY <1>1, AcceptsAre DEF SameKey, Parse!Accepted, Parse!Key
<1>6. Parse!Min(same) \in same
  <2>1. same \in SUBSET Nat
    BY <1>1, <1>5
  <2> HIDE DEF same
  <2>2. PICK a \in same : \A i \in same : a <= i
    BY <1>4, <2>1, LeastNat
  <2> QED BY <2>2 DEF Parse!Min
<1> HIDE DEF same, table
<1>7. t # 0
  BY <1>4, <1>5
<1>8. table[<<2, t>>] = {i \in same : payload[i].val = "some"}
  BY <1>4, <1>5, <1>6 DEF Parse!Kept
<1>9. Parse!Rows("treasury", payload) = table
  BY RowsAre DEF table
<1> QED BY <1>3, <1>5, <1>7, <1>8, <1>9

LEMMA SameCardinality == \A S : Parse!Cardinality(S) = Cardinality(S)
BY DEF Parse!Cardinality, Cardinality

\* How many come before each in the order R.
Ranks(P, R) == [q \in P |-> Cardinality({p \in P : <<p, q>> \in R})]

\* Counting the predecessors in a total order numbers a finite set from 0.
LEMMA RanksAreWhole ==
    ASSUME NEW P, IsFiniteSet(P), NEW R,
           \A p \in P : <<p, p>> \notin R,
           \A p, q, r \in P : <<p, q>> \in R /\ <<q, r>> \in R => <<p, r>> \in R,
           \A p, q \in P : p = q \/ <<p, q>> \in R \/ <<q, p>> \in R
    PROVE  /\ \A p, q \in P : Ranks(P, R)[p] = Ranks(P, R)[q] => p = q
           /\ {Ranks(P, R)[p] : p \in P} = 0..(Cardinality(P) - 1)
<1> DEFINE below(q) == {p \in P : <<p, q>> \in R}
           rank == [q \in P |-> Cardinality(below(q))]
           n == Cardinality(P)
<1>1. n \in Nat
  BY FS_CardinalityType
<1>2. \A q \in P : IsFiniteSet(below(q)) /\ Cardinality(below(q)) \in Nat
  BY FS_Subset, FS_CardinalityType
<1>3. ASSUME NEW q \in P PROVE rank[q] \in 0..(n - 1)
  <2>1. IsFiniteSet(P \ {q}) /\ Cardinality(P \ {q}) = n - 1
    BY FS_RemoveElement
  <2>2. below(q) \in SUBSET (P \ {q})
    OBVIOUS
  <2>3. Cardinality(below(q)) <= n - 1
    <3> HIDE DEF below
    <3> QED BY <2>1, <2>2, FS_Subset
  <2>4. rank[q] = Cardinality(below(q))
    OBVIOUS
  <2> HIDE DEF rank, n, below
  <2> QED BY <1>1, <1>2, <2>3, <2>4
<1>4. ASSUME NEW p \in P, NEW q \in P, <<p, q>> \in R PROVE rank[p] < rank[q]
  <2>1. IsFiniteSet(below(p) \cup {p}) /\ Cardinality(below(p) \cup {p}) = Cardinality(below(p)) + 1
    <3>1. p \notin below(p) /\ IsFiniteSet(below(p))
      BY <1>2
    <3> HIDE DEF below
    <3> QED BY <3>1, FS_AddElement
  <2>2. below(p) \cup {p} \in SUBSET below(q)
    BY <1>4
  <2>3. Cardinality(below(p) \cup {p}) <= Cardinality(below(q))
    <3>1. IsFiniteSet(below(q))
      BY <1>2
    <3> HIDE DEF below
    <3> QED BY <2>2, <3>1, FS_Subset
  <2>4. rank[p] = Cardinality(below(p)) /\ rank[q] = Cardinality(below(q))
    OBVIOUS
  <2> HIDE DEF rank, below
  <2> QED BY <1>2, <2>1, <2>3, <2>4
<1>5. \A p, q \in P : rank[p] = rank[q] => p = q
  <2> SUFFICES ASSUME NEW p \in P, NEW q \in P, rank[p] = rank[q], p # q PROVE FALSE
    OBVIOUS
  <2>1. rank[p] \in Int /\ rank[q] \in Int
    BY <1>3
  <2> HIDE DEF rank
  <2>2. CASE <<p, q>> \in R
    BY <1>4, <2>1, <2>2
  <2>3. CASE <<q, p>> \in R
    BY <1>4, <2>1, <2>3
  <2> QED BY <2>2, <2>3
<1>6. {rank[p] : p \in P} = 0..(n - 1)
  <2> DEFINE T == {rank[p] : p \in P}
  <2>1. T \in SUBSET (0..(n - 1))
    <3> HIDE DEF rank, n
    <3> QED BY <1>3
  <2>2. rank \in Bijection(P, T)
    <3>1. rank \in [P -> T]
      OBVIOUS
    <3>2. rank \in Injection(P, T)
      <4> HIDE DEF T, rank
      <4> QED BY <1>5, <3>1 DEF Injection, IsInjective
    <3>3. rank \in Surjection(P, T)
      <4>1. \A t \in T : \E p \in P : rank[p] = t
        OBVIOUS
      <4> HIDE DEF T, rank
      <4> QED BY <3>1, <4>1 DEF Surjection
    <3> HIDE DEF T, rank
    <3> QED BY <3>2, <3>3 DEF Bijection
  <2>3. IsFiniteSet(T) /\ Cardinality(T) = n
    <3> HIDE DEF T, rank
    <3>1. ExistsBijection(P, T)
      BY <2>2 DEF ExistsBijection
    <3> QED BY <3>1, FS_Bijection
  <2>4. IsFiniteSet(0..(n - 1)) /\ Cardinality(0..(n - 1)) = n
    <3> HIDE DEF n
    <3>1. IsFiniteSet(0..(n - 1)) /\ Cardinality(0..(n - 1)) = IF 0 > n - 1 THEN 0 ELSE n - 1 - 0 + 1
      BY <1>1, FS_Interval
    <3> QED BY <1>1, <3>1
  <2> HIDE DEF T
  <2>5. T = 0..(n - 1)
    <3> HIDE DEF n
    <3> QED BY <2>1, <2>3, <2>4, FS_Subset
  <2> QED BY <2>5 DEF T
<1> QED BY <1>5, <1>6 DEF Ranks

LEMMA TransactionsAre == Parsed => Parse!TransactionsAreWhole
<1> SUFFICES ASSUME Parsed, parser = "form4"
             PROVE  LET index == Parse!Transactions(2, payload)
                        dated == {i \in DOMAIN payload : payload[i].at # 0}
                    IN  /\ DOMAIN index = (1..2) \X dated
                        /\ \A p, q \in DOMAIN index : index[p] = index[q] => p = q
                        /\ {index[p] : p \in DOMAIN index} = 0..(2 * Cardinality(dated) - 1)
  BY SameCardinality DEF Parse!TransactionsAreWhole
<1> DEFINE dated == {i \in DOMAIN payload : payload[i].at # 0}
           P == (1..2) \X dated
           before(p, q) == Parse!RowBefore(payload, p, q)
           R == {x \in P \X P : before(x[1], x[2])}
           rank == [q \in P |-> Cardinality({p \in P : <<p, q>> \in R})]
           index == Parse!Transactions(2, payload)
<1>1. dated \in SUBSET Nat /\ IsFiniteSet(dated) /\ \A i \in dated : payload[i].derivative \in BOOLEAN
  <2>1. Len(payload) \in Nat /\ DOMAIN payload = 1..Len(payload) /\ \A i \in DOMAIN payload : payload[i].derivative \in BOOLEAN
    BY RecordsAre DEF Parse!Record
  <2>2. IsFiniteSet(1..Len(payload))
    BY <2>1, FS_Interval
  <2>3. dated \in SUBSET (1..Len(payload))
    BY <2>1
  <2>4. IsFiniteSet(dated)
    <3> HIDE DEF dated
    <3> QED BY <2>2, <2>3, FS_Subset
  <2> QED BY <2>1, <2>4
<1>2. IsFiniteSet(P) /\ Cardinality(P) = 2 * Cardinality(dated)
  <2> HIDE DEF dated
  <2>1. IsFiniteSet(1..2) /\ Cardinality(1..2) = 2
    <3>1. 1..2 = {1} \cup {2} /\ 2 \notin {1}
      OBVIOUS
    <3>2. IsFiniteSet({1}) /\ Cardinality({1}) = 1
      BY FS_Singleton
    <3>3. IsFiniteSet({1} \cup {2}) /\ Cardinality({1} \cup {2}) = IF 2 \in {1} THEN Cardinality({1}) ELSE Cardinality({1}) + 1
      BY <3>2, FS_AddElement, Zenon
    <3> QED BY <3>1, <3>2, <3>3
  <2> QED BY <1>1, <2>1, FS_Product
<1>3. \A p, q \in P : before(p, q) <=> \/ p[1] < q[1]
                                       \/ p[1] = q[1] /\ ~payload[p[2]].derivative /\ payload[q[2]].derivative
                                       \/ p[1] = q[1] /\ payload[p[2]].derivative = payload[q[2]].derivative /\ p[2] < q[2]
  BY DEF Parse!RowBefore
<1>4. \A p \in P : p[1] \in Nat /\ p[2] \in Nat /\ p[2] \in dated /\ payload[p[2]].derivative \in BOOLEAN
  BY <1>1
<1>5. \A p, q \in P : p[1] = q[1] /\ p[2] = q[2] => p = q
  OBVIOUS
<1>6. \A p, q \in P : <<p, q>> \in R <=> before(p, q)
  OBVIOUS
<1>7. index = [q \in P |-> Cardinality({p \in P : before(p, q)})]
  BY SameCardinality DEF Parse!Transactions
<1>8. index = rank
  <2>1. \A q \in P : {p \in P : before(p, q)} = {p \in P : <<p, q>> \in R}
    BY <1>6
  <2> HIDE DEF R, before, P
  <2> QED BY <1>7, <2>1
<1> HIDE DEF P, R, before, index
<1>9. \A p \in P : <<p, p>> \notin R
  BY <1>3, <1>4, <1>6
<1>10. \A p, q, r \in P : <<p, q>> \in R /\ <<q, r>> \in R => <<p, r>> \in R
  <2> SUFFICES ASSUME NEW p \in P, NEW q \in P, NEW r \in P, before(p, q), before(q, r) PROVE before(p, r)
    BY <1>6
  <2> QED BY <1>3, <1>4
<1>11. \A p, q \in P : p = q \/ <<p, q>> \in R \/ <<q, p>> \in R
  <2> SUFFICES ASSUME NEW p \in P, NEW q \in P, ~before(p, q), ~before(q, p) PROVE p = q
    BY <1>6
  <2>1. p[1] = q[1] /\ p[2] = q[2]
    BY <1>3, <1>4
  <2> QED BY <1>5, <2>1
<1>12. /\ \A p, q \in P : rank[p] = rank[q] => p = q
       /\ {rank[p] : p \in P} = 0..(Cardinality(P) - 1)
  BY <1>2, <1>9, <1>10, <1>11, RanksAreWhole DEF Ranks
<1>13. DOMAIN index = P
  BY <1>7
<1> HIDE DEF rank, dated
<1>14. /\ \A p, q \in P : index[p] = index[q] => p = q
       /\ {index[p] : p \in P} = 0..(2 * Cardinality(dated) - 1)
  BY <1>2, <1>8, <1>12
<1>15. /\ DOMAIN index = (1..2) \X dated
       /\ \A p, q \in DOMAIN index : index[p] = index[q] => p = q
       /\ {index[p] : p \in DOMAIN index} = 0..(2 * Cardinality(dated) - 1)
  BY <1>13, <1>14 DEF P
<1> QED BY <1>15 DEF index, dated

\* The filings a quarter's checkpoint is chosen from.
FiledUnder(s, c) == {i \in DOMAIN s : s[i].concept = c /\ s[i].at # 0}
Concept(s) == IF FiledUnder(s, 1) # {} THEN 1 ELSE 2
Quarter(s, t) == {i \in FiledUnder(s, Concept(s)) : s[i].at = t}

LEMMA CheckpointIs ==
    ASSUME NEW s, NEW m \in Nat, DOMAIN s = 1..m, \A i \in DOMAIN s : s[i].filed \in Nat,
           \A i, j \in DOMAIN s : i < j => s[i].filed <= s[j].filed
    PROVE  /\ \A t : t \in DOMAIN Parse!Checkpoints(s) <=> Quarter(s, t) # {}
           /\ \A t : Quarter(s, t) # {} => Parse!Checkpoints(s)[t] = Parse!Min(Quarter(s, t))
<1> DEFINE earliest(same) == {i \in same : \A j \in same : s[i].filed <= s[j].filed}
<1>1. \A t : t \in DOMAIN Parse!Checkpoints(s) <=> Quarter(s, t) # {}
  BY DEF Parse!Checkpoints, Quarter, FiledUnder, Concept
<1>2. \A t \in DOMAIN Parse!Checkpoints(s) : Parse!Checkpoints(s)[t] = Parse!Min(earliest(Quarter(s, t)))
  BY DEF Parse!Checkpoints, Quarter, FiledUnder, Concept
<1>3. ASSUME NEW t, Quarter(s, t) # {} PROVE Parse!Min(earliest(Quarter(s, t))) = Parse!Min(Quarter(s, t))
  <2> DEFINE same == Quarter(s, t)
  <2>1. same \in SUBSET Nat /\ \A i \in same : i \in DOMAIN s
    BY DEF Quarter, FiledUnder
  <2>2. same # {}
    BY <1>3
  <2> HIDE DEF same
  <2>3. PICK a \in same : \A i \in same : a <= i
    BY <2>1, <2>2, LeastNat
  <2>4. \A i \in same : s[a].filed <= s[i].filed
    BY <2>1, <2>3
  <2>5. a \in earliest(same) /\ \A i \in earliest(same) : a <= i /\ i \in Nat
    BY <2>1, <2>3, <2>4
  <2>6. Parse!Min(earliest(same)) = a
    <3> HIDE DEF earliest
    <3> QED BY <2>5 DEF Parse!Min
  <2>7. Parse!Min(same) = a
    BY <2>1, <2>3 DEF Parse!Min
  <2> QED BY <2>6, <2>7 DEF same
<1> QED BY <1>1, <1>2, <1>3

LEMMA CheckpointsDoStay == Parsed => Parse!CheckpointsStay
<1> SUFFICES ASSUME Parsed, parser = "etf", NEW n \in DOMAIN payload,
                    \A i, j \in DOMAIN payload : i < j => payload[i].filed <= payload[j].filed,
                    \/ \E i \in 1..n : payload[i].concept = 1 /\ payload[i].at # 0
                    \/ ~ \E i \in 1..Len(payload) : payload[i].concept = 1 /\ payload[i].at # 0,
                    NEW t \in DOMAIN Parse!Checkpoints(SubSeq(payload, 1, n))
             PROVE  /\ t \in DOMAIN Parse!Checkpoints(payload)
                    /\ Parse!Checkpoints(payload)[t] = Parse!Checkpoints(SubSeq(payload, 1, n))[t]
  BY DEF Parse!CheckpointsStay
<1> DEFINE s == SubSeq(payload, 1, n)
<1>1. /\ DOMAIN s = 1..n /\ \A i \in 1..n : s[i] = payload[i]
      /\ n \in Nat /\ 1..n \subseteq DOMAIN payload
  BY PrefixIs
<1>2. /\ DOMAIN payload = 1..Len(payload) /\ Len(payload) \in Nat
      /\ \A i \in DOMAIN payload : payload[i].filed \in Nat
  BY RecordsAre DEF Parse!Record
<1> HIDE DEF s
<1>3. \A c : FiledUnder(s, c) = FiledUnder(payload, c) \cap (1..n)
  BY <1>1 DEF FiledUnder
<1>4. Concept(s) = Concept(payload)
  <2>1. FiledUnder(s, 1) # {} \/ FiledUnder(payload, 1) = {}
    BY <1>1, <1>2 DEF FiledUnder
  <2> QED BY <1>3, <2>1 DEF Concept
<1>5. /\ Quarter(s, t) = Quarter(payload, t) \cap (1..n)
      /\ Quarter(payload, t) \in SUBSET (Nat \ {0})
  <2>1. \A i \in Quarter(s, t) : s[i] = payload[i] /\ i \in 1..n /\ i \in Quarter(payload, t)
    BY <1>1, <1>3, <1>4 DEF Quarter
  <2>2. \A i \in Quarter(payload, t) \cap (1..n) : i \in Quarter(s, t)
    BY <1>1, <1>3, <1>4 DEF Quarter
  <2>3. \A i \in Quarter(payload, t) : i \in Nat \ {0}
    BY <1>2 DEF Quarter, FiledUnder
  <2> QED BY <2>1, <2>2, <2>3
<1>6. /\ \A i \in DOMAIN s : s[i].filed \in Nat
      /\ \A i, j \in DOMAIN s : i < j => s[i].filed <= s[j].filed
  BY <1>1, <1>2
<1>7. Quarter(s, t) # {} /\ Parse!Checkpoints(s)[t] = Parse!Min(Quarter(s, t))
  <2>1. t \in DOMAIN Parse!Checkpoints(s)
    BY DEF s
  <2> QED BY <1>1, <1>6, <2>1, CheckpointIs
<1>8. t \in DOMAIN Parse!Checkpoints(payload) /\ Parse!Checkpoints(payload)[t] = Parse!Min(Quarter(payload, t))
  BY <1>2, <1>5, <1>7, CheckpointIs
<1>9. Parse!Min(Quarter(s, t)) = Parse!Min(Quarter(payload, t))
  BY <1>1, <1>5, <1>7, FirstStays
<1> QED BY <1>7, <1>8, <1>9 DEF s

\* A price, a count and an asset total that multiply, within the tolerance.
LEMMA FundsAre == Parsed => Parse!FundsReconcile
<1> SUFFICES ASSUME Parsed, parser = "fund", NEW i \in DOMAIN payload
             PROVE  Parse!BitwiseAccepts(payload[i]) <=>
                       /\ payload[i].nav > 0 /\ payload[i].skew \in 0..3
                       /\ payload[i].assets = payload[i].nav * payload[i].shares
  BY DEF Parse!FundsReconcile
<1>1. payload[i].nav \in 0..2 /\ payload[i].shares \in 0..2 /\ payload[i].assets \in 0..4
  BY RecordsAre DEF Parse!Record
<1>2. ASSUME NEW a \in 0..2, NEW b \in 0..2, NEW c \in 0..4 PROVE Parse!Reconciles(a, b, c) <=> c = a * b
  <2>1. a * b = IF a = 0 THEN 0 ELSE IF a = 1 THEN b ELSE b + b
    <3>1. CASE a = 0
      BY <3>1
    <3>2. CASE a = 1
      BY <3>2
    <3>3. CASE a = 2
      BY <3>3
    <3> QED BY <3>1, <3>2, <3>3
  <2> DEFINE m == a * b
  <2>2. m \in 0..4
    BY <2>1
  <2> HIDE DEF m
  <2>3. Parse!Reconciles(a, b, c) <=>
           IF c = 0 THEN m = 0 ELSE 100 * (IF m < c THEN c - m ELSE m - c) <= 2 * c
    BY DEF Parse!Reconciles, m
  <2> QED BY <2>2, <2>3 DEF m
<1> QED BY <1>1, <1>2 DEF Parse!BitwiseAccepts

LEMMA SumIs == \A f, S : Parse!SumFunctionOnSet(f, S) = TotalOf(f, S)
BY DEF Parse!SumFunctionOnSet, Parse!FoldFunctionOnSet, Parse!MapThenFoldSet, TotalOf, TotalsOf, IsTotal, TotalStep, AnyOf

\* What several transfers move, by parts.
LEMMA MovedIs ==
    ASSUME Parsed, parser = "whales", NEW S \in SUBSET DOMAIN payload, NEW T \in SUBSET DOMAIN payload, S \cap T = {}
    PROVE  /\ Parse!Moved(payload, S) \in Int /\ Parse!Moved(payload, T) \in Int
           /\ Parse!Moved(payload, S \cup T) = Parse!Moved(payload, S) + Parse!Moved(payload, T)
           /\ Parse!Cardinality(S) \in Int /\ Parse!Cardinality(T) \in Int
           /\ Parse!Cardinality(S \cup T) = Parse!Cardinality(S) + Parse!Cardinality(T)
<1> DEFINE f == [i \in DOMAIN payload |-> payload[i].value]
<1>1. IsFiniteSet(DOMAIN payload)
  BY RecordsAre, FS_Interval
<1>2. IsFiniteSet(S) /\ IsFiniteSet(T)
  BY <1>1, FS_Subset
<1>3. \A i \in DOMAIN payload : f[i] \in Int
  BY RecordsAre DEF Parse!Record
<1>4. \A U : Parse!Moved(payload, U) = TotalOf(f, U)
  BY SumIs DEF Parse!Moved
<1> HIDE DEF f
<1>5. TotalOf(f, S) \in Int /\ TotalOf(f, T) \in Int
  <2>1. \A i \in S : f[i] \in Int
    BY <1>3
  <2>2. \A i \in T : f[i] \in Int
    BY <1>3
  <2> QED BY <1>2, <2>1, <2>2, TotalAdds
<1>6. TotalOf(f, S \cup T) = TotalOf(f, S) + TotalOf(f, T)
  <2>1. \A i \in S \cup T : f[i] \in Int
    BY <1>3
  <2> QED BY <1>2, <2>1, TotalUnion
<1>7. /\ Cardinality(S) \in Int /\ Cardinality(T) \in Int
      /\ Cardinality(S \cup T) = Cardinality(S) + Cardinality(T)
  <2>1. Cardinality(S) \in Nat /\ Cardinality(T) \in Nat
    BY <1>2, FS_CardinalityType
  <2>2. Cardinality(S \cup T) = Cardinality(S) + Cardinality(T) - Cardinality(S \cap T)
    BY <1>2, FS_Union
  <2>3. Cardinality(S \cap T) = 0
    BY FS_EmptySet
  <2> QED BY <2>1, <2>2, <2>3
<1> QED BY <1>4, <1>5, <1>6, <1>7, SameCardinality

LEMMA FlowsDoAddUp == Parsed => Parse!FlowsAddUp
<1> SUFFICES ASSUME Parsed, parser = "whales", NEW a \in 1..2, NEW x \in 0..3, NEW y \in 0..3, NEW z \in 0..3, x <= y, y <= z
             PROVE  LET whole == Parse!Flow(payload, a, x, z)
                        former == Parse!Flow(payload, a, x, y)
                        latter == Parse!Flow(payload, a, y, z)
                    IN  /\ whole.net = former.net + latter.net /\ whole.count = former.count + latter.count
                        /\ Parse!Flow(payload, 1, x, z).net + Parse!Flow(payload, 2, x, z).net = 0
  BY DEF Parse!FlowsAddUp
<1> DEFINE within(p, q) == {i \in DOMAIN payload : payload[i].at \in p..(q - 1)}
           into(b, p, q) == {i \in within(p, q) : payload[i].to = b}
           out(b, p, q) == {i \in within(p, q) : payload[i].from = b}
           both(b, p, q) == into(b, p, q) \cup out(b, p, q)
           m(S) == Parse!Moved(payload, S)
           c(S) == Parse!Cardinality(S)
<1>1. \A b, p, q : /\ Parse!Flow(payload, b, p, q).net = m(into(b, p, q)) - m(out(b, p, q))
                   /\ Parse!Flow(payload, b, p, q).count = c(both(b, p, q))
  BY DEF Parse!Flow
<1>2. \A i \in DOMAIN payload : payload[i].at \in 0..2 /\ payload[i].to \in 1..2 /\ payload[i].from \in 1..2
  BY RecordsAre DEF Parse!Record
<1>3. /\ within(x, z) = within(x, y) \cup within(y, z)
      /\ within(x, y) \cap within(y, z) = {}
  BY <1>2
<1>4. \A b, p, q : /\ into(b, p, q) \in SUBSET DOMAIN payload /\ out(b, p, q) \in SUBSET DOMAIN payload
                   /\ both(b, p, q) \in SUBSET DOMAIN payload /\ within(p, q) \in SUBSET DOMAIN payload
                   /\ into(b, p, q) \in SUBSET within(p, q) /\ out(b, p, q) \in SUBSET within(p, q)
                   /\ both(b, p, q) \in SUBSET within(p, q)
  OBVIOUS
<1>5. /\ into(a, x, z) = into(a, x, y) \cup into(a, y, z)
      /\ out(a, x, z) = out(a, x, y) \cup out(a, y, z)
  BY <1>3
<1>6. both(a, x, z) = both(a, x, y) \cup both(a, y, z)
  BY <1>5
<1>7. /\ into(1, x, z) \cup into(2, x, z) = within(x, z) /\ into(1, x, z) \cap into(2, x, z) = {}
      /\ out(1, x, z) \cup out(2, x, z) = within(x, z) /\ out(1, x, z) \cap out(2, x, z) = {}
  BY <1>2
<1>8. \A S, T \in SUBSET DOMAIN payload :
         S \cap T = {} => /\ m(S) \in Int /\ m(T) \in Int /\ m(S \cup T) = m(S) + m(T)
                          /\ c(S) \in Int /\ c(T) \in Int /\ c(S \cup T) = c(S) + c(T)
  BY MovedIs
<1> HIDE DEF both, into, out, within, m, c
<1>9. /\ m(into(a, x, z)) = m(into(a, x, y)) + m(into(a, y, z))
      /\ m(into(a, x, y)) \in Int /\ m(into(a, y, z)) \in Int
  <2>1. into(a, x, y) \cap into(a, y, z) = {}
    BY <1>3, <1>4
  <2> QED BY <1>4, <1>5, <1>8, <2>1
<1>10. /\ m(out(a, x, z)) = m(out(a, x, y)) + m(out(a, y, z))
       /\ m(out(a, x, y)) \in Int /\ m(out(a, y, z)) \in Int
  <2>1. out(a, x, y) \cap out(a, y, z) = {}
    BY <1>3, <1>4
  <2> QED BY <1>4, <1>5, <1>8, <2>1
<1>11. c(both(a, x, z)) = c(both(a, x, y)) + c(both(a, y, z))
  <2>1. both(a, x, y) \cap both(a, y, z) = {}
    BY <1>3, <1>4
  <2> QED BY <1>4, <1>6, <1>8, <2>1
<1>12. /\ m(within(x, z)) = m(into(1, x, z)) + m(into(2, x, z))
       /\ m(within(x, z)) = m(out(1, x, z)) + m(out(2, x, z))
       /\ m(into(1, x, z)) \in Int /\ m(into(2, x, z)) \in Int
       /\ m(out(1, x, z)) \in Int /\ m(out(2, x, z)) \in Int
  BY <1>4, <1>7, <1>8
<1>13. (m(into(1, x, z)) - m(out(1, x, z))) + (m(into(2, x, z)) - m(out(2, x, z))) = 0
  BY <1>12
<1>14. m(into(a, x, z)) - m(out(a, x, z)) = (m(into(a, x, y)) - m(out(a, x, y))) + (m(into(a, y, z)) - m(out(a, y, z)))
  BY <1>9, <1>10
<1> QED BY <1>1, <1>11, <1>13, <1>14

LEMMA LesserIs == \A a, b \in Int : Parse!Min({a, b}) = IF a <= b THEN a ELSE b
<1> SUFFICES ASSUME NEW a \in Int, NEW b \in Int PROVE Parse!Min({a, b}) = IF a <= b THEN a ELSE b
  OBVIOUS
<1> DEFINE S == {a, b}
           m == IF a <= b THEN a ELSE b
<1>1. m \in S /\ \A y \in S : m <= y
  OBVIOUS
<1>2. \A x \in S : (\A y \in S : x <= y) => x = m
  OBVIOUS
<1> HIDE DEF S, m
<1>3. Parse!Min(S) = m
  BY <1>1, <1>2 DEF Parse!Min
<1> QED BY <1>3 DEF S, m

\* The window a day falls in starts at the last start on or before it.
LEMMA StartOfDay ==
    ASSUME NEW x \in Nat, NEW n \in 1..3
    PROVE  \E k \in Nat : /\ k <= x /\ x < k + n /\ k % n = 0
                          /\ \A l \in Nat : l <= x /\ x < l + n /\ l % n = 0 => l = k
<1>1. CASE n = 1
  <2>1. \A l \in Nat : l % 1 = 0
    OBVIOUS
  <2> QED BY <1>1, <2>1
<1>2. CASE n = 2
  <2>1. (x - (x % 2)) \in Nat /\ x - (x % 2) <= x /\ x < (x - (x % 2)) + 2 /\ (x - (x % 2)) % 2 = 0
    OBVIOUS
  <2>2. \A l \in Nat : l <= x /\ x < l + 2 /\ l % 2 = 0 => l = x - (x % 2)
    OBVIOUS
  <2> QED BY <1>2, <2>1, <2>2
<1>3. CASE n = 3
  <2>1. (x - (x % 3)) \in Nat /\ x - (x % 3) <= x /\ x < (x - (x % 3)) + 3 /\ (x - (x % 3)) % 3 = 0
    OBVIOUS
  <2>2. \A l \in Nat : l <= x /\ x < l + 3 /\ l % 3 = 0 => l = x - (x % 3)
    OBVIOUS
  <2> QED BY <1>3, <2>1, <2>2
<1> QED BY <1>1, <1>2, <1>3

LEMMA WindowsDoTile == Parsed => Parse!WindowsTile
<1> SUFFICES ASSUME Parsed, parser = "windows", NEW i \in DOMAIN payload, NEW d \in payload[i].start..payload[i].end
             PROVE  Parse!Cardinality({w \in Parse!DateWindows(payload[i].start, payload[i].end, payload[i].days) :
                                          w[1] <= d /\ d <= w[2]}) = 1
  BY DEF Parse!WindowsTile
<1> DEFINE start == payload[i].start
           until == payload[i].end
           n == payload[i].days
           windows == Parse!DateWindows(start, until, n)
           on == {w \in windows : w[1] <= d /\ d <= w[2]}
<1>1. start \in 0..3 /\ until \in 0..5 /\ n \in 1..3
  BY RecordsAre DEF Parse!Record
<1> HIDE DEF start, until, n
<1>2. d \in Nat /\ start <= d /\ d <= until /\ start \in Nat /\ until \in Nat
  BY <1>1 DEF start, until
<1>3. windows = {<<e, Parse!Min({e + n - 1, until})>> : e \in {e \in start..until : (e - start) % n = 0}}
  BY DEF Parse!DateWindows
<1>4. \A e \in start..until : Parse!Min({e + n - 1, until}) = IF e + n - 1 <= until THEN e + n - 1 ELSE until
  BY <1>1, <1>2, LesserIs
<1>5. PICK k \in Nat : /\ k <= d - start /\ d - start < k + n /\ k % n = 0
                       /\ \A l \in Nat : l <= d - start /\ d - start < l + n /\ l % n = 0 => l = k
  <2>1. d - start \in Nat
    BY <1>2
  <2> QED BY <1>1, <2>1, StartOfDay
<1> DEFINE e == start + k
           win == <<e, Parse!Min({e + n - 1, until})>>
<1>6. e \in start..until /\ e - start = k /\ e <= d /\ d <= e + n - 1
  BY <1>1, <1>2, <1>5
<1>7. win \in on
  <2>1. win \in windows
    BY <1>3, <1>5, <1>6
  <2>2. d <= Parse!Min({e + n - 1, until})
    BY <1>1, <1>2, <1>4, <1>6
  <2> HIDE DEF windows, e
  <2> QED BY <1>6, <2>1, <2>2
<1>8. ASSUME NEW w \in on PROVE w = win
  <2>1. PICK b \in {b \in start..until : (b - start) % n = 0} : w = <<b, Parse!Min({b + n - 1, until})>>
    BY <1>3
  <2>2. b \in start..until /\ (b - start) % n = 0 /\ b <= d /\ d <= Parse!Min({b + n - 1, until})
    BY <2>1
  <2>3. d <= b + n - 1
    BY <1>1, <1>2, <1>4, <2>2
  <2>4. b - start \in Nat /\ b - start <= d - start /\ d - start < (b - start) + n
    BY <1>1, <1>2, <2>2, <2>3
  <2>5. b - start = k
    BY <1>5, <2>2, <2>4
  <2>6. b = e
    BY <1>2, <2>2, <2>5
  <2> QED BY <2>1, <2>6
<1> HIDE DEF win, windows
<1>9. on = {win}
  BY <1>7, <1>8
<1>10. Cardinality(on) = 1
  BY <1>9, FS_Singleton
<1> QED BY <1>10, SameCardinality DEF windows, start, until, n

LEMMA TotalOfOne ==
    ASSUME NEW f, NEW x, f[x] \in Int
    PROVE  TotalOf(f, {x}) = f[x]
<1>1. IsFiniteSet({x}) /\ \A y \in {x} : f[y] \in Int
  BY FS_Singleton
<1>2. TotalOf(f, {x}) = f[x] + TotalOf(f, {x} \ {x})
  BY <1>1, TotalAdds
<1>3. {x} \ {x} = {}
  OBVIOUS
<1> QED BY <1>2, <1>3, TotalEmpty

\* A series whose dates differ and whose totals only grow.
Grows == \A i, j \in Parse!Points(payload) :
            i # j => /\ payload[i].at # payload[j].at
                     /\ payload[i].at < payload[j].at => payload[i].total <= payload[j].total

LEMMA SeriesIs ==
    ASSUME Parsed, parser = "unlocks", Grows
    PROVE  LET points == Parse!Points(payload)
           IN  /\ IsFiniteSet(points) /\ \A i \in points : payload[i].at \in Nat /\ payload[i].total \in Nat
               /\ \A i, j \in points : Parse!Earlier(payload, i, j) <=> payload[i].at < payload[j].at
               /\ \A i, j \in points : payload[i].at = payload[j].at => i = j
               /\ \A i, j \in points : payload[i].at <= payload[j].at => payload[i].total <= payload[j].total
<1> DEFINE points == Parse!Points(payload)
<1>1. /\ Len(payload) \in Nat /\ DOMAIN payload = 1..Len(payload)
      /\ \A i \in DOMAIN payload : payload[i].at \in Nat /\ payload[i].total \in Nat
  BY RecordsAre DEF Parse!Record
<1>2. points \in SUBSET DOMAIN payload /\ IsFiniteSet(DOMAIN payload)
  BY <1>1, FS_Interval DEF Parse!Points
<1>3. IsFiniteSet(points)
  <2> HIDE DEF points
  <2> QED BY <1>2, FS_Subset
<1>4. \A i \in points : payload[i].at \in Nat /\ payload[i].total \in Nat
  BY <1>1, <1>2
<1>5. \A i, j \in points : payload[i].at = payload[j].at => i = j
  BY DEF Grows
<1>6. \A i, j \in points : Parse!Earlier(payload, i, j) <=> payload[i].at < payload[j].at
  <2>1. \A i \in points : i \in Nat
    BY <1>1, <1>2
  <2> HIDE DEF points
  <2> QED BY <1>4, <1>5, <2>1 DEF Parse!Earlier
<1>7. \A i, j \in points : payload[i].at <= payload[j].at => payload[i].total <= payload[j].total
  <2> SUFFICES ASSUME NEW i \in points, NEW j \in points, payload[i].at <= payload[j].at
               PROVE  payload[i].total <= payload[j].total
    OBVIOUS
  <2>1. CASE i = j
    BY <1>4, <2>1
  <2>2. CASE i # j
    <3>1. payload[i].at # payload[j].at /\ (payload[i].at < payload[j].at => payload[i].total <= payload[j].total)
      BY <2>2 DEF Grows
    <3> QED BY <1>4, <3>1
  <2> QED BY <2>1, <2>2
<1> QED BY <1>3, <1>4, <1>5, <1>6, <1>7

\* The point before another.
LEMMA PointBefore ==
    ASSUME Parsed, parser = "unlocks", Grows,
           NEW i \in Parse!Points(payload), NEW k \in Parse!Points(payload), payload[i].at < payload[k].at
    PROVE  \E h \in Parse!Points(payload) : /\ Parse!FollowedBy(payload, h, k)
                                            /\ payload[h].at < payload[k].at
                                            /\ \A l \in Parse!Points(payload) :
                                                  payload[l].at < payload[k].at => payload[l].at <= payload[h].at
<1> DEFINE points == Parse!Points(payload)
           when(l) == payload[l].at
           Gaps == {when(k) - when(l) : l \in {l \in points : when(l) < when(k)}}
<1>1. \A l \in points : when(l) \in Nat
  BY SeriesIs
<1>2. Gaps \in SUBSET Nat /\ Gaps # {}
  BY <1>1
<1>3. PICK g \in Gaps : \A m \in Gaps : g <= m
  <2> HIDE DEF Gaps
  <2> QED BY <1>2, LeastNat
<1>4. PICK h \in points : when(h) < when(k) /\ g = when(k) - when(h)
  OBVIOUS
<1>5. ASSUME NEW l \in points, when(l) < when(k) PROVE when(l) <= when(h)
  <2>1. g <= when(k) - when(l)
    BY <1>3, <1>5
  <2>2. k \in points
    OBVIOUS
  <2> HIDE DEF points, when
  <2> QED BY <1>1, <1>4, <2>1, <2>2
<1>6. Parse!FollowedBy(payload, h, k)
  <2>1. \A a, b \in points : Parse!Earlier(payload, a, b) <=> when(a) < when(b)
    BY SeriesIs
  <2>2. ~ \E l \in points : when(h) < when(l) /\ when(l) < when(k)
    <3> HIDE DEF points, when
    <3> QED BY <1>1, <1>4, <1>5
  <2> QED BY <1>4, <2>1, <2>2 DEF Parse!FollowedBy
<1> QED BY <1>4, <1>5, <1>6

\* The unlocks before a point add up to what the series grew by until then.
LEMMA GrownUntil ==
    ASSUME Parsed, parser = "unlocks", Grows,
           NEW i \in Parse!Points(payload), \A k \in Parse!Points(payload) : payload[i].at <= payload[k].at,
           NEW unlocks, IsFiniteSet(unlocks),
           unlocks = {[date |-> payload[p[1]].at, tokens |-> payload[p[2]].total - payload[p[1]].total] :
                         p \in {p \in Parse!Points(payload) \X Parse!Points(payload) :
                                   Parse!FollowedBy(payload, p[1], p[2]) /\ payload[p[1]].total < payload[p[2]].total}}
    PROVE  LET f == [u \in unlocks |-> u.tokens]
           IN  \A k \in Parse!Points(payload) :
                  TotalOf(f, {u \in unlocks : u.date < payload[k].at}) = payload[k].total - payload[i].total
<1> DEFINE points == Parse!Points(payload)
           when(l) == payload[l].at
           amount(l) == payload[l].total
           f == [u \in unlocks |-> u.tokens]
           Q(k) == {u \in unlocks : u.date < when(k)}
           rise(h, k) == [date |-> when(h), tokens |-> amount(k) - amount(h)]
           Right(k) == TotalOf(f, Q(k)) = amount(k) - amount(i)
           Bad == {when(k) : k \in {k \in points : ~ Right(k)}}
<1>1. /\ \A l \in points : when(l) \in Nat /\ amount(l) \in Nat
      /\ \A l, m \in points : Parse!Earlier(payload, l, m) <=> when(l) < when(m)
      /\ \A l, m \in points : when(l) = when(m) => l = m
      /\ \A l, m \in points : when(l) <= when(m) => amount(l) <= amount(m)
  BY SeriesIs
<1>2. /\ \A h, k \in points : Parse!FollowedBy(payload, h, k) => when(h) < when(k) /\ ~ \E l \in points : when(h) < when(l) /\ when(l) < when(k)
  BY <1>1 DEF Parse!FollowedBy
<1>3. \A u \in unlocks : \E h, k \in points : /\ Parse!FollowedBy(payload, h, k) /\ amount(h) < amount(k)
                                              /\ u = rise(h, k) /\ u.date = when(h) /\ u.tokens = amount(k) - amount(h)
  <2> SUFFICES ASSUME NEW u \in unlocks
               PROVE  \E h, k \in points : /\ Parse!FollowedBy(payload, h, k) /\ amount(h) < amount(k)
                                           /\ u = rise(h, k) /\ u.date = when(h) /\ u.tokens = amount(k) - amount(h)
    OBVIOUS
  <2>1. PICK p \in points \X points : /\ Parse!FollowedBy(payload, p[1], p[2]) /\ amount(p[1]) < amount(p[2])
                                      /\ u = rise(p[1], p[2])
    OBVIOUS
  <2> QED BY <2>1
<1>4. \A h, k \in points : Parse!FollowedBy(payload, h, k) /\ amount(h) < amount(k) => rise(h, k) \in unlocks
  <2> SUFFICES ASSUME NEW h \in points, NEW k \in points, Parse!FollowedBy(payload, h, k), amount(h) < amount(k)
               PROVE  rise(h, k) \in unlocks
    OBVIOUS
  <2>1. <<h, k>> \in points \X points /\ <<h, k>>[1] = h /\ <<h, k>>[2] = k
    OBVIOUS
  <2> QED BY <2>1
<1>5. \A u \in unlocks : f[u] = u.tokens /\ u.tokens \in Int /\ u.date \in Nat
  BY <1>1, <1>3
<1>6. \A k : IsFiniteSet(Q(k)) /\ Q(k) \in SUBSET unlocks
  <2> SUFFICES ASSUME NEW k PROVE IsFiniteSet(Q(k)) /\ Q(k) \in SUBSET unlocks
    OBVIOUS
  <2>1. Q(k) \in SUBSET unlocks
    OBVIOUS
  <2> HIDE DEF Q
  <2> QED BY <2>1, FS_Subset
<1> HIDE DEF f
<1>7. Bad = {}
  <2> SUFFICES ASSUME Bad # {} PROVE FALSE
    OBVIOUS
  <2>1. PICK t \in Bad : \A v \in Bad : t <= v
    <3>1. Bad \in SUBSET Nat
      BY <1>1
    <3> HIDE DEF Bad
    <3> QED BY <3>1, LeastNat
  <2>2. PICK k \in points : ~ Right(k) /\ t = when(k)
    OBVIOUS
  <2>3. ASSUME NEW h \in points, when(h) < when(k) PROVE Right(h)
    <3>1. ~ (t <= when(h))
      BY <1>1, <2>2, <2>3
    <3> QED BY <2>1, <3>1
  <2> HIDE DEF Bad
  <2>4. CASE when(k) <= when(i)
    <3>1. k = i
      BY <1>1, <2>4
    <3>2. Q(k) = {}
      <4> SUFFICES ASSUME NEW u \in unlocks, u.date < when(k) PROVE FALSE
        OBVIOUS
      <4>1. PICK h \in points : u.date = when(h)
        BY <1>3
      <4> QED BY <1>1, <2>4, <4>1
    <3>3. TotalOf(f, Q(k)) = 0
      BY <3>2, TotalEmpty
    <3>4. amount(k) - amount(i) = 0
      BY <1>1, <3>1
    <3> QED BY <2>2, <3>3, <3>4
  <2>5. CASE ~ (when(k) <= when(i))
    <3>1. PICK h \in points : /\ Parse!FollowedBy(payload, h, k) /\ when(h) < when(k)
                              /\ \A l \in points : when(l) < when(k) => when(l) <= when(h)
      <4>1. when(i) < when(k)
        BY <1>1, <2>5
      <4> QED BY <4>1, PointBefore
    <3>2. TotalOf(f, Q(h)) = amount(h) - amount(i)
      BY <2>3, <3>1
    <3>3. \A u \in Q(k) : u \in Q(h) \/ (u = rise(h, k) /\ amount(h) < amount(k))
      <4> SUFFICES ASSUME NEW u \in unlocks, u.date < when(k), ~ (u.date < when(h))
                   PROVE  u = rise(h, k) /\ amount(h) < amount(k)
        OBVIOUS
      <4>1. PICK b \in points, c \in points : /\ Parse!FollowedBy(payload, b, c) /\ amount(b) < amount(c)
                                              /\ u = rise(b, c) /\ u.date = when(b)
        BY <1>3
      <4>2. when(b) <= when(h) /\ ~ (when(b) < when(h))
        BY <3>1, <4>1
      <4>3. b = h
        BY <1>1, <4>2
      <4>4. when(h) < when(c) /\ ~ (when(c) < when(k)) /\ ~ (when(k) < when(c))
        <5>1. when(h) < when(c) /\ ~ (when(h) < when(k) /\ when(k) < when(c))
          BY <1>2, <4>1, <4>3
        <5>2. ~ (when(h) < when(c) /\ when(c) < when(k))
          BY <1>2, <3>1
        <5> QED BY <3>1, <5>1, <5>2
      <4>5. c = k
        BY <1>1, <4>4
      <4> QED BY <4>1, <4>3, <4>5
    <3>4. \A u \in Q(h) : u \in Q(k)
      <4> SUFFICES ASSUME NEW u \in unlocks, u.date < when(h) PROVE u.date < when(k)
        OBVIOUS
      <4> QED BY <1>1, <1>5, <3>1
    <3>5. amount(h) <= amount(k)
      BY <1>1, <3>1
    <3>6. CASE amount(h) < amount(k)
      <4> DEFINE u == rise(h, k)
      <4>1. u \in unlocks /\ u.date = when(h) /\ u.tokens = amount(k) - amount(h)
        BY <1>4, <3>1, <3>6
      <4>2. u \in Q(k) /\ u \notin Q(h)
        BY <1>1, <3>1, <4>1
      <4>3. f[u] = amount(k) - amount(h) /\ f[u] \in Int
        BY <1>1, <1>5, <4>1
      <4>4. TotalOf(f, {u}) = amount(k) - amount(h)
        <5> HIDE DEF u
        <5> QED BY <4>3, TotalOfOne
      <4>5. Q(k) = Q(h) \cup {u} /\ Q(h) \cap {u} = {}
        BY <3>3, <3>4, <4>2
      <4>6. TotalOf(f, Q(h) \cup {u}) = TotalOf(f, Q(h)) + TotalOf(f, {u})
        <5>1. IsFiniteSet({u}) /\ IsFiniteSet(Q(h))
          BY <1>6, FS_Singleton
        <5>2. \A x \in Q(h) \cup {u} : f[x] \in Int
          BY <1>5, <1>6, <4>3
        <5> HIDE DEF u, Q
        <5> QED BY <4>5, <5>1, <5>2, TotalUnion
      <4> HIDE DEF u
      <4>7. TotalOf(f, Q(k)) = (amount(h) - amount(i)) + (amount(k) - amount(h))
        BY <3>2, <4>4, <4>5, <4>6
      <4>8. TotalOf(f, Q(k)) = amount(k) - amount(i)
        BY <1>1, <4>7
      <4> QED BY <2>2, <4>8
    <3>7. CASE ~ (amount(h) < amount(k))
      <4>1. Q(k) = Q(h)
        BY <3>3, <3>4, <3>7
      <4>2. amount(h) = amount(k)
        BY <1>1, <3>5, <3>7
      <4> QED BY <2>2, <3>2, <4>1, <4>2
    <3> QED BY <3>6, <3>7
  <2> QED BY <2>4, <2>5
<1>8. \A k \in points : Right(k)
  BY <1>7
<1> QED BY <1>8 DEF f

LEMMA UnlocksDoAddUp == Parsed => Parse!UnlocksAddUp
<1> SUFFICES ASSUME Parsed, parser = "unlocks", Grows,
                    NEW i \in Parse!Points(payload), NEW j \in Parse!Points(payload),
                    \A k \in Parse!Points(payload) : payload[i].at <= payload[k].at /\ payload[k].at <= payload[j].at
             PROVE  LET unlocks == Parse!Unlocks(payload)
                    IN  Parse!SumFunctionOnSet([u \in unlocks |-> u.tokens], unlocks) = payload[j].total - payload[i].total
  BY DEF Parse!UnlocksAddUp, Grows
<1> DEFINE points == Parse!Points(payload)
           when(l) == payload[l].at
           amount(l) == payload[l].total
           rises == {p \in points \X points : Parse!FollowedBy(payload, p[1], p[2]) /\ amount(p[1]) < amount(p[2])}
           unlocks == {[date |-> when(p[1]), tokens |-> amount(p[2]) - amount(p[1])] : p \in rises}
           f == [u \in unlocks |-> u.tokens]
<1>1. /\ IsFiniteSet(points) /\ \A l \in points : when(l) \in Nat /\ amount(l) \in Nat
      /\ \A l, m \in points : Parse!Earlier(payload, l, m) <=> when(l) < when(m)
      /\ \A l, m \in points : when(l) = when(m) => l = m
      /\ \A l, m \in points : when(l) <= when(m) => amount(l) <= amount(m)
  BY SeriesIs
<1>2. IsFiniteSet(unlocks)
  <2> DEFINE g == [p \in rises |-> [date |-> when(p[1]), tokens |-> amount(p[2]) - amount(p[1])]]
  <2>1. IsFiniteSet(rises)
    <3>1. IsFiniteSet(points \X points)
      BY <1>1, FS_Product
    <3>2. rises \in SUBSET (points \X points)
      OBVIOUS
    <3> HIDE DEF rises, points
    <3> QED BY <3>1, <3>2, FS_Subset
  <2>2. g \in [rises -> unlocks] /\ \A u \in unlocks : \E p \in rises : g[p] = u
    <3> HIDE DEF rises, when, amount
    <3> QED OBVIOUS
  <2> HIDE DEF g, unlocks, rises
  <2>3. g \in Surjection(rises, unlocks)
    BY <2>2 DEF Surjection
  <2> QED BY <2>1, <2>3, FS_Surjection
<1>3. {l \in points : ~ \E m \in points : Parse!Earlier(payload, l, m)} = {j}
  <2>1. \A m \in points : ~ (when(j) < when(m))
    BY <1>1
  <2>2. \A l \in points : (~ \E m \in points : when(l) < when(m)) => l = j
    BY <1>1
  <2> QED BY <1>1, <2>1, <2>2
<1>4. Parse!Unlocks(payload) = IF amount(j) > 0 THEN unlocks ELSE {}
  <2> HIDE DEF points
  <2>1. Parse!Unlocks(payload) = IF \E l \in {l \in points : ~ \E m \in points : Parse!Earlier(payload, l, m)} : amount(l) > 0
                                 THEN unlocks ELSE {}
    BY DEF Parse!Unlocks, points
  <2> HIDE DEF unlocks
  <2> QED BY <1>3, <2>1
<1>5. CASE amount(j) > 0
  <2>1. TotalOf(f, {u \in unlocks : u.date < when(j)}) = amount(j) - amount(i)
    BY <1>2, GrownUntil
  <2>2. \A u \in unlocks : u.date < when(j)
    <3> SUFFICES ASSUME NEW p \in rises PROVE when(p[1]) < when(j)
      OBVIOUS
    <3>1. p[1] \in points /\ p[2] \in points /\ Parse!Earlier(payload, p[1], p[2])
      BY DEF Parse!FollowedBy
    <3>2. when(p[1]) < when(p[2]) /\ when(p[2]) <= when(j)
      BY <1>1, <3>1
    <3> QED BY <1>1, <3>1, <3>2
  <2>3. {u \in unlocks : u.date < when(j)} = unlocks
    <3> HIDE DEF unlocks
    <3> QED BY <2>2
  <2>4. TotalOf(f, unlocks) = amount(j) - amount(i)
    BY <2>1, <2>3
  <2>5. Parse!Unlocks(payload) = unlocks
    BY <1>4, <1>5
  <2> HIDE DEF unlocks
  <2> QED BY <2>4, <2>5, SumIs
<1>6. CASE ~ (amount(j) > 0)
  <2>1. amount(i) = 0 /\ amount(j) = 0
    BY <1>1, <1>6
  <2>2. Parse!Unlocks(payload) = {}
    BY <1>4, <1>6
  <2> QED BY <2>1, <2>2, SumIs, TotalEmpty
<1> QED BY <1>5, <1>6

\* However many records a payload has, in whatever order: what is usable has a row, a row
\* stays, a strict parser's verdict does not hang on the order, sums and latest dates are
\* those of the payload, Form 4's rows are numbered from 0 without a gap, checkpoints and
\* windows are each other's continuation, and unlocks and flows add up.
LEMMA ParsedTells == Parsed => Parse!TablesAreRight
BY UsableRows, RowsDoStay, OrderIsNot, TreasuryIsNew, TransactionsAre, CheckpointsDoStay,
   FundsAre, FlowsDoAddUp, UnlocksDoAddUp, WindowsDoTile DEF Parse!TablesAreRight
=============================================================================
