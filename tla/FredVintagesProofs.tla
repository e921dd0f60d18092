--------------------------- MODULE FredVintagesProofs ---------------------------
(***************************************************************************)
(* FredVintages for any number of observations, values and days, where no  *)
(* observation that was revised late on a boundary day is revised again    *)
(* before the next request: what is stored is the history upstream had,    *)
(* although most requests ask for a window that clips it.                  *)
(***************************************************************************)
EXTENDS FredVintages, WellFoundedInduction, TLAPS

FredAssumption == MaxDay \in Nat \ {0} /\ 0 \notin Value /\ Twice = FALSE

\* The vintages of d in a table R of revisions.
Vintages(R, d) == {s \in Day : R[d][s] # 0}

\* The vintage of day s was in force to the end of day e, when another came.
Closes(R, d, s, e) ==
    /\ s <= e /\ e + 1 \in Vintages(R, d)
    /\ \A u \in Vintages(R, d) : u <= s \/ e < u

\* Revisions are of days gone by, and each changes the value.
Upstream(R, t) ==
    /\ \A d \in Obs : \A s \in Vintages(R, d) : s <= t
    /\ \A d \in Obs : \A s, u \in Vintages(R, d) :
          s < u /\ (\A q \in Vintages(R, d) : q <= s \/ u <= q) => R[d][s] # R[d][u]

\* What a table of values V and ends E owes to a collection on day a: it holds
\* vintages only, all those before that day, closed where they ended and where
\* the next one is stored, and open nowhere else. A vintage it lacks on a day it
\* has one of another observation is the last.
Right(R, V, E, a) ==
    /\ \A d \in Obs, s \in Day : V[d][s] # 0 => R[d][s] # 0 /\ s <= a
    /\ \A d \in Obs, s \in Day : R[d][s] # 0 /\ s < a => V[d][s] = R[d][s]
    /\ \A d \in Obs, s \in Day : V[d][s] # 0 /\ E[d][s] # Forever =>
          Closes(R, d, s, E[d][s]) /\ V[d][s] = R[d][s] /\ V[d][E[d][s] + 1] # 0
    /\ \A d \in Obs, s, u \in Day : s < u /\ V[d][s] # 0 /\ V[d][u] # 0 => E[d][s] # Forever
    /\ \A d, e \in Obs, s \in Day :
          R[d][s] # 0 /\ V[d][s] = 0 /\ V[e][s] # 0 => \A u \in Vintages(R, d) : u <= s

\* The table as rows B would leave it.
RowsIn(B, d, s) == {r \in B : r.date = d /\ r.start = s}

NewValue(B) ==
    [d \in Obs |-> [s \in Day |->
        IF RowsIn(B, d, s) = {} THEN value[d][s] ELSE (CHOOSE r \in RowsIn(B, d, s) : TRUE).value]]
NewEnd(B) ==
    [d \in Obs |-> [s \in Day |->
        IF RowsIn(B, d, s) = {} THEN end[d][s] ELSE (CHOOSE r \in RowsIn(B, d, s) : TRUE).end]]

KeepsClosed(B) ==
    \A d \in Obs, s \in Day : value[d][s] # 0 /\ end[d][s] # Forever =>
        NewValue(B)[d][s] = value[d][s] /\ NewEnd(B)[d][s] = end[d][s]

\* What is stored is right as of the last collection, and what waits will make
\* it right as of its own.
FredInv ==
    /\ TypeOK
    /\ Upstream(revision, today)
    /\ Right(revision, value, end, asOf)
    /\ fetched # 0 => Right(revision, NewValue(blob), NewEnd(blob), fetched) /\ KeepsClosed(blob)

-----------------------------------------------------------------------------
\* The order of the naturals as the library's well-founded relation.
Less == {p \in Nat \X Nat : p[1] < p[2]}

LEMMA LessIsWellFounded == IsWellFoundedOn(Less, Nat)
BY NatLessThanWellFounded DEF Less, OpToRel

\* A set of days has a first.
LEMMA FirstDay ==
    ASSUME NEW n \in Nat, NEW S \in SUBSET (1..n), S # {}
    PROVE  Min(S) \in S /\ \A u \in S : Min(S) <= u
<1>1. S \subseteq Nat
  OBVIOUS
<1>2. \E x \in S : \A y \in S : <<y, x>> \notin Less
  BY <1>1, LessIsWellFounded, WFMin
<1>3. PICK x \in S : \A y \in S : ~(y < x)
  BY <1>1, <1>2 DEF Less
<1>4. \A y \in S : x <= y
  BY <1>1, <1>3
<1> QED
  BY <1>4 DEF Min

\* And a last.
LEMMA LastDay ==
    ASSUME NEW n \in Nat, NEW S \in SUBSET (1..n), S # {}
    PROVE  Max(S) \in S /\ \A u \in S : u <= Max(S)
<1> DEFINE below == {n - u : u \in S}
<1>1. below \subseteq Nat /\ below # {}
  <2>1. \A u \in S : n - u \in Nat
    OBVIOUS
  <2> QED BY <2>1
<1>2. \E x \in below : \A y \in below : <<y, x>> \notin Less
  <2> HIDE DEF below
  <2> QED BY <1>1, LessIsWellFounded, WFMin
<1>3. PICK x \in S : \A y \in S : ~(n - y < n - x)
  BY <1>1, <1>2 DEF Less
<1>4. \A y \in S : x >= y
  BY <1>3
<1> QED
  BY <1>4 DEF Max

\* The end of a vintage is the day before the next, or there is none.
LEMMA EndOfVintage ==
    ASSUME FredAssumption, NEW d \in Obs, NEW s \in Day
    PROVE  /\ TrueEnd(d, s) \in s..Forever
           /\ TrueEnd(d, s) = Forever <=> \A u \in Published(d) : u <= s
           /\ TrueEnd(d, s) # Forever => Closes(revision, d, s, TrueEnd(d, s))
<1> DEFINE after == {u \in Published(d) : u > s}
<1>1. after \in SUBSET (1..MaxDay) /\ MaxDay \in Nat /\ s \in 1..MaxDay
  BY DEF Published, Day, FredAssumption
<1>2. CASE after = {}
  BY <1>1, <1>2 DEF TrueEnd, Forever, Published, Day
<1>3. CASE after # {}
  <2>1. PICK m \in after : m = Min(after) /\ \A u \in after : m <= u
    BY <1>1, <1>3, FirstDay
  <2>2. TrueEnd(d, s) = m - 1
    BY <1>3, <2>1 DEF TrueEnd
  <2>3. Published(d) \subseteq 1..MaxDay /\ Published(d) = Vintages(revision, d)
    BY DEF Published, Day, Vintages
  <2>4. m \in Vintages(revision, d) /\ s < m /\ m \in 1..MaxDay
    BY <2>1, <2>3
  <2>5. \A u \in Vintages(revision, d) : u <= s \/ m <= u
    BY <1>1, <2>1, <2>3
  <2>6. (m - 1) + 1 = m /\ s <= m - 1 /\ m - 1 \in s..MaxDay
    BY <1>1, <2>4
  <2>7. \A u \in Vintages(revision, d) : u <= s \/ m - 1 < u
    BY <1>1, <2>3, <2>4, <2>5
  <2>8. Closes(revision, d, s, TrueEnd(d, s))
    BY <2>2, <2>4, <2>6, <2>7 DEF Closes
  <2> QED BY <1>1, <2>2, <2>3, <2>4, <2>6, <2>8 DEF Forever
<1> QED BY <1>2, <1>3

LEMMA EndIsUnique ==
    ASSUME FredAssumption, NEW d \in Obs, NEW s \in Day, NEW e \in Nat, Closes(revision, d, s, e)
    PROVE  TrueEnd(d, s) = e
<1>1. Published(d) \subseteq 1..MaxDay /\ MaxDay \in Nat /\ s \in 1..MaxDay
  BY DEF Published, Day, FredAssumption
<1>2. TrueEnd(d, s) # Forever
  BY <1>1, EndOfVintage DEF Closes, Vintages, Published
<1>3. Closes(revision, d, s, TrueEnd(d, s)) /\ TrueEnd(d, s) \in Nat
  BY <1>1, <1>2, EndOfVintage DEF Forever
<1> QED BY <1>1, <1>3 DEF Closes, Vintages, Published

\* The value in force is that of the last vintage so far.
LEMMA LastSoFar ==
    ASSUME FredAssumption, NEW d \in Obs, NEW t \in Nat
    PROVE  \/ TrueValue(d, t) = 0 /\ \A u \in Published(d) : t < u
           \/ \E s \in Published(d) :
                 /\ s <= t /\ TrueValue(d, t) = revision[d][s]
                 /\ \A u \in Published(d) : u <= s \/ t < u
<1> DEFINE known == {s \in Published(d) : s <= t}
<1>1. known \in SUBSET (1..MaxDay) /\ MaxDay \in Nat /\ Published(d) \subseteq 1..MaxDay
  BY DEF Published, Day, FredAssumption
<1>2. CASE known = {}
  BY <1>1, <1>2 DEF TrueValue
<1>3. CASE known # {}
  <2>1. Max(known) \in known /\ \A u \in known : u <= Max(known)
    BY <1>1, <1>3, LastDay
  <2>2. TrueValue(d, t) = revision[d][Max(known)]
    BY <1>3 DEF TrueValue
  <2> QED BY <1>1, <2>1, <2>2
<1> QED BY <1>2, <1>3

\* A day's publication keeps upstream in order.
LEMMA PublishedInOrder ==
    ASSUME FredAssumption, TypeOK, Upstream(revision, today),
           NEW d \in Obs, NEW v \in Value, Publish(d, v)
    PROVE  Upstream(revision', today)
<1>1. /\ MaxDay \in Nat /\ Day = 1..MaxDay /\ v # 0 /\ today \in Day
      /\ revision \in [Obs -> [Day -> Value \cup {0}]]
  BY DEF FredAssumption, Day, TypeOK
<1>2. revision' = [revision EXCEPT ![d][today] = v] /\ v # TrueValue(d, today - 1)
  BY DEF Publish
<1>3. \A s \in Vintages(revision', d) : s = today \/ s \in Vintages(revision, d)
  BY <1>1, <1>2 DEF Vintages
<1>4. Vintages(revision, d) \subseteq Vintages(revision', d)
  BY <1>1, <1>2 DEF Vintages
<1>5. \A q \in Obs \ {d} : Vintages(revision', q) = Vintages(revision, q) /\ revision'[q] = revision[q]
  BY <1>1, <1>2 DEF Vintages
<1>6. \A q \in Obs : \A s \in Vintages(revision', q) : s <= today
  BY <1>1, <1>3, <1>5 DEF Upstream
<1>7. ASSUME NEW q \in Obs, NEW s \in Vintages(revision', q), NEW u \in Vintages(revision', q), s < u,
             \A w \in Vintages(revision', q) : w <= s \/ u <= w
      PROVE  revision'[q][s] # revision'[q][u]
  <2>1. CASE q # d
    BY <1>5, <1>7, <2>1 DEF Upstream
  <2>2. CASE q = d /\ u # today
    <3>1. s \in Vintages(revision, d) /\ u \in Vintages(revision, d)
      BY <1>1, <1>3, <1>6, <1>7, <2>2 DEF Vintages
    <3>2. revision'[d][s] = revision[d][s] /\ revision'[d][u] = revision[d][u]
      BY <1>1, <1>2, <1>6, <1>7, <2>2 DEF Vintages
    <3> QED BY <1>4, <1>7, <2>2, <3>1, <3>2 DEF Upstream
  <2>3. CASE q = d /\ u = today
    <3>1. s \in Vintages(revision, d) /\ s <= today - 1
      BY <1>1, <1>3, <1>7, <2>3 DEF Vintages
    <3>2. revision'[d][u] = v /\ revision'[d][s] = revision[d][s]
      BY <1>1, <1>2, <1>7, <2>3, <3>1 DEF Vintages
    <3>3. PICK w \in Published(d) : /\ w <= today - 1 /\ TrueValue(d, today - 1) = revision[d][w]
                                    /\ \A x \in Published(d) : x <= w \/ today - 1 < x
      <4>1. today - 1 \in Nat /\ s \in Published(d)
        BY <1>1, <3>1 DEF Published, Vintages
      <4>2. ~ \A x \in Published(d) : today - 1 < x
        BY <1>1, <3>1, <4>1 DEF Vintages
      <4> QED BY <4>1, <4>2, LastSoFar
    <3>4. w = s
      BY <1>1, <1>4, <1>7, <2>3, <3>1, <3>3 DEF Published, Vintages
    <3> QED BY <1>2, <2>3, <3>2, <3>3, <3>4
  <2> QED BY <2>1, <2>2, <2>3
<1> QED BY <1>6, <1>7 DEF Upstream

\* It leaves right what is, as long as it revises nothing that was revised too
\* late for the table of the day.
LEMMA PublishedAfter ==
    ASSUME FredAssumption, TypeOK, Upstream(revision, today),
           NEW d \in Obs, NEW v \in Value, Publish(d, v),
           NEW V \in [Obs -> [Day -> Value \cup {0}]], NEW E, NEW a \in 0..today,
           Right(revision, V, E, a),
           \A e \in Obs, s \in Day : s < today /\ revision[d][s] # 0 /\ V[d][s] = 0 => V[e][s] = 0,
           \A e \in Obs, s \in Day : E[e][s] \in Nat
    PROVE  Right(revision', V, E, a)
<1>1. /\ MaxDay \in Nat /\ Day = 1..MaxDay /\ v # 0 /\ today \in Day
      /\ revision \in [Obs -> [Day -> Value \cup {0}]]
      /\ revision' = [revision EXCEPT ![d][today] = v]
  BY DEF FredAssumption, Day, TypeOK, Publish
<1>2. \A q \in Obs, s \in Day : revision'[q][s] = IF q = d /\ s = today THEN v ELSE revision[q][s]
  BY <1>1
<1>3. \A q \in Obs : \A s \in Vintages(revision', q) : s = today \/ s \in Vintages(revision, q)
  BY <1>1, <1>2 DEF Vintages
<1>4. \A q \in Obs : Vintages(revision, q) \subseteq Vintages(revision', q)
  BY <1>1, <1>2 DEF Vintages
<1>5. \A q \in Obs, s \in Day : V[q][s] # 0 => revision'[q][s] # 0 /\ s <= a
  BY <1>1, <1>2 DEF Right
<1>6. \A q \in Obs, s \in Day : revision'[q][s] # 0 /\ s < a => V[q][s] = revision'[q][s]
  BY <1>1, <1>2 DEF Right
<1>7. ASSUME NEW q \in Obs, NEW s \in Day, V[q][s] # 0, E[q][s] # Forever
      PROVE  Closes(revision', q, s, E[q][s]) /\ V[q][s] = revision'[q][s] /\ V[q][E[q][s] + 1] # 0
  <2>1. Closes(revision, q, s, E[q][s]) /\ V[q][s] = revision[q][s] /\ V[q][E[q][s] + 1] # 0
    BY <1>7 DEF Right
  <2>2. E[q][s] + 1 <= today /\ s <= E[q][s] /\ E[q][s] \in Nat
    BY <2>1 DEF Upstream, Closes
  <2>3. Closes(revision', q, s, E[q][s])
    <3>1. E[q][s] + 1 \in Vintages(revision', q) /\ \A u \in Vintages(revision, q) : u <= s \/ E[q][s] < u
      BY <1>4, <2>1 DEF Closes
    <3>2. E[q][s] < today
      BY <1>1, <2>2
    <3> QED BY <1>3, <2>2, <3>1, <3>2 DEF Closes
  <2> QED BY <1>1, <1>2, <2>1, <2>2, <2>3
<1>8. \A q \in Obs, s, u \in Day : s < u /\ V[q][s] # 0 /\ V[q][u] # 0 => E[q][s] # Forever
  BY DEF Right
<1>9. ASSUME NEW q \in Obs, NEW e \in Obs, NEW s \in Day,
             revision'[q][s] # 0, V[q][s] = 0, V[e][s] # 0, NEW u \in Vintages(revision', q)
      PROVE  u <= s
  <2>1. s <= today
    BY <1>1, <1>5, <1>9
  <2>2. \A w \in Vintages(revision', q) : w <= today
    <3>1. \A w \in Vintages(revision, q) : w <= today
      BY DEF Upstream
    <3>2. today <= today
      BY <1>1
    <3> QED BY <1>3, <3>1, <3>2
  <2>3. CASE s = today
    BY <2>2, <2>3
  <2>4. CASE s < today /\ q # d
    <3>1. revision[q][s] # 0 /\ u \in Vintages(revision, q)
      BY <1>1, <1>2, <1>9, <2>4 DEF Vintages
    <3> QED BY <1>9, <3>1 DEF Right
  <2>5. CASE s < today /\ q = d
    BY <1>1, <1>2, <1>9, <2>5
  <2> QED BY <1>1, <2>1, <2>3, <2>4, <2>5
<1> QED BY <1>5, <1>6, <1>7, <1>8, <1>9 DEF Right

-----------------------------------------------------------------------------
\* What a collection brings.

\* The row of the vintage of d that day s brought, as it is upstream now.
Vintage(d, s) == [date |-> d, start |-> s, end |-> TrueEnd(d, s), value |-> revision[d][s]]

StoredRight(d, s) == value[d][s] = revision[d][s] /\ end[d][s] = TrueEnd(d, s)

\* The rows are upstream's, and no vintage is missing among them that is not
\* stored as it is upstream.
Exact(B) ==
    /\ \A r \in B : \E d \in Obs : \E s \in Published(d) : r = Vintage(d, s)
    /\ \A d \in Obs : \A s \in Published(d) : Vintage(d, s) \in B \/ StoredRight(d, s)

\* Such rows make the table upstream's.
LEMMA ExactMerge ==
    ASSUME FredAssumption, TypeOK, Right(revision, value, end, asOf), NEW B, Exact(B),
           NEW d \in Obs, NEW s \in Day
    PROVE  /\ NewValue(B)[d][s] = revision[d][s]
           /\ s \in Published(d) => NewEnd(B)[d][s] = TrueEnd(d, s)
<1>1. ASSUME NEW r \in RowsIn(B, d, s)
      PROVE  s \in Published(d) /\ r = Vintage(d, s)
  <2>1. PICK q \in Obs : \E u \in Published(q) : r = Vintage(q, u)
    BY DEF RowsIn, Exact
  <2>2. PICK u \in Published(q) : r = Vintage(q, u)
    BY <2>1
  <2>3. q = d /\ u = s
    BY <2>2 DEF RowsIn, Vintage
  <2> QED BY <2>2, <2>3
<1>2. s \in Published(d) \/ revision[d][s] = 0
  BY DEF Published
<1>3. CASE RowsIn(B, d, s) = {}
  <2>1. NewValue(B)[d][s] = value[d][s] /\ NewEnd(B)[d][s] = end[d][s]
    BY <1>3 DEF NewValue, NewEnd
  <2>2. CASE s \in Published(d)
    <3>1. Vintage(d, s) \notin B
      BY <1>3 DEF RowsIn, Vintage
    <3> QED BY <2>1, <2>2, <3>1 DEF Exact, StoredRight
  <2>3. CASE revision[d][s] = 0
    <3>1. value[d][s] = 0
      BY <2>3 DEF Right
    <3>2. s \notin Published(d)
      BY <2>3 DEF Published
    <3> QED BY <2>1, <2>3, <3>1, <3>2
  <2> QED BY <1>2, <2>2, <2>3
<1>4. CASE RowsIn(B, d, s) # {}
  <2>1. (CHOOSE r \in RowsIn(B, d, s) : TRUE) \in RowsIn(B, d, s)
    BY <1>4
  <2>2. (CHOOSE r \in RowsIn(B, d, s) : TRUE) = Vintage(d, s)
    BY <1>1, <2>1
  <2>3. NewValue(B)[d][s] = Vintage(d, s).value /\ NewEnd(B)[d][s] = Vintage(d, s).end
    BY <1>4, <2>2 DEF NewValue, NewEnd
  <2> QED BY <2>3 DEF Vintage
<1> QED BY <1>3, <1>4

\* So it will be right as of today, and what was closed stays.
LEMMA ExactIsRight ==
    ASSUME FredAssumption, TypeOK, Upstream(revision, today), Right(revision, value, end, asOf),
           NEW B, Exact(B)
    PROVE  Right(revision, NewValue(B), NewEnd(B), today) /\ KeepsClosed(B)
<1> DEFINE V == NewValue(B)
           E == NewEnd(B)
<1>1. \A d \in Obs, s \in Day : V[d][s] = revision[d][s]
  BY ExactMerge
<1>2. \A d \in Obs : \A s \in Published(d) : s \in Day /\ revision[d][s] # 0 /\ E[d][s] = TrueEnd(d, s)
  BY ExactMerge DEF Published
<1>3. \A d \in Obs : Published(d) = Vintages(revision, d)
  BY DEF Published, Vintages
<1>4. \A d \in Obs, s \in Day : revision[d][s] # 0 => s \in Published(d) /\ s <= today
  BY <1>3 DEF Published, Upstream
<1>5. Right(revision, V, E, today)
  <2> HIDE DEF V, E
  <2>1. \A d \in Obs, s \in Day : V[d][s] # 0 /\ E[d][s] # Forever =>
          Closes(revision, d, s, E[d][s]) /\ V[d][s] = revision[d][s] /\ V[d][E[d][s] + 1] # 0
    <3> SUFFICES ASSUME NEW d \in Obs, NEW s \in Day, V[d][s] # 0, E[d][s] # Forever
                 PROVE  Closes(revision, d, s, E[d][s]) /\ V[d][s] = revision[d][s] /\ V[d][E[d][s] + 1] # 0
      OBVIOUS
    <3>1. E[d][s] = TrueEnd(d, s)
      BY <1>1, <1>2, <1>4
    <3>2. Closes(revision, d, s, E[d][s])
      BY <3>1, EndOfVintage
    <3>3. E[d][s] + 1 \in Published(d)
      BY <1>3, <3>2 DEF Closes
    <3> QED BY <1>1, <1>2, <3>2, <3>3
  <2>2. \A d \in Obs, s, u \in Day : s < u /\ V[d][s] # 0 /\ V[d][u] # 0 => E[d][s] # Forever
    <3> SUFFICES ASSUME NEW d \in Obs, NEW s \in Day, NEW u \in Day, s < u, V[d][s] # 0, V[d][u] # 0
                 PROVE  E[d][s] # Forever
      OBVIOUS
    <3>1. E[d][s] = TrueEnd(d, s) /\ u \in Published(d) /\ ~(u <= s)
      BY <1>1, <1>2, <1>4 DEF Day, FredAssumption
    <3> QED BY <3>1, EndOfVintage
  <2> QED BY <1>1, <1>4, <2>1, <2>2 DEF Right
<1>6. KeepsClosed(B)
  <2> SUFFICES ASSUME NEW d \in Obs, NEW s \in Day, value[d][s] # 0, end[d][s] # Forever
               PROVE  V[d][s] = value[d][s] /\ E[d][s] = end[d][s]
    BY DEF KeepsClosed
  <2>1. Closes(revision, d, s, end[d][s]) /\ value[d][s] = revision[d][s]
    BY DEF Right
  <2>2. end[d][s] \in Nat
    BY DEF TypeOK, Forever, FredAssumption
  <2>3. TrueEnd(d, s) = end[d][s]
    BY <2>1, <2>2, EndIsUnique
  <2> HIDE DEF V, E
  <2> QED BY <1>1, <1>2, <1>4, <2>1, <2>3
<1> QED BY <1>5, <1>6

\* A whole history is exact.
LEMMA HistoryIsExact == ASSUME FredAssumption PROVE Exact(FullHistory)
BY DEF FullHistory, Exact, Vintage

\* The boundary is the last day a stored vintage starts on.
LEMMA LastStored ==
    ASSUME FredAssumption, TypeOK, Right(revision, value, end, asOf), StoredStarts # {}
    PROVE  /\ Boundary \in Day /\ Boundary <= asOf
           /\ \E e \in Obs : value[e][Boundary] # 0
           /\ \A d \in Obs, s \in Day : value[d][s] # 0 => s <= Boundary
<1>1. StoredStarts \in SUBSET (1..MaxDay) /\ MaxDay \in Nat
  BY DEF StoredStarts, Day, FredAssumption
<1>2. Boundary \in StoredStarts /\ \A s \in StoredStarts : s <= Boundary
  BY <1>1, LastDay DEF Boundary
<1>3. \A d \in Obs, s \in Day : value[d][s] # 0 => s \in StoredStarts
  BY DEF StoredStarts
<1>4. Boundary \in Day /\ \E e \in Obs : value[e][Boundary] # 0
  BY <1>2 DEF StoredStarts
<1> QED BY <1>2, <1>3, <1>4 DEF Right

\* At most one stored vintage is open, and no later one is stored.
LEMMA OpenIsLast ==
    ASSUME FredAssumption, TypeOK, Right(revision, value, end, asOf), NEW d \in Obs, NEW p \in OpenStarts(d)
    PROVE  Max(OpenStarts(d)) = p /\ \A u \in Day : value[d][u] # 0 => u <= p
<1>1. MaxDay \in Nat /\ Day = 1..MaxDay /\ p \in Day /\ value[d][p] # 0 /\ end[d][p] = Forever
  BY DEF FredAssumption, Day, OpenStarts
<1>2. \A u \in Day : value[d][u] # 0 => ~(p < u)
  BY <1>1 DEF Right
<1>3. \A u \in Day : value[d][u] # 0 => u <= p
  BY <1>1, <1>2
<1>4. OpenStarts(d) \in SUBSET (1..MaxDay) /\ OpenStarts(d) # {}
  BY <1>1 DEF OpenStarts
<1>5. Max(OpenStarts(d)) \in OpenStarts(d) /\ p <= Max(OpenStarts(d))
  BY <1>1, <1>4, LastDay
<1>6. Max(OpenStarts(d)) <= p /\ Max(OpenStarts(d)) \in Day
  BY <1>3, <1>5 DEF OpenStarts
<1> QED BY <1>1, <1>3, <1>5, <1>6

\* And the last one stored is open.
LEMMA LastIsOpen ==
    ASSUME FredAssumption, TypeOK, Right(revision, value, end, asOf), StoredStarts # {},
           NEW d \in Obs, NEW s \in Day, value[d][s] # 0,
           \A u \in Day : value[d][u] # 0 => u <= s
    PROVE  s \in OpenStarts(d)
<1>1. MaxDay \in Nat /\ Day = 1..MaxDay /\ s \in Day /\ end[d][s] \in 0..Forever
  BY DEF FredAssumption, Day, TypeOK
<1>2. ASSUME end[d][s] # Forever PROVE FALSE
  <2>1. s <= end[d][s] /\ end[d][s] + 1 \in Day /\ value[d][end[d][s] + 1] # 0
    BY <1>2 DEF Right, Closes, Vintages
  <2>2. end[d][s] + 1 <= s
    BY <2>1
  <2> QED BY <1>1, <2>1, <2>2 DEF Forever
<1>3. s <= Boundary
  BY LastStored
<1> QED BY <1>2, <1>3 DEF OpenStarts

\* The row the window clipped to the boundary is filtered into vintages, its own
\* unless that is stored as it is, and the one it ends if that is still open.
LEMMA BoundaryRow ==
    ASSUME FredAssumption, TypeOK, Upstream(revision, today), Right(revision, value, end, asOf),
           StoredStarts # {},
           NEW d \in Obs, NEW s \in Published(d), s <= Boundary, Boundary <= TrueEnd(d, s),
           NEW r, r = [date |-> d, start |-> Boundary, end |-> TrueEnd(d, s), value |-> revision[d][s]]
    PROVE  /\ \A x \in Filtered(r, Boundary) : \E u \in Published(d) : x = Vintage(d, u)
           /\ Vintage(d, s) \in Filtered(r, Boundary) \/ StoredRight(d, s)
           /\ \A p \in Published(d) :
                 TrueEnd(d, p) = Boundary - 1 /\ value[d][Boundary] = 0 =>
                     Vintage(d, p) \in Filtered(r, Boundary)
<1> DEFINE b == Boundary
           open == OpenStarts(d)
           F == Filtered(r, b)
<1>1. /\ MaxDay \in Nat /\ Day = 1..MaxDay /\ s \in Day /\ b \in Day /\ b <= asOf /\ asOf \in Nat
      /\ s <= b /\ Forever = MaxDay + 1
  <2>1. b \in Day /\ b <= asOf
    BY LastStored
  <2>2. MaxDay \in Nat /\ Day = 1..MaxDay /\ Forever = MaxDay + 1 /\ s \in Day /\ asOf \in 0..today /\ today \in Day
    BY DEF FredAssumption, Day, TypeOK, Published, Forever
  <2> QED BY <2>1, <2>2
<1>2. \A u \in Published(d) : u \in Day /\ revision[d][u] # 0
  BY DEF Published
<1>3. \A u \in Published(d) : u < b => value[d][u] = revision[d][u] /\ value[d][u] # 0
  BY <1>1, <1>2 DEF Right
<1>4. \A u \in Day : value[d][u] # 0 => u \in Published(d) /\ u <= b
  BY LastStored DEF Right, Published
<1>5. Published(d) = Vintages(revision, d)
  BY DEF Published, Vintages
<1>6. TrueEnd(d, s) \in s..Forever /\ \A u \in Published(d) : u <= s \/ TrueEnd(d, s) < u
  <2>1. CASE TrueEnd(d, s) = Forever
    BY <1>1, <2>1, EndOfVintage
  <2>2. CASE TrueEnd(d, s) # Forever
    <3>1. Closes(revision, d, s, TrueEnd(d, s))
      BY <1>1, <2>2, EndOfVintage
    <3>2. TrueEnd(d, s) \in s..Forever
      BY <1>1, EndOfVintage
    <3> QED BY <1>5, <3>1, <3>2 DEF Closes
  <2> QED BY <2>1, <2>2
<1>7. \A u \in Published(d) : u <= s \/ b < u
  <2> SUFFICES ASSUME NEW u \in Published(d), ~(u <= s) PROVE b < u
    OBVIOUS
  <2>1. TrueEnd(d, s) < u
    BY <1>6
  <2>2. u \in 1..MaxDay
    BY <1>1, <1>2
  <2>3. TrueEnd(d, s) \in s..Forever /\ b <= TrueEnd(d, s)
    BY <1>6
  <2> HIDE DEF b
  <2> QED BY <1>1, <2>1, <2>2, <2>3
<1>8. ASSUME NEW p \in Published(d), TrueEnd(d, p) = b - 1, value[d][b] = 0
      PROVE  s = b /\ p \in open
  <2>1. Closes(revision, d, p, b - 1)
    BY <1>1, <1>2, <1>8, EndOfVintage
  <2>2. p <= b - 1 /\ b \in Published(d) /\ \A u \in Published(d) : u <= p \/ b - 1 < u
    BY <1>1, <1>5, <2>1 DEF Closes
  <2>3. s = b
    BY <1>1, <1>7, <2>2
  <2>4. p < b /\ p \in Day
    BY <1>1, <1>2, <2>2
  <2>5. value[d][p] # 0
    BY <1>3, <2>4
  <2>6. \A u \in Day : value[d][u] # 0 => u <= p
    BY <1>1, <1>4, <1>8, <2>2
  <2> QED BY <2>3, <2>4, <2>5, <2>6, LastIsOpen
<1>9. CASE open = {}
  <2>1. s = b
    <3>1. SUFFICES ASSUME s < b PROVE FALSE
      BY <1>1
    <3>2. value[d][s] # 0
      BY <1>3, <3>1
    <3>3. \A u \in Day : value[d][u] # 0 => u <= s
      BY <1>1, <1>4, <1>7
    <3> QED BY <1>1, <1>9, <3>2, <3>3, LastIsOpen
  <2>2. F = {r} /\ r = Vintage(d, s)
    BY <1>9, <2>1 DEF Filtered, Vintage
  <2> QED BY <1>8, <1>9, <2>2
<1>10. CASE open # {}
  <2>1. PICK p \in open : TRUE
    BY <1>10
  <2>2. Max(open) = p /\ \A u \in Day : value[d][u] # 0 => u <= p
    BY <2>1, OpenIsLast
  <2>3. p \in Day /\ value[d][p] # 0 /\ end[d][p] = Forever /\ p \in Published(d) /\ p <= b /\ p <= s
    BY <1>1, <1>4, <1>7, <2>1 DEF OpenStarts
  <2>4. ASSUME p # s
        PROVE  /\ s = b /\ p < b /\ value[d][b] = 0 /\ TrueEnd(d, s) = Forever /\ TrueEnd(d, p) = b - 1
               /\ value[d][p] = revision[d][p] /\ revision[d][p] # revision[d][s]
    <3>1. p < s
      BY <1>1, <2>3, <2>4
    <3>2. value[d][s] = 0
      BY <1>1, <2>2, <2>3, <3>1
    <3>3. s = b
      BY <1>1, <1>3, <3>2
    <3>4. p < b /\ value[d][p] = revision[d][p]
      BY <1>3, <2>3, <3>1, <3>3
    <3>5. PICK e \in Obs : value[e][b] # 0
      BY LastStored
    <3>6. \A u \in Published(d) : u <= s
      BY <1>2, <1>5, <3>2, <3>3, <3>5 DEF Right
    <3>7. TrueEnd(d, s) = Forever
      BY <1>1, <3>6, EndOfVintage
    <3>8. \A u \in Published(d) : u <= p \/ b <= u
      <4> SUFFICES ASSUME NEW u \in Published(d), ~(b <= u) PROVE u <= p
        OBVIOUS
      <4>1. u \in Day /\ u < b
        <5>1. u \in 1..MaxDay /\ b \in 1..MaxDay /\ MaxDay \in Nat
          BY <1>1, <1>2
        <5> HIDE DEF b
        <5> QED BY <1>1, <5>1
      <4>2. value[d][u] # 0
        BY <1>3, <4>1
      <4> QED BY <2>2, <4>1, <4>2
    <3>9. revision[d][p] # revision[d][s]
      BY <1>5, <2>3, <3>1, <3>3, <3>8 DEF Upstream
    <3>10. Closes(revision, d, p, b - 1)
      <4>1. p <= b - 1 /\ (b - 1) + 1 = b /\ b \in Published(d)
        BY <1>1, <2>3, <3>3, <3>4
      <4>2. \A u \in Published(d) : u <= p \/ b - 1 < u
        BY <1>1, <1>2, <3>8
      <4> QED BY <1>5, <4>1, <4>2 DEF Closes
    <3>11. TrueEnd(d, p) = b - 1
      BY <1>1, <2>3, <3>10, EndIsUnique
    <3> QED BY <3>2, <3>3, <3>4, <3>7, <3>9, <3>11
  <2>5. ASSUME NEW q \in Published(d), TrueEnd(d, q) = b - 1, value[d][b] = 0
        PROVE  q = p /\ s = b /\ p # s
    <3>1. s = b /\ q \in open
      BY <1>8, <2>5
    <3>2. Max(open) = q
      BY <3>1, OpenIsLast
    <3> QED BY <2>2, <2>3, <2>5, <3>1, <3>2
  <2>6. r.start = b /\ r.end = TrueEnd(d, s) /\ r.value = revision[d][s] /\ r.date = d
    OBVIOUS
  <2>7. CASE r.end # Forever
    <3>1. p = s
      BY <2>4, <2>6, <2>7
    <3>2. F = {[r EXCEPT !.start = p]}
      BY <1>10, <2>2, <2>6, <2>7 DEF Filtered
    <3>3. [r EXCEPT !.start = p] = Vintage(d, s)
      BY <3>1 DEF Vintage
    <3> QED BY <2>5, <3>1, <3>2, <3>3
  <2>8. CASE r.end = Forever /\ r.value = value[d][p]
    <3>1. p = s
      BY <2>4, <2>6, <2>8
    <3>2. F = {}
      BY <1>10, <2>2, <2>6, <2>8 DEF Filtered
    <3>3. StoredRight(d, s)
      BY <2>3, <2>6, <2>8, <3>1 DEF StoredRight
    <3> QED BY <2>5, <3>1, <3>2, <3>3
  <2>9. CASE r.end = Forever /\ r.value # value[d][p] /\ p = b
    <3>1. p = s
      BY <1>1, <2>3, <2>9
    <3>2. F = {r}
      BY <1>10, <2>2, <2>6, <2>9 DEF Filtered
    <3>3. r = Vintage(d, s)
      BY <2>9, <3>1 DEF Vintage
    <3> QED BY <2>5, <3>1, <3>2, <3>3
  <2>10. CASE r.end = Forever /\ r.value # value[d][p] /\ p # b
    <3>1. p # s
      BY <1>1, <1>3, <2>3, <2>6, <2>10
    <3>2. F = {r} \cup {[date |-> d, start |-> p, end |-> b - 1, value |-> value[d][p]]}
      BY <1>10, <2>2, <2>6, <2>10 DEF Filtered
    <3>3. r = Vintage(d, s)
      BY <2>4, <3>1 DEF Vintage
    <3>4. [date |-> d, start |-> p, end |-> b - 1, value |-> value[d][p]] = Vintage(d, p)
      BY <2>4, <3>1 DEF Vintage
    <3> QED BY <2>3, <2>5, <3>2, <3>3, <3>4
  <2> QED BY <2>7, <2>8, <2>9, <2>10
<1> QED BY <1>9, <1>10

\* A window from the boundary on brings all that is missing.
LEMMA WindowIsExact ==
    ASSUME FredAssumption, TypeOK, Upstream(revision, today), Right(revision, value, end, asOf),
           StoredStarts # {}
    PROVE  Exact(UNION {Filtered(r, Boundary) : r \in Response(Boundary)})
<1> DEFINE b == Boundary
           row(d, s) == [date |-> d, start |-> (IF s < b THEN b ELSE s), end |-> TrueEnd(d, s),
                         value |-> revision[d][s]]
           all == UNION {Filtered(r, b) : r \in Response(b)}
<1>1. /\ MaxDay \in Nat /\ Day = 1..MaxDay /\ b \in Day /\ b <= asOf /\ asOf \in Nat /\ Forever = MaxDay + 1
  <2>1. b \in Day /\ b <= asOf
    BY LastStored
  <2>2. MaxDay \in Nat /\ Day = 1..MaxDay /\ Forever = MaxDay + 1 /\ asOf \in 0..today /\ today \in Day
    BY DEF FredAssumption, Day, TypeOK, Forever
  <2> QED BY <2>1, <2>2
<1>2. \A d \in Obs : Published(d) = Vintages(revision, d) /\ \A s \in Published(d) : s \in Day /\ revision[d][s] # 0
  BY DEF Published, Vintages
<1>3. \A r \in Response(b) : \E d \in Obs : \E s \in Published(d) : r = row(d, s) /\ TrueEnd(d, s) >= b
  BY DEF Response
<1>4. \A d \in Obs : \A s \in Published(d) : TrueEnd(d, s) >= b => row(d, s) \in Response(b)
  BY DEF Response
<1>5. ASSUME NEW d \in Obs, NEW s \in Published(d), s > b
      PROVE  Filtered(row(d, s), b) = {Vintage(d, s)}
  <2>1. row(d, s) = Vintage(d, s) /\ s # b
    BY <1>1, <1>2, <1>5 DEF Vintage
  <2>2. Vintage(d, s).start # b
    BY <2>1 DEF Vintage
  <2> QED BY <2>1, <2>2 DEF Filtered
<1>6. ASSUME NEW d \in Obs, NEW s \in Published(d), s <= b, TrueEnd(d, s) >= b
      PROVE  /\ \A x \in Filtered(row(d, s), b) : \E u \in Published(d) : x = Vintage(d, u)
             /\ Vintage(d, s) \in Filtered(row(d, s), b) \/ StoredRight(d, s)
             /\ \A p \in Published(d) :
                   TrueEnd(d, p) = b - 1 /\ value[d][b] = 0 => Vintage(d, p) \in Filtered(row(d, s), b)
  <2>1. row(d, s) = [date |-> d, start |-> b, end |-> TrueEnd(d, s), value |-> revision[d][s]]
    BY <1>1, <1>2, <1>6
  <2>2. b <= TrueEnd(d, s)
    BY <1>1, <1>2, <1>6, EndOfVintage
  <2> HIDE DEF row
  <2> QED BY <1>6, <2>1, <2>2, BoundaryRow
<1>7. ASSUME NEW x \in all
      PROVE  \E d \in Obs : \E s \in Published(d) : x = Vintage(d, s)
  <2>1. PICK r \in Response(b) : x \in Filtered(r, b)
    OBVIOUS
  <2>2. PICK d \in Obs : \E s \in Published(d) : r = row(d, s) /\ TrueEnd(d, s) >= b
    BY <1>3
  <2>3. PICK s \in Published(d) : r = row(d, s) /\ TrueEnd(d, s) >= b
    BY <2>2
  <2>4. s > b \/ s <= b
    BY <1>1, <1>2
  <2> HIDE DEF row, b
  <2> QED BY <1>5, <1>6, <2>1, <2>3, <2>4
<1>8. ASSUME NEW d \in Obs, NEW s \in Published(d)
      PROVE  Vintage(d, s) \in all \/ StoredRight(d, s)
  <2>1. s \in Day /\ TrueEnd(d, s) \in s..Forever
    BY <1>2, EndOfVintage
  <2>2. CASE TrueEnd(d, s) >= b
    <3>1. row(d, s) \in Response(b)
      BY <1>4, <2>2
    <3>2. Vintage(d, s) \in Filtered(row(d, s), b) \/ StoredRight(d, s)
      <4> HIDE DEF row
      <4>1. CASE s > b
        BY <1>5, <4>1
      <4>2. CASE s <= b
        BY <1>6, <2>2, <4>2
      <4> QED BY <1>1, <2>1, <4>1, <4>2
    <3> HIDE DEF row
    <3> QED BY <3>1, <3>2
  <2>3. CASE TrueEnd(d, s) < b
    <3> DEFINE u == TrueEnd(d, s) + 1
    <3>1. TrueEnd(d, s) # Forever /\ s < b /\ TrueEnd(d, s) \in Nat /\ u \in Nat /\ s < u /\ u <= b
      BY <1>1, <2>1, <2>3
    <3>2. Closes(revision, d, s, TrueEnd(d, s))
      BY <2>1, <3>1, EndOfVintage
    <3>3. u \in Published(d)
      BY <1>2, <3>2 DEF Closes
    <3>4. value[d][s] = revision[d][s] /\ value[d][s] # 0
      BY <1>1, <1>2, <3>1 DEF Right
    <3>5. ASSUME end[d][s] # Forever PROVE StoredRight(d, s)
      <4>1. Closes(revision, d, s, end[d][s]) /\ end[d][s] \in Nat
        BY <2>1, <3>4, <3>5 DEF Right, TypeOK, Forever, FredAssumption
      <4>2. TrueEnd(d, s) = end[d][s]
        BY <2>1, <4>1, EndIsUnique
      <4> QED BY <3>4, <4>2 DEF StoredRight
    <3>6. CASE value[d][u] # 0
      <4>1. end[d][s] # Forever
        BY <1>2, <2>1, <3>1, <3>3, <3>4, <3>6 DEF Right
      <4> QED BY <3>5, <4>1
    <3>7. CASE value[d][u] = 0
      <4>1. ~(u < b)
        <5> SUFFICES ASSUME u < b PROVE FALSE
          OBVIOUS
        <5>1. u \in Day /\ revision[d][u] # 0 /\ u < asOf
          BY <1>1, <1>2, <3>1, <3>3
        <5> HIDE DEF u
        <5> QED BY <3>7, <5>1 DEF Right
      <4>2. u = b /\ TrueEnd(d, s) = b - 1 /\ value[d][b] = 0
        BY <1>1, <3>1, <3>7, <4>1
      <4>3. b \in Published(d) /\ b <= b
        BY <1>1, <3>3, <4>2
      <4>4. TrueEnd(d, b) >= b
        BY <1>1, EndOfVintage
      <4>5. Vintage(d, s) \in Filtered(row(d, b), b)
        <5> HIDE DEF row
        <5> QED BY <1>6, <4>2, <4>3, <4>4
      <4>6. row(d, b) \in Response(b)
        BY <1>4, <4>3, <4>4
      <4> HIDE DEF row
      <4> QED BY <4>5, <4>6
    <3> QED BY <3>6, <3>7
  <2>4. TrueEnd(d, s) >= b \/ TrueEnd(d, s) < b
    BY <1>1, <2>1
  <2> QED BY <2>2, <2>3, <2>4
<1> QED BY <1>7, <1>8 DEF Exact

-----------------------------------------------------------------------------
\* The invariant.

LEMMA NewTableHasItsTypes ==
    ASSUME FredAssumption, TypeOK
    PROVE  /\ NewValue(blob) \in [Obs -> [Day -> Value \cup {0}]]
           /\ NewEnd(blob) \in [Obs -> [Day -> 0..Forever]]
<1>1. ASSUME NEW d \in Obs, NEW s \in Day, RowsIn(blob, d, s) # {}
      PROVE  (CHOOSE r \in RowsIn(blob, d, s) : TRUE) \in blob
  BY <1>1 DEF RowsIn
<1>2. ASSUME NEW d \in Obs, NEW s \in Day
      PROVE  (IF RowsIn(blob, d, s) = {} THEN value[d][s] ELSE (CHOOSE r \in RowsIn(blob, d, s) : TRUE).value)
                \in Value \cup {0}
  BY <1>1 DEF TypeOK, Row
<1>3. ASSUME NEW d \in Obs, NEW s \in Day
      PROVE  (IF RowsIn(blob, d, s) = {} THEN end[d][s] ELSE (CHOOSE r \in RowsIn(blob, d, s) : TRUE).end)
                \in 0..Forever
  BY <1>1 DEF TypeOK, Row
<1> QED BY <1>2, <1>3 DEF NewValue, NewEnd

\* A row of the new table on a day the stored one lacks comes from a row.
LEMMA NewRowsAreRows ==
    ASSUME FredAssumption, TypeOK, NEW d \in Obs, NEW s \in Day
    PROVE  /\ NewValue(blob)[d][s] = 0 => value[d][s] = 0
           /\ NewValue(blob)[d][s] # 0 => value[d][s] # 0 \/ \E r \in blob : r.start = s
<1>1. CASE RowsIn(blob, d, s) = {}
  BY <1>1 DEF NewValue
<1>2. CASE RowsIn(blob, d, s) # {}
  <2>1. PICK r \in blob : r = (CHOOSE x \in RowsIn(blob, d, s) : TRUE) /\ r.start = s
    BY <1>2 DEF RowsIn
  <2>2. NewValue(blob)[d][s] = r.value
    BY <1>2, <2>1 DEF NewValue
  <2>3. r.value # 0
    BY <2>1 DEF TypeOK, Row, FredAssumption
  <2> QED BY <2>1, <2>2, <2>3
<1> QED BY <1>1, <1>2

LEMMA InitFredInv == ASSUME FredAssumption, Init PROVE FredInv
<1>1. TypeOK
  <2>1. MaxDay \in Nat /\ 1 \in 1..MaxDay /\ 0 \in 0..MaxDay + 1 /\ 0 \in 0..1
    BY DEF FredAssumption
  <2> QED BY <2>1 DEF Init, TypeOK, Day, Forever
<1>2. Upstream(revision, today)
  BY DEF Init, Upstream, Vintages
<1>3. Right(revision, value, end, asOf)
  BY DEF Init, Right, Vintages
<1> QED BY <1>1, <1>2, <1>3 DEF FredInv, Init

LEMMA PublishKeepsInv ==
    ASSUME FredAssumption, FredInv, NEW d \in Obs, NEW v \in Value, Publish(d, v)
    PROVE  FredInv'
<1>1. TypeOK /\ Upstream(revision, today) /\ Right(revision, value, end, asOf)
  BY DEF FredInv
<1>2. /\ revision' = [revision EXCEPT ![d][today] = v]
      /\ today' = today /\ value' = value /\ end' = end /\ blob' = blob /\ fetched' = fetched /\ asOf' = asOf
  BY DEF Publish, stored
<1>3. ~RevisedLate(d)
  BY DEF Publish, FredAssumption
<1>4. TypeOK'
  BY <1>1, <1>2 DEF TypeOK, Row, Day, Forever
<1>5. Upstream(revision', today)
  BY <1>1, PublishedInOrder
<1>6. Right(revision', value, end, asOf)
  <2>1. \A e \in Obs, s \in Day : s < today /\ revision[d][s] # 0 /\ value[d][s] = 0 => value[e][s] = 0
    BY <1>3 DEF RevisedLate, Published
  <2>2. \A e \in Obs, s \in Day : end[e][s] \in Nat
    BY <1>1 DEF TypeOK, Forever, FredAssumption
  <2>3. value \in [Obs -> [Day -> Value \cup {0}]] /\ asOf \in 0..today
    BY <1>1 DEF TypeOK
  <2> QED BY <1>1, <2>1, <2>2, <2>3, PublishedAfter
<1>7. ASSUME fetched # 0
      PROVE  Right(revision', NewValue(blob), NewEnd(blob), fetched) /\ KeepsClosed(blob)
  <2>1. \A e \in Obs, s \in Day : s < today /\ revision[d][s] # 0 /\ NewValue(blob)[d][s] = 0 => NewValue(blob)[e][s] = 0
    BY <1>1, <1>3, NewRowsAreRows DEF RevisedLate, Published
  <2>2. \A e \in Obs, s \in Day : NewEnd(blob)[e][s] \in Nat
    <3>1. NewEnd(blob) \in [Obs -> [Day -> 0..Forever]]
      BY <1>1, NewTableHasItsTypes
    <3>2. 0..Forever \subseteq Nat
      BY DEF Forever, FredAssumption
    <3> HIDE DEF NewEnd
    <3> QED BY <3>1, <3>2
  <2>3. NewValue(blob) \in [Obs -> [Day -> Value \cup {0}]] /\ fetched \in 0..today
    BY <1>1, NewTableHasItsTypes DEF TypeOK
  <2>4. Right(revision, NewValue(blob), NewEnd(blob), fetched) /\ KeepsClosed(blob)
    BY <1>7 DEF FredInv
  <2> QED BY <1>1, <2>1, <2>2, <2>3, <2>4, PublishedAfter
<1>8. (NewValue(blob))' = NewValue(blob) /\ (NewEnd(blob))' = NewEnd(blob)
  BY <1>2 DEF NewValue, NewEnd
<1>9. KeepsClosed(blob) <=> (KeepsClosed(blob))'
  BY <1>2, <1>8 DEF KeepsClosed
<1> QED BY <1>2, <1>4, <1>5, <1>6, <1>7, <1>8, <1>9 DEF FredInv

LEMMA CollectKeepsInv ==
    ASSUME FredAssumption, FredInv, NEW backfill \in BOOLEAN, Collect(backfill)
    PROVE  FredInv'
<1>1. TypeOK /\ Upstream(revision, today) /\ Right(revision, value, end, asOf)
  BY DEF FredInv
<1>2. /\ today' = today /\ revision' = revision /\ value' = value /\ end' = end /\ asOf' = asOf
      /\ fetched' = today
  BY DEF Collect, stored
<1>3. Exact(blob')
  <2>1. CASE backfill \/ StoredStarts = {}
    BY <2>1, HistoryIsExact DEF Collect
  <2>2. CASE ~(backfill \/ StoredStarts = {})
    BY <1>1, <2>2, WindowIsExact DEF Collect
  <2> QED BY <2>1, <2>2
<1>4. Right(revision, NewValue(blob'), NewEnd(blob'), today) /\ KeepsClosed(blob')
  BY <1>1, <1>3, ExactIsRight
<1>5. \A r \in blob' : r \in Row /\ r.start <= r.end
  <2> SUFFICES ASSUME NEW r \in blob' PROVE r \in Row /\ r.start <= r.end
    OBVIOUS
  <2>1. PICK d \in Obs : \E s \in Published(d) : r = Vintage(d, s)
    BY <1>3 DEF Exact
  <2>2. PICK s \in Published(d) : r = Vintage(d, s)
    BY <2>1
  <2>3. s \in Day /\ revision[d][s] \in Value /\ TrueEnd(d, s) \in s..Forever
    BY <1>1, EndOfVintage DEF Published, TypeOK
  <2>4. s <= TrueEnd(d, s) /\ TrueEnd(d, s) \in 0..Forever
    BY <2>3 DEF Day, Forever, FredAssumption
  <2> QED BY <2>2, <2>3, <2>4 DEF Vintage, Row
<1>6. TypeOK'
  <2>1. today \in 0..today
    BY <1>1 DEF TypeOK, Day, FredAssumption
  <2> QED BY <1>1, <1>2, <1>5, <2>1 DEF TypeOK, Row, Day, Forever
<1>7. (NewValue(blob))' = NewValue(blob') /\ (NewEnd(blob))' = NewEnd(blob')
  BY <1>2 DEF NewValue, NewEnd
<1>8. (KeepsClosed(blob))'
  BY <1>2, <1>4, <1>7 DEF KeepsClosed
<1> QED BY <1>1, <1>2, <1>4, <1>6, <1>7, <1>8 DEF FredInv

LEMMA NormalizeKeepsInv ==
    ASSUME FredAssumption, FredInv, Normalize
    PROVE  FredInv' /\ KeepsClosed(blob) /\ value' = NewValue(blob) /\ end' = NewEnd(blob)
<1>1. TypeOK /\ Upstream(revision, today) /\ Right(revision, NewValue(blob), NewEnd(blob), fetched) /\ KeepsClosed(blob)
  BY DEF FredInv, Normalize
<1>2. /\ value' = NewValue(blob) /\ end' = NewEnd(blob)
      /\ today' = today /\ revision' = revision /\ asOf' = fetched /\ fetched' = 0 /\ blob' = {}
  BY DEF Normalize, NewValue, NewEnd, RowsAt, RowsIn
<1>3. TypeOK'
  <2>1. 0 \in 0..today
    BY <1>1 DEF TypeOK, Day, FredAssumption
  <2> QED BY <1>1, <1>2, <2>1, NewTableHasItsTypes DEF TypeOK, Row, Day, Forever
<1> QED BY <1>1, <1>2, <1>3 DEF FredInv

LEMMA OthersKeepInv ==
    ASSUME FredAssumption, FredInv, NextDay \/ Drop \/ UNCHANGED vars
    PROVE  FredInv'
<1>1. TypeOK /\ Upstream(revision, today) /\ Right(revision, value, end, asOf)
  BY DEF FredInv
<1>2. CASE NextDay
  <2>1. /\ today' = today + 1 /\ today < MaxDay /\ revision' = revision
        /\ value' = value /\ end' = end /\ blob' = blob /\ fetched' = fetched /\ asOf' = asOf
    BY <1>2 DEF NextDay, stored
  <2>2. /\ MaxDay \in Nat /\ today \in 1..MaxDay /\ fetched \in 0..today /\ asOf \in 0..today
    BY <1>1 DEF TypeOK, Day, FredAssumption
  <2>3. today' \in 1..MaxDay /\ fetched' \in 0..today' /\ asOf' \in 0..today'
    BY <2>1, <2>2
  <2>4. TypeOK'
    BY <1>1, <2>1, <2>3 DEF TypeOK, Row, Day, Forever
  <2>5. Upstream(revision, today + 1)
    <3>1. \A d \in Obs : \A s \in Vintages(revision, d) : s <= today + 1
      BY <1>1, <2>2 DEF Upstream, Vintages, Day
    <3> QED BY <1>1, <3>1 DEF Upstream
  <2>6. (NewValue(blob))' = NewValue(blob) /\ (NewEnd(blob))' = NewEnd(blob)
    BY <2>1 DEF NewValue, NewEnd
  <2>7. KeepsClosed(blob) => (KeepsClosed(blob))'
    BY <2>1, <2>6 DEF KeepsClosed
  <2> QED BY <1>1, <2>1, <2>4, <2>5, <2>6, <2>7 DEF FredInv
<1>3. CASE Drop
  <2>1. /\ today' = today /\ revision' = revision /\ value' = value /\ end' = end /\ asOf' = asOf
        /\ fetched' = 0 /\ blob' = {}
    BY <1>3 DEF Drop, stored
  <2>2. 0 \in 0..today
    BY <1>1 DEF TypeOK, Day, FredAssumption
  <2>3. TypeOK'
    BY <1>1, <2>1, <2>2 DEF TypeOK, Row, Day, Forever
  <2> QED BY <1>1, <2>1, <2>3 DEF FredInv
<1>4. CASE UNCHANGED vars
  <2>1. /\ today' = today /\ revision' = revision /\ value' = value /\ end' = end /\ asOf' = asOf
        /\ fetched' = fetched /\ blob' = blob
    BY <1>4 DEF vars, stored
  <2>2. (NewValue(blob))' = NewValue(blob) /\ (NewEnd(blob))' = NewEnd(blob)
    BY <2>1 DEF NewValue, NewEnd
  <2>3. KeepsClosed(blob) => (KeepsClosed(blob))'
    BY <2>1, <2>2 DEF KeepsClosed
  <2>4. TypeOK'
    BY <1>1, <2>1 DEF TypeOK, Row, Day, Forever
  <2> QED BY <1>1, <2>1, <2>2, <2>3, <2>4 DEF FredInv
<1> QED BY <1>2, <1>3, <1>4

LEMMA NextFredInv == ASSUME FredAssumption, FredInv, [Next]_vars PROVE FredInv'
<1>1. ASSUME NEW d \in Obs, NEW v \in Value, Publish(d, v) PROVE FredInv'
  BY <1>1, PublishKeepsInv
<1>2. ASSUME NEW backfill \in BOOLEAN, Collect(backfill) PROVE FredInv'
  BY <1>2, CollectKeepsInv
<1>3. CASE Normalize
  BY <1>3, NormalizeKeepsInv
<1>4. CASE NextDay \/ Drop \/ UNCHANGED vars
  BY <1>4, OthersKeepInv
<1> QED BY <1>1, <1>2, <1>3, <1>4 DEF Next

\* Where no observation revised late on a boundary day is revised again before
\* the next request (FredAssumption), what is stored is right as of the last
\* normalized collection, and what waits will be right as of its own.
THEOREM FredSafety == ASSUME FredAssumption PROVE Spec => []FredInv
<1>1. Init => FredInv
  BY InitFredInv
<1>2. FredInv /\ [Next]_vars => FredInv'
  BY NextFredInv
<1> QED BY <1>1, <1>2, PTL DEF Spec

-----------------------------------------------------------------------------
\* The properties.

\* The types, and no interval handed to the normalizer ends before it starts.
THEOREM FredTypes == ASSUME FredAssumption PROVE Spec => []TypeOK
<1>1. FredInv => TypeOK
  BY DEF FredInv
<1> QED BY <1>1, FredSafety, PTL

\* A stored key is a day the source gave, so no start that was clipped.
LEMMA RightHasNoPseudo == ASSUME FredInv PROVE NoPseudoVintages
BY DEF FredInv, Right, NoPseudoVintages, Published

\* Every stored vintage is one the source has: a start the request's window
\* clipped (fred.py's pseudo-vintages) never becomes a key.
THEOREM StoresVintagesOnly == ASSUME FredAssumption PROVE Spec => []NoPseudoVintages
<1>1. FredInv => NoPseudoVintages
  BY RightHasNoPseudo
<1> QED BY <1>1, FredSafety, PTL

\* Intervals that are right as of the last collection say of every day before it
\* what the source said.
LEMMA RightIsHistory == ASSUME FredAssumption, FredInv PROVE HistoryIsRight
<1>1. ASSUME NEW d \in Obs, NEW t \in 1..(asOf - 1)
      PROVE  ValuesOn(d, t) = {TrueValue(d, t)} \ {0}
  <2>1. TypeOK /\ Upstream(revision, today) /\ Right(revision, value, end, asOf)
    BY DEF FredInv
  <2>2. /\ MaxDay \in Nat /\ Day = 1..MaxDay /\ Forever = MaxDay + 1 /\ asOf \in Nat /\ asOf <= MaxDay
        /\ t \in Nat /\ t \in Day /\ t < asOf
    <3>1. MaxDay \in Nat /\ Day = 1..MaxDay /\ Forever = MaxDay + 1 /\ asOf \in 0..today /\ today \in Day
      BY <2>1 DEF TypeOK, Day, Forever, FredAssumption
    <3> QED BY <3>1
  <2>3. Published(d) = Vintages(revision, d) /\ \A u \in Published(d) : u \in Day /\ revision[d][u] # 0
    BY DEF Published, Vintages
  <2>4. \A u \in Day : value[d][u] # 0 => u \in Published(d)
    BY <2>1 DEF Right, Published
  <2>5. \A u \in Published(d) : u <= t => value[d][u] = revision[d][u] /\ value[d][u] # 0
    BY <2>1, <2>2, <2>3 DEF Right
  <2>6. \A u \in 1..t : u \in Day
    BY <2>2
  <2>7. CASE TrueValue(d, t) = 0 /\ \A u \in Published(d) : t < u
    <3>1. \A u \in 1..t : value[d][u] = 0
      BY <2>2, <2>4, <2>6, <2>7
    <3> QED BY <2>7, <3>1 DEF ValuesOn
  <2>8. CASE \E s \in Published(d) :
                /\ s <= t /\ TrueValue(d, t) = revision[d][s]
                /\ \A u \in Published(d) : u <= s \/ t < u
    <3>1. PICK s \in Published(d) : /\ s <= t /\ TrueValue(d, t) = revision[d][s]
                                    /\ \A u \in Published(d) : u <= s \/ t < u
      BY <2>8
    <3>2. s \in 1..t /\ value[d][s] = TrueValue(d, t) /\ value[d][s] # 0
      BY <2>2, <2>3, <2>5, <3>1
    <3>3. end[d][s] >= t
      <4>1. end[d][s] \in 0..Forever /\ s \in Day
        BY <2>1, <2>3 DEF TypeOK
      <4>2. CASE end[d][s] = Forever
        BY <2>2, <4>2
      <4>3. CASE end[d][s] # Forever
        <5>1. s <= end[d][s] /\ end[d][s] + 1 \in Published(d)
          BY <2>1, <2>3, <3>2, <4>1, <4>3 DEF Right, Closes
        <5>2. end[d][s] + 1 <= s \/ t < end[d][s] + 1
          BY <3>1, <5>1
        <5> QED BY <2>2, <4>1, <5>1, <5>2
      <4> QED BY <4>2, <4>3
    <3>4. ASSUME NEW u \in 1..t, value[d][u] # 0, end[d][u] >= t PROVE u = s
      <4>1. u \in Day /\ u \in Published(d) /\ u <= s
        BY <2>2, <2>4, <2>6, <3>1, <3>4
      <4>2. SUFFICES ASSUME u < s PROVE FALSE
        <5>1. u \in 1..MaxDay /\ s \in 1..MaxDay /\ u <= s
          BY <2>2, <2>3, <3>1, <4>1
        <5> QED BY <2>2, <5>1
      <4>3. end[d][u] # Forever
        BY <2>1, <2>3, <3>2, <3>4, <4>1, <4>2 DEF Right
      <4>4. Closes(revision, d, u, end[d][u])
        BY <2>1, <3>4, <4>1, <4>3 DEF Right
      <4>5. s <= u \/ end[d][u] < s
        BY <2>3, <4>4 DEF Closes
      <4>6. end[d][u] \in 0..Forever /\ s \in Day
        BY <2>1, <2>3, <4>1 DEF TypeOK
      <4> QED BY <2>2, <3>1, <3>4, <4>1, <4>2, <4>5, <4>6
    <3> QED BY <3>2, <3>3, <3>4 DEF ValuesOn
  <2> QED BY <2>2, <2>7, <2>8, LastSoFar
<1> QED BY <1>1 DEF HistoryIsRight

\* Before the last normalized collection the table says of every observation and
\* day what the source said that day, no more and no less.
THEOREM StoresTheHistory == ASSUME FredAssumption PROVE Spec => []HistoryIsRight
<1>1. FredInv => HistoryIsRight
  BY RightIsHistory
<1> QED BY <1>1, FredSafety, PTL

ClosedStays == \A d \in Obs, s \in Day :
    value[d][s] # 0 /\ end[d][s] # Forever => value'[d][s] = value[d][s] /\ end'[d][s] = end[d][s]

\* No step changes what is closed: a collection that brings it again brings the same.
LEMMA NextKeepsClosed == ASSUME FredAssumption, FredInv, Next PROVE ClosedStays
<1>1. CASE Normalize
  <2>1. KeepsClosed(blob) /\ value' = NewValue(blob) /\ end' = NewEnd(blob)
    BY <1>1, NormalizeKeepsInv
  <2> QED BY <2>1 DEF KeepsClosed, ClosedStays
<1>2. CASE UNCHANGED stored
  BY <1>2 DEF stored, ClosedStays
<1>3. Normalize \/ UNCHANGED stored
  BY DEF Next, NextDay, Publish, Collect, Drop
<1> QED BY <1>1, <1>2, <1>3

\* A stored vintage that has been closed never changes (fred.py's "Historical
\* FRED vintages are immutable").
THEOREM KeepsClosedVintages == ASSUME FredAssumption PROVE Spec => ClosedIsFinal
<1>1. FredInv /\ [Next]_vars => [ClosedStays]_vars
  BY NextKeepsClosed
<1> QED BY <1>1, FredSafety, PTL DEF Spec, ClosedIsFinal, ClosedStays
=============================================================================
