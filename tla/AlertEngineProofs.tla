---------------------------- MODULE AlertEngineProofs ----------------------------
(***************************************************************************)
(* Paging and stamping in AlertEngine, for any rules, events, batch size,  *)
(* retries and number of engine processes, and the scan that finds its     *)
(* stacks, for any finite set of events.                                   *)
(***************************************************************************)
EXTENDS AlertEngine, Integers, FiniteSetTheorems, TLAPS

\* Whatever is, or is about to be, stamped has reached the channel.
StampedReached ==
    /\ delivered = [r \in Runner |-> delivered[r]]
    /\ \A r \in Runner : delivered[r] \subseteq paged
    /\ notified \subseteq paged

LEMMA StampedInit == Init => StampedReached
BY DEF Init, StampedReached

LEMMA StampedNext == StampedReached /\ [Next]_vars => StampedReached'
<1> SUFFICES ASSUME StampedReached, [Next]_vars PROVE StampedReached'
  OBVIOUS
<1> USE DEF StampedReached, store, run, alerts
<1>1. ASSUME NEW r \in Runner, Start(r) \/ Read(r) PROVE StampedReached'
  BY <1>1 DEF Start, Read
<1>2. ASSUME NEW r \in Runner, Persist(r) PROVE StampedReached'
  BY <1>2 DEF Persist, Insert
<1>3. ASSUME NEW r \in Runner, Query(r) PROVE StampedReached'
  BY <1>3 DEF Query, End, Drop
<1>4. ASSUME NEW r \in Runner, Post(r) PROVE StampedReached'
  <2>1. PICK B \in SUBSET queue[r] :
          paged' = paged \cup B /\ delivered' = [delivered EXCEPT ![r] = @ \cup B]
    BY <1>4 DEF Post, Reach
  <2> QED
    BY <1>4, <2>1 DEF Post
<1>5. ASSUME NEW r \in Runner, PostRefused(r) \/ PostRaises(r) PROVE StampedReached'
  <2>1. paged \subseteq paged' /\ UNCHANGED notified
    BY <1>5 DEF PostRefused, PostRaises, Reach
  <2>2. \/ UNCHANGED delivered
        \/ delivered' = [delivered EXCEPT ![r] = {}]
    BY <1>5 DEF PostRefused, PostRaises, End, Fail, Drop
  <2> QED
    BY <2>1, <2>2
<1>6. ASSUME NEW r \in Runner, Mark(r) PROVE StampedReached'
  BY <1>6 DEF Mark, Stamp, End, Drop
<1>7. ASSUME NEW r \in Runner, DatabaseError(r) PROVE StampedReached'
  <2>1. /\ UNCHANGED paged
        /\ delivered' = [delivered EXCEPT ![r] = {}]
    BY <1>7 DEF DatabaseError, Fail, Drop
  <2>2. notified' = notified \/ notified' = notified \cup (delivered[r] \cap open)
    BY <1>7 DEF DatabaseError, Insert, Stamp
  <2> QED
    BY <2>1, <2>2
<1>8. ASSUME NEW r \in Runner, Again(r) \/ Kill(r) PROVE StampedReached'
  BY <1>8 DEF Again, Kill, End, Drop
<1>9. ASSUME NextDay \/ Weather \/ UNCHANGED vars \/ \E e \in Event : Emit(e)
      PROVE  StampedReached'
  BY <1>9 DEF NextDay, Weather, Emit, vars
<1> QED
  BY <1>1, <1>2, <1>3, <1>4, <1>5, <1>6, <1>7, <1>8, <1>9 DEF Next, Step

\* No alert is stamped that did not reach the channel, however many engines
\* run at once.
THEOREM StampMeansPaged == Spec => []NotifiedWasPaged
<1>1. StampedReached => NotifiedWasPaged
  BY DEF StampedReached, NotifiedWasPaged
<1> QED
  BY <1>1, StampedInit, StampedNext, PTL DEF Spec

-----------------------------------------------------------------------------
\* The queue of a run holds no stamped alert.
QueueFresh ==
    /\ queue = [r \in Runner |-> queue[r]]
    /\ open \cap notified = {}
    /\ \A r \in Runner : queue[r] \cap notified = {}

LEMMA QueueInit == Init => QueueFresh
BY DEF Init, QueueFresh

\* Only a run's own mark stamps alerts, and it empties the run's queue.
LEMMA QueueNext ==
    ASSUME \A r, s \in Runner : r = s
    PROVE  QueueFresh /\ [Next]_vars => QueueFresh'
<1> SUFFICES ASSUME QueueFresh, [Next]_vars PROVE QueueFresh'
  OBVIOUS
<1> USE DEF QueueFresh, store, run, alerts
<1>1. ASSUME NEW r \in Runner, Start(r) \/ Read(r) PROVE QueueFresh'
  BY <1>1 DEF Start, Read
<1>2. ASSUME NEW r \in Runner, Persist(r) PROVE QueueFresh'
  BY <1>2 DEF Persist, Insert
<1>3. ASSUME NEW r \in Runner, Query(r) PROVE QueueFresh'
  <2>1. \/ queue' = [queue EXCEPT ![r] = {}]
        \/ queue' = [queue EXCEPT ![r] = {a \in open : InWindow(a[3], r)}]
    BY <1>3 DEF Query, End, Drop
  <2> QED
    BY <1>3, <2>1 DEF Query
<1>4. ASSUME NEW r \in Runner, Post(r) PROVE QueueFresh'
  <2>1. PICK B \in SUBSET queue[r] : queue' = [queue EXCEPT ![r] = @ \ B]
    BY <1>4 DEF Post
  <2> QED
    BY <1>4, <2>1 DEF Post
<1>5. ASSUME NEW r \in Runner, PostRefused(r) \/ PostRaises(r) PROVE QueueFresh'
  BY <1>5 DEF PostRefused, PostRaises, End, Fail, Drop
<1>6. ASSUME NEW r \in Runner, Mark(r) \/ DatabaseError(r) PROVE QueueFresh'
  <2>1. queue' = [queue EXCEPT ![r] = {}]
    BY <1>6 DEF Mark, DatabaseError, End, Fail, Drop
  <2>2. \A s \in Runner : queue'[s] = {}
    BY <2>1
  <2>3. (open \cap notified)' = {}
    BY <1>6 DEF Mark, DatabaseError, Insert, Stamp
  <2> QED
    BY <2>1, <2>2, <2>3
<1>7. ASSUME NEW r \in Runner, Again(r) \/ Kill(r) PROVE QueueFresh'
  BY <1>7 DEF Again, Kill, End, Drop
<1>8. ASSUME NextDay \/ Weather \/ UNCHANGED vars \/ \E e \in Event : Emit(e)
      PROVE  QueueFresh'
  BY <1>8 DEF NextDay, Weather, Emit, vars
<1> QED
  BY <1>1, <1>2, <1>3, <1>4, <1>5, <1>6, <1>7, <1>8 DEF Next, Step

\* notified_at IS NULL guards against posting a stamped alert again, as long
\* as no two engines run at once (the workflow's concurrency group).
THEOREM StampedStaysQuiet ==
    ASSUME \A r, s \in Runner : r = s
    PROVE  Spec => []NeverRepaged
<1>1. QueueFresh => NeverRepaged
  BY DEF QueueFresh, NeverRepaged
<1>2. QueueFresh /\ [Next]_vars => QueueFresh'
  BY QueueNext
<1> QED
  BY <1>1, <1>2, QueueInit, PTL DEF Spec

-----------------------------------------------------------------------------
\* Induction over the subsets of a finite set, as a fact about sets: what passes
\* from all its proper subsets to each, all of them have.
LEMMA SubsetInduction ==
    ASSUME NEW S, IsFiniteSet(S), NEW Good,
           \A T \in SUBSET S : (\A U \in SUBSET T : U # T => U \in Good) => T \in Good
    PROVE  \A T \in SUBSET S : T \in Good
<1> SUFFICES ASSUME (SUBSET S) \ Good # {} PROVE FALSE
  OBVIOUS
<1>1. IsWellFoundedOn(StrictSubsetOrdering(S), SUBSET S)
  <2>1. FiniteSubsetsOf(S) = SUBSET S
    BY FS_FiniteSubsetsOfFinite
  <2>2. IsWellFoundedOn(StrictSubsetOrdering(S), FiniteSubsetsOf(S))
    BY FS_StrictSubsetOrderingWellFounded
  <2> QED BY <2>1, <2>2
<1> DEFINE Rest == (SUBSET S) \ Good
<1>2. Rest \subseteq SUBSET S /\ Rest # {}
  OBVIOUS
<1> HIDE DEF Rest
<1>3. PICK T \in Rest : \A U \in Rest : ~ (<<U, T>> \in StrictSubsetOrdering(S))
  BY <1>1, <1>2, WFMin
<1>4. T \in SUBSET S /\ T \notin Good
  BY DEF Rest
<1>5. ASSUME NEW U \in SUBSET T, U # T PROVE U \in Good
  <2>1. U \in SUBSET S
    BY <1>4
  <2>2. <<U, T>> \in StrictSubsetOrdering(S)
    BY <1>4, <1>5, <2>1 DEF StrictSubsetOrdering
  <2>3. U \notin Rest
    BY <1>3, <2>2
  <2> QED BY <2>1, <2>3 DEF Rest
<1> QED BY <1>4, <1>5


\* Finite sets of numbers have their bounds.
LEMMA Bounds ==
    ASSUME NEW S \in SUBSET Nat, IsFiniteSet(S), S # {}
    PROVE  /\ Min(S) \in S /\ \A d \in S : Min(S) <= d
           /\ Max(S) \in S /\ \A d \in S : d <= Max(S)
<1> DEFINE Good == {T \in SUBSET S : T # {} => /\ \E x \in T : \A y \in T : x <= y
                                               /\ \E x \in T : \A y \in T : x >= y}
<1>1. ASSUME NEW T \in SUBSET S, \A U \in SUBSET T : U # T => U \in Good
      PROVE  T \in Good
  <2> SUFFICES ASSUME NEW n \in T
               PROVE  /\ \E x \in T : \A y \in T : x <= y
                      /\ \E x \in T : \A y \in T : x >= y
    OBVIOUS
  <2>1. T \ {n} \in Good
    BY <1>1
  <2>2. CASE T = {n}
    BY <2>2
  <2>3. CASE T \ {n} # {}
    <3>1. PICK x \in T \ {n} : \A y \in T \ {n} : x <= y
      BY <2>1, <2>3
    <3>2. PICK z \in T \ {n} : \A y \in T \ {n} : z >= y
      BY <2>1, <2>3
    <3>3. \A y \in T : (IF n <= x THEN n ELSE x) <= y
      BY <3>1
    <3>4. \A y \in T : (IF n >= z THEN n ELSE z) >= y
      BY <3>2
    <3> QED BY <3>3, <3>4
  <2> QED BY <2>2, <2>3
<1>2. \A T \in SUBSET S : T \in Good
  <2> HIDE DEF Good
  <2> QED BY <1>1, SubsetInduction
<1>3. /\ \E x \in S : \A y \in S : x <= y
      /\ \E x \in S : \A y \in S : x >= y
  BY <1>2
<1> QED BY <1>3 DEF Min, Max

-----------------------------------------------------------------------------
\* What a scan takes of R, and what it goes on with.
Anchor(R) == Min(Days(R))
AtAnchor(R, k) == Window(R, Anchor(R), k)
First(R) == CHOOSE e \in R : e.ts = Anchor(R)

Pass(g, R, k) ==
    IF R = {} THEN {}
    ELSE IF Emits(AtAnchor(R, k), k) THEN {StackOf(AtAnchor(R, k), k)} \cup g[R \ AtAnchor(R, k)]
    ELSE g[R \ {First(R)}]

IsScan(g, E, k) == g = [R \in SUBSET E |-> Pass(g, R, k)]

Dated(E) == IsFiniteSet(E) /\ \A e \in E : e.ts \in Nat

LEMMA ScanIs == \A E, k : Scan(E, k) = (CHOOSE g : IsScan(g, E, k))[E]
BY DEF Scan, IsScan, Pass, AtAnchor, Anchor, First

LEMMA DaysAre ==
    ASSUME NEW E, Dated(E), NEW R \in SUBSET E
    PROVE  /\ Days(R) \in SUBSET Nat /\ IsFiniteSet(Days(R)) /\ (R # {} => Days(R) # {})
           /\ IsFiniteSet(R) /\ Dated(R)
<1>1. IsFiniteSet(R)
  BY FS_Subset DEF Dated
<1> DEFINE f == [e \in R |-> e.ts]
<1>2. f \in Surjection(R, Days(R))
  BY DEF Days, Surjection
<1>3. IsFiniteSet(Days(R))
  BY <1>1, <1>2, FS_Surjection
<1> QED BY <1>1, <1>3 DEF Dated, Days

\* A scan goes on with less.
LEMMA RestIsLess ==
    ASSUME NEW E, Dated(E), NEW R \in SUBSET E, R # {}, NEW k, k.window \in Nat
    PROVE  /\ Anchor(R) \in Nat /\ \A e \in R : Anchor(R) <= e.ts
           /\ \E e \in AtAnchor(R, k) : e.ts = Anchor(R)
           /\ AtAnchor(R, k) \subseteq R
           /\ First(R) \in R
           /\ First(R).ts = Anchor(R)
<1>1. Anchor(R) \in Days(R) /\ (\A d \in Days(R) : Anchor(R) <= d) /\ Days(R) \subseteq Nat
  BY DaysAre, Bounds DEF Anchor
<1>2. \E e \in R : e.ts = Anchor(R)
  BY <1>1 DEF Days
<1>3. Anchor(R) \in Nat /\ \A e \in R : Anchor(R) <= e.ts
  BY <1>1 DEF Days
<1>4. \E e \in AtAnchor(R, k) : e.ts = Anchor(R)
  BY <1>2, <1>3 DEF AtAnchor, Window
<1> QED BY <1>2, <1>3, <1>4 DEF AtAnchor, Window, First

LEMMA PassDepends ==
    ASSUME NEW f, NEW g, NEW R, NEW k,
           f[R \ AtAnchor(R, k)] = g[R \ AtAnchor(R, k)], f[R \ {First(R)}] = g[R \ {First(R)}]
    PROVE  Pass(f, R, k) = Pass(g, R, k)
BY DEF Pass

LEMMA ScansAgree ==
    ASSUME NEW E, Dated(E), NEW k, k.window \in Nat, NEW D, NEW S \in SUBSET (D \cap E), NEW g, NEW h,
           IsScan(g, D, k), IsScan(h, E, k)
    PROVE  g[S] = h[S]
<1> DEFINE Same == {R \in SUBSET S : g[R] = h[R]}
<1>1. ASSUME NEW T \in SUBSET S, \A U \in SUBSET T : U # T => U \in Same
      PROVE  T \in Same
  <2>1. T \in SUBSET D /\ T \in SUBSET E
    OBVIOUS
  <2>2. g[T] = Pass(g, T, k) /\ h[T] = Pass(h, T, k)
    BY <2>1 DEF IsScan
  <2>3. CASE T = {}
    BY <2>2, <2>3 DEF Pass
  <2>4. CASE T # {}
    <3> DEFINE W == AtAnchor(T, k)
               x == First(T)
    <3>1. /\ W \subseteq T /\ W # {} /\ x \in T
      BY <2>1, <2>4, RestIsLess
    <3> HIDE DEF W, x
    <3>2. T \ W \in Same /\ T \ {x} \in Same
      BY <1>1, <3>1
    <3>3. g[T \ W] = h[T \ W] /\ g[T \ {x}] = h[T \ {x}]
      BY <3>2
    <3>4. Pass(g, T, k) = Pass(h, T, k)
      BY <3>3, PassDepends DEF W, x
    <3> QED BY <2>2, <3>4
  <2> QED BY <2>3, <2>4
<1>2. IsFiniteSet(S)
  BY FS_Subset DEF Dated
<1>3. \A T \in SUBSET S : T \in Same
  <2> HIDE DEF Same
  <2> QED BY <1>1, <1>2, SubsetInduction
<1> QED BY <1>3

\* The function that Scan recurs on exists.
LEMMA ScanExists ==
    ASSUME NEW E, Dated(E), NEW k, k.window \in Nat
    PROVE  \E g : IsScan(g, E, k)
<1> DEFINE Has == {S \in SUBSET E : \E g : IsScan(g, S, k)}
           of(S) == CHOOSE g : IsScan(g, S, k)
<1>1. ASSUME NEW T \in SUBSET E, \A U \in SUBSET T : U # T => U \in Has
      PROVE  T \in Has
  <2> DEFINE below == [R \in SUBSET T |-> of(R)[R]]
             g == [R \in SUBSET T |-> Pass(below, R, k)]
  <2>1. ASSUME NEW R \in SUBSET T, NEW U \in SUBSET R, U # R
        PROVE  below[U] = g[U]
    <3>1. IsScan(of(U), U, k)
      BY <1>1, <2>1
    <3>2. U \in SUBSET T
      OBVIOUS
    <3>3. of(U)[U] = Pass(of(U), U, k)
      BY <3>1 DEF IsScan
    <3>4. Pass(of(U), U, k) = Pass(below, U, k)
      <4>1. CASE U = {}
        BY <4>1 DEF Pass
      <4>2. CASE U # {}
        <5> DEFINE W == AtAnchor(U, k)
                   x == First(U)
        <5>1. /\ W \subseteq U /\ W # {} /\ x \in U
          BY <4>2, RestIsLess
        <5> HIDE DEF W, x
        <5>2. ASSUME NEW V \in SUBSET U, V # U PROVE of(U)[V] = below[V]
          <6>1. IsScan(of(V), V, k)
            BY <1>1, <2>1, <5>2
          <6>2. Dated(U)
            BY DaysAre
          <6>3. of(V)[V] = of(U)[V]
            <7> HIDE DEF of
            <7> QED BY <3>1, <6>1, <6>2, ScansAgree
          <6> QED BY <6>3
        <5>3. of(U)[U \ W] = below[U \ W] /\ of(U)[U \ {x}] = below[U \ {x}]
          <6> HIDE DEF of, below
          <6> QED BY <5>1, <5>2
        <5> HIDE DEF of, below
        <5> QED BY <5>3, PassDepends DEF W, x
      <4> QED BY <4>1, <4>2
    <3> QED BY <3>2, <3>3, <3>4
  <2>2. ASSUME NEW R \in SUBSET T PROVE Pass(below, R, k) = Pass(g, R, k)
    <3>1. CASE R = {}
      BY <3>1 DEF Pass
    <3>2. CASE R # {}
      <4> DEFINE W == AtAnchor(R, k)
                 x == First(R)
      <4>1. /\ W \subseteq R /\ W # {} /\ x \in R
        BY <3>2, RestIsLess
      <4> HIDE DEF W, x
      <4>2. below[R \ W] = g[R \ W] /\ below[R \ {x}] = g[R \ {x}]
        <5> HIDE DEF below, g
        <5> QED BY <2>1, <4>1
      <4> HIDE DEF below, g
      <4> QED BY <4>2, PassDepends DEF W, x
    <3> QED BY <3>1, <3>2
  <2>3. IsScan(g, T, k)
    <3> HIDE DEF below
    <3> QED BY <2>2 DEF IsScan
  <2> QED BY <2>3
<1>2. \A T \in SUBSET E : T \in Has
  <2> HIDE DEF Has
  <2> QED BY <1>1, SubsetInduction DEF Dated
<1> QED BY <1>2

\* Scan, as a recursion on what is left.
LEMMA ScanRecurs ==
    ASSUME NEW E, Dated(E), NEW k, k.window \in Nat
    PROVE  \E g : IsScan(g, E, k) /\ Scan(E, k) = g[E]
BY ScanExists, ScanIs

-----------------------------------------------------------------------------
\* What makes a stack of E, in full: the events it was made from.
Caused(E, s, k) ==
    /\ s.start \in Nat /\ s.end \in Nat /\ s.end <= s.start + k.window
    /\ \E W \in SUBSET E : /\ W # {} /\ Min(Days(W)) = s.start /\ Max(Days(W)) = s.end
                           /\ Qualifies(W, k) /\ Score(W, k) = s.score /\ Sources(W) = s.sources

\* A stack is of the events of its window up to the cut.
LEMMA StackIsCaused ==
    ASSUME NEW E, Dated(E), NEW k, k.window \in Nat, NEW R \in SUBSET E, R # {}, Emits(AtAnchor(R, k), k)
    PROVE  StackOf(AtAnchor(R, k), k).start = Anchor(R) /\ Caused(R, StackOf(AtAnchor(R, k), k), k)
<1> DEFINE W == AtAnchor(R, k)
           a == Anchor(R)
           OK == {d \in Cuts(W, k) : Qualifies(Upto(W, d), k)}
           cut == Min(OK)
           V == Upto(W, cut)
           s == StackOf(W, k)
<1>1. /\ a \in Nat /\ W \subseteq R /\ W # {} /\ \A e \in R : a <= e.ts
      /\ \E e \in W : e.ts = a
  BY RestIsLess
<1>2. \A e \in W : e.ts <= a + k.window
  BY DEF AtAnchor, Window
<1> HIDE DEF W, a
<1>3. Days(W) \in SUBSET Nat /\ IsFiniteSet(Days(W)) /\ Days(W) # {}
  BY <1>1, DaysAre
<1>4. Cuts(W, k) \subseteq Days(W)
  BY <1>3, Bounds DEF Cuts
<1>5. OK # {} /\ OK \subseteq Days(W)
  BY <1>4 DEF Emits, W
<1>6. OK \in SUBSET Nat /\ IsFiniteSet(OK)
  BY <1>3, <1>5, FS_Subset
<1> HIDE DEF OK
<1>7. cut \in OK
  BY <1>5, <1>6, Bounds
<1>8. cut \in Days(W) /\ cut \in Nat /\ Qualifies(V, k)
  BY <1>3, <1>5, <1>7 DEF OK
<1> HIDE DEF cut
<1>9. /\ V \subseteq R /\ \A e \in V : a <= e.ts /\ e.ts <= cut
      /\ \E e \in V : e.ts = a
      /\ \E e \in V : e.ts = cut
      /\ cut <= a + k.window
  <2>1. a <= cut
    BY <1>1, <1>8 DEF Days
  <2> QED BY <1>1, <1>2, <1>8, <2>1 DEF Upto, Days
<1> HIDE DEF V
<1>10. Days(V) \in SUBSET Nat /\ IsFiniteSet(Days(V)) /\ a \in Days(V) /\ cut \in Days(V)
       /\ \A d \in Days(V) : a <= d /\ d <= cut
  <2>1. V \in SUBSET E
    BY <1>9
  <2>2. Days(V) \in SUBSET Nat /\ IsFiniteSet(Days(V))
    BY <2>1, DaysAre
  <2> QED BY <1>9, <2>2 DEF Days
<1>11. Min(Days(V)) = a /\ Max(Days(V)) = cut
  <2>1. Days(V) # {}
    BY <1>10
  <2>2. /\ Min(Days(V)) \in Days(V) /\ Max(Days(V)) \in Days(V)
        /\ \A d \in Days(V) : Min(Days(V)) <= d /\ d <= Max(Days(V))
    BY <1>10, <2>1, Bounds
  <2>3. Min(Days(V)) \in Nat /\ Max(Days(V)) \in Nat
    BY <1>10, <2>2
  <2>4. Min(Days(V)) <= a /\ a <= Min(Days(V)) /\ cut <= Max(Days(V)) /\ Max(Days(V)) <= cut
    BY <1>10, <2>2
  <2> QED BY <1>1, <1>8, <2>3, <2>4
<1>12. s = [start |-> Min(Days(V)), end |-> cut, score |-> Score(V, k), sources |-> Sources(V)]
  BY DEF StackOf, V, cut, OK
<1> HIDE DEF s
<1>13. s.start = a /\ s.end = cut /\ s.score = Score(V, k) /\ s.sources = Sources(V)
  BY <1>11, <1>12
<1>14. Caused(R, s, k)
  BY <1>1, <1>8, <1>9, <1>11, <1>13 DEF Caused
<1> QED BY <1>13, <1>14 DEF s, W, a

\* Of what is left, every window that would make a stack is left whole.
Full(E, R, k) == \A e \in R : Emits(Window(E, e.ts, k), k) => Window(E, e.ts, k) \subseteq R

\* What is right about the stacks S found in R.
Right(E, R, S, k) ==
    /\ \A s \in S : Caused(E, s, k) /\ \E e \in R : s.start = e.ts
    /\ Apart(S, k)
    /\ Full(E, R, k) =>
          \A e \in R : Emits(Window(E, e.ts, k), k) =>
              \E s \in S : s.start <= e.ts /\ e.ts <= s.start + k.window

LEMMA PassIsRight ==
    ASSUME NEW E, Dated(E), NEW k, k.window \in Nat, NEW g, NEW R \in SUBSET E,
           \A U \in SUBSET R : U # R => Right(E, U, g[U], k)
    PROVE  Right(E, R, Pass(g, R, k), k)
<1>1. CASE R = {}
  BY <1>1 DEF Pass, Right, Apart
<1>2. CASE R # {}
  <2> DEFINE W == AtAnchor(R, k)
             a == Anchor(R)
             x == First(R)
             t == StackOf(W, k)
  <2>1. /\ a \in Nat /\ W \subseteq R /\ W # {} /\ \A e \in R : a <= e.ts
        /\ x \in R /\ x.ts = a
    BY <1>2, RestIsLess
  <2>2. \A e \in R : e \in W <=> e.ts <= a + k.window
    BY <2>1 DEF AtAnchor, Window
  <2>3. \A e \in R : e.ts \in Nat
    BY DEF Dated
  <2>4. ASSUME Window(E, a, k) \subseteq R PROVE Window(E, a, k) = W
    BY <2>1, <2>4 DEF AtAnchor, Window
  <2>5. Emits(W, k) => t.start = a /\ Caused(R, t, k)
    BY <1>2, StackIsCaused
  <2>6. Pass(g, R, k) = IF Emits(W, k) THEN {t} \cup g[R \ W] ELSE g[R \ {x}]
    BY <1>2 DEF Pass
  <2>7. Right(E, R \ W, g[R \ W], k) /\ Right(E, R \ {x}, g[R \ {x}], k)
    BY <2>1
  <2>8. \A s : Caused(R, s, k) => Caused(E, s, k)
    BY DEF Caused
  <2> HIDE DEF W, a, x, t
  <2>9. CASE Emits(W, k)
    <3> DEFINE S == g[R \ W]
    <3>1. Pass(g, R, k) = {t} \cup S /\ t.start = a /\ Caused(E, t, k)
      BY <2>5, <2>6, <2>8, <2>9
    <3>2. \A s \in S : s.start \in Nat /\ s.start > a + k.window
      <4> SUFFICES ASSUME NEW s \in S PROVE s.start \in Nat /\ s.start > a + k.window
        OBVIOUS
      <4>1. PICK e \in R \ W : s.start = e.ts
        BY <2>7 DEF Right
      <4>2. e.ts \in Nat /\ ~(e.ts <= a + k.window)
        BY <2>2, <2>3, <4>1
      <4> HIDE DEF S
      <4> QED BY <2>1, <4>1, <4>2
    <3> HIDE DEF S
    <3>3. Apart({t} \cup S, k)
      BY <2>1, <2>7, <3>1, <3>2 DEF Right, Apart, S
    <3>4. ASSUME Full(E, R, k), NEW e \in R, Emits(Window(E, e.ts, k), k)
          PROVE  \E s \in {t} \cup S : s.start <= e.ts /\ e.ts <= s.start + k.window
      <4>1. CASE e \in W
        BY <2>1, <2>2, <3>1, <4>1
      <4>2. CASE e \notin W
        <5>1. Full(E, R \ W, k)
          BY <2>1, <2>2, <2>3, <3>4 DEF Full, Window, Dated
        <5> QED BY <2>7, <3>4, <4>2, <5>1 DEF Right, S
      <4> QED BY <4>1, <4>2
    <3>5. \A s \in {t} \cup S : Caused(E, s, k) /\ \E f \in R : s.start = f.ts
      BY <2>1, <2>7, <3>1 DEF Right, S
    <3> QED BY <3>1, <3>3, <3>4, <3>5 DEF Right
  <2>10. CASE ~Emits(W, k)
    <3> DEFINE S == g[R \ {x}]
    <3>1. Pass(g, R, k) = S
      BY <2>6, <2>10
    <3>2. \A s \in S : Caused(E, s, k) /\ \E f \in R : s.start = f.ts
      BY <2>7 DEF Right
    <3>4. ASSUME Full(E, R, k), NEW e \in R, Emits(Window(E, e.ts, k), k)
          PROVE  \E s \in S : s.start <= e.ts /\ e.ts <= s.start + k.window
      <4>1. \A f \in R : Emits(Window(E, f.ts, k), k) => x \notin Window(E, f.ts, k)
        <5> SUFFICES ASSUME NEW f \in R, Emits(Window(E, f.ts, k), k), x \in Window(E, f.ts, k) PROVE FALSE
          OBVIOUS
        <5>1. f.ts = a
          BY <2>1, <2>3 DEF Window
        <5>2. Window(E, a, k) \subseteq R
          BY <3>4, <5>1 DEF Full
        <5> QED BY <2>4, <2>10, <5>1, <5>2
      <4>2. Full(E, R \ {x}, k)
        BY <3>4, <4>1 DEF Full
      <4>3. x \in Window(E, x.ts, k)
        BY <2>1 DEF Window
      <4>4. e \in R \ {x}
        BY <3>4, <4>1, <4>3, <2>1
      <4> QED BY <2>7, <3>4, <4>2, <4>4 DEF Right
    <3>5. Apart(S, k)
      BY <2>7 DEF Right
    <3> QED BY <3>1, <3>2, <3>4, <3>5 DEF Right
  <2> QED BY <2>9, <2>10
<1> QED BY <1>1, <1>2

\* detect_stacks, for any finite set of events.
LEMMA ScanIsRight ==
    ASSUME NEW E, Dated(E), NEW k, k.window \in Nat
    PROVE  /\ Covers(E, Scan(E, k), k)
           /\ Apart(Scan(E, k), k)
           /\ \A s \in Scan(E, k) : Caused(E, s, k) /\ Real(E, s, k)
<1>1. PICK g : IsScan(g, E, k) /\ Scan(E, k) = g[E]
  BY ScanRecurs
<1> DEFINE Good == {R \in SUBSET E : Right(E, R, g[R], k)}
<1>2. ASSUME NEW R \in SUBSET E, \A U \in SUBSET R : U # R => U \in Good
      PROVE  R \in Good
  <2>1. g[R] = Pass(g, R, k)
    BY <1>1 DEF IsScan
  <2>2. Right(E, R, Pass(g, R, k), k)
    BY <1>2, PassIsRight
  <2> QED BY <2>1, <2>2
<1>3. \A R \in SUBSET E : R \in Good
  <2> HIDE DEF Good
  <2> QED BY <1>2, SubsetInduction DEF Dated
<1>4. Right(E, E, Scan(E, k), k)
  BY <1>1, <1>3
<1>5. Full(E, E, k)
  BY DEF Full, Window
<1> QED BY <1>4, <1>5 DEF Right, Covers, Caused, Real

-----------------------------------------------------------------------------
\* What a run reads is what emitters wrote.
EventsRead == events \in SUBSET Event /\ read \in [Runner -> SUBSET Event]

LEMMA EventsReadInv == Spec => []EventsRead
<1>1. Init => EventsRead
  BY DEF Init, EventsRead
<1>2. EventsRead /\ [Next]_vars => EventsRead'
  <2> SUFFICES ASSUME EventsRead, [Next]_vars PROVE EventsRead'
    OBVIOUS
  <2> USE DEF EventsRead, store, run, alerts
  <2>1. ASSUME NEW r \in Runner, Step(r) \/ Kill(r) PROVE EventsRead'
    <3>1. UNCHANGED events
      BY <2>1 DEF Step, Start, Read, Persist, Query, Post, PostRefused, PostRaises, Mark, DatabaseError, Again, Kill
    <3>2. \/ UNCHANGED read \/ read' = [read EXCEPT ![r] = {}]
          \/ read' = [read EXCEPT ![r] = {e \in events : InWindow(e.ts, r)}]
      BY <2>1 DEF Step, Start, Read, Persist, Query, Post, PostRefused, PostRaises, Mark, DatabaseError,
          Again, Kill, End, Fail, Drop
    <3> QED BY <3>1, <3>2
  <2>2. ASSUME NEW e \in Event, Emit(e) PROVE EventsRead'
    BY <2>2 DEF Emit
  <2>3. CASE NextDay \/ Weather \/ UNCHANGED vars
    BY <2>3 DEF NextDay, Weather, vars
  <2> QED BY <2>1, <2>2, <2>3 DEF Next
<1> QED BY <1>1, <1>2, PTL DEF Spec

LEMMA StacksAreScans ==
    ASSUME NEW E \in SUBSET Event, NEW k \in DOMAIN Rule
    PROVE  /\ Dated(E) /\ Rule[k].window \in Nat
           /\ Stacks[k][E] = Scan(E, Rule[k])
BY EventsAreDated, FS_Subset DEF Stacks, Dated

\* Whatever events are stored: every anchor whose window makes a stack is in one, no
\* two stacks are within one window of each other, and each qualifies by its events.
THEOREM StacksFound == Spec => []StacksAreRight
<1>1. EventsRead => StacksAreRight
  <2> SUFFICES ASSUME EventsRead, NEW k \in DOMAIN Rule
               PROVE  LET S == Stacks[k][events] IN
                      /\ Covers(events, S, Rule[k])
                      /\ Apart(S, Rule[k])
                      /\ \A s \in S : Real(events, s, Rule[k])
    BY DEF StacksAreRight
  <2>1. events \in SUBSET Event
    BY DEF EventsRead
  <2> QED BY <2>1, StacksAreScans, ScanIsRight
<1> QED BY <1>1, EventsReadInv, PTL

\* An alert that is inserted names a stack of the events its run read.
LEMMA CandidateHasCause ==
    ASSUME NEW E \in SUBSET Event, NEW a \in Candidates(E)
    PROVE  \E W \in SUBSET E :
              LET k == Rule[a[2]] IN
              /\ W # {} /\ Max(Days(W)) = a[3] /\ a[3] <= Min(Days(W)) + k.window
              /\ Qualifies(W, k)
              /\ Score(W, k) >= Pager[a[1]].minScore
              /\ Sources(W) >= Pager[a[1]].minSources
<1>a. PICK p \in DOMAIN Pager, n \in DOMAIN Rule :
        a \in {<<p, n, s.end>> : s \in {x \in Stacks[n][E] : Matches(x, n, p)}}
  BY DEF Candidates
<1>1. PICK s \in Stacks[n][E] : a = <<p, n, s.end>> /\ Matches(s, n, p)
  BY <1>a
<1>2. Caused(E, s, Rule[n])
  BY <1>1, StacksAreScans, ScanIsRight
<1>3. PICK W \in SUBSET E : /\ W # {} /\ Min(Days(W)) = s.start /\ Max(Days(W)) = s.end
                            /\ Qualifies(W, Rule[n]) /\ Score(W, Rule[n]) = s.score /\ Sources(W) = s.sources
  BY <1>2 DEF Caused
<1>4. a[1] = p /\ a[2] = n /\ a[3] = s.end /\ s.end <= s.start + Rule[n].window
  BY <1>1, <1>2 DEF Caused
<1> QED BY <1>1, <1>3, <1>4 DEF Matches

\* However late or corrected the events, and however the engines' runs fail and are
\* retried, a new alert has a cause in the events its own run read.
THEOREM AlertsHaveCauses == Spec => NewAlertHasCause
<1> DEFINE Cause == \A a \in open' \ (open \cup notified) :
              \E r \in Runner : \E W \in SUBSET read[r] :
                  LET k == Rule[a[2]] IN
                  /\ W # {} /\ Max(Days(W)) = a[3] /\ a[3] <= Min(Days(W)) + k.window
                  /\ Qualifies(W, k)
                  /\ Score(W, k) >= Pager[a[1]].minScore
                  /\ Sources(W) >= Pager[a[1]].minSources
<1>1. EventsRead /\ [Next]_vars => [Cause]_vars
  <2> SUFFICES ASSUME EventsRead, Next PROVE Cause
    OBVIOUS
  <2>1. ASSUME NEW a \in open' \ (open \cup notified)
        PROVE  \E r \in Runner : a \in Candidates(read[r])
    BY <2>1 DEF Next, Step, NextDay, Weather, Emit, Start, Read, Persist, Query, Post, PostRefused,
        PostRaises, Mark, DatabaseError, Again, Kill, Insert, Stamp, alerts, store, run
  <2>2. ASSUME NEW r \in Runner PROVE read[r] \in SUBSET Event
    BY DEF EventsRead
  <2> QED BY <2>1, <2>2, CandidateHasCause
<1> QED BY <1>1, EventsReadInv, PTL DEF Spec, NewAlertHasCause
=============================================================================
