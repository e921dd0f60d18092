----------------------------- MODULE ServicesProofs -----------------------------
(***************************************************************************)
(* The limiter and the attempt loop of HttpClient for any number of        *)
(* threads, any window, any retry policy and any bounds; and the marks of  *)
(* FilingBacklog, for any number of filings, limit and deaths.             *)
(***************************************************************************)
EXTENDS MCServices, FiniteSetTheorems, TLAPS

\* The permits that still count against the cap.
Young == {p \in 1..issued : age[p] < Window}

\* The deque forgets no permit that still counts, and never holds too many.
LimiterInv ==
    /\ issued \in 0..MaxPermits
    /\ age \in [Permit -> 0..Window]
    /\ held \in SUBSET (1..issued)
    /\ Young \subseteq held
    /\ Cardinality(held) <= Requests

\* What a thread's place in the loop says of its counters.
LoopInv ==
    /\ pc      \in [Thread -> {"idle", "acquire", "queue", "send", "backoff"}]
    /\ safe    \in [Thread -> BOOLEAN]
    /\ attempt \in [Thread -> 0..MaxAttempts]
    /\ sent    \in [Thread -> 0..MaxAttempts]
    /\ \A t \in Thread :
          /\ sent[t] <= attempt[t]
          /\ pc[t] \in {"acquire", "queue", "send"} => sent[t] < attempt[t]
          /\ pc[t] = "backoff" => safe[t] /\ attempt[t] < MaxAttempts
          /\ ~safe[t] => attempt[t] <= 1

\* A pause that is still running is slept through.
PauseInv ==
    /\ hold \in [Thread -> Nat]
    /\ nap = [t \in Thread |-> nap[t]]
    /\ \A t \in Thread : hold[t] # 0 =>
          pc[t] = "backoff" /\ nap[t] \in Nat /\ hold[t] <= nap[t]

-----------------------------------------------------------------------------
\* _evict drops only permits that no longer count, and keeps the rest.
LEMMA EvictedKeeps ==
    ASSUME LimiterInv
    PROVE  /\ IsFiniteSet(Evicted)
           /\ Evicted \subseteq 1..issued
           /\ Young \subseteq Evicted
           /\ Cardinality(Evicted) \in Nat
           /\ Cardinality(Evicted) <= Requests
<1>1. issued \in Nat
  BY BoundsAreNat DEF LimiterInv
<1>2. IsFiniteSet(1..issued)
  BY <1>1, FS_Interval
<1>3. IsFiniteSet(held)
  BY <1>2, FS_Subset DEF LimiterInv
<1>4. Evicted \subseteq held
  BY DEF Evicted
<1>5. IsFiniteSet(Evicted) /\ Cardinality(Evicted) <= Cardinality(held)
  BY <1>3, <1>4, FS_Subset
<1>6. Cardinality(held) \in Nat /\ Cardinality(Evicted) \in Nat
  BY <1>3, <1>5, FS_CardinalityType
<1>7. Young \subseteq Evicted
  BY DEF LimiterInv, Young, Evicted
<1> QED
  BY <1>4, <1>5, <1>6, <1>7, LimitIsValid DEF LimiterInv

LEMMA LimiterInit == Init => LimiterInv
<1> SUFFICES ASSUME Init PROVE LimiterInv
  OBVIOUS
<1>1. held = {} /\ Cardinality(held) = 0
  BY FS_EmptySet DEF Init
<1> QED
  BY <1>1, LimitIsValid, BoundsAreNat DEF Init, LimiterInv, Young, Permit

LEMMA LimiterNext == LimiterInv /\ [Next]_vars => LimiterInv'
<1> SUFFICES ASSUME LimiterInv, [Next]_vars PROVE LimiterInv'
  OBVIOUS
<1> USE LimitIsValid, BoundsAreNat
<1>1. ASSUME UNCHANGED limiter PROVE LimiterInv'
  BY <1>1 DEF limiter, LimiterInv, Young
<1>2. ASSUME NEW t \in Thread, Grant(t) PROVE LimiterInv'
  <2>1. issued \in Nat /\ issued' = issued + 1 /\ issued' \in 0..MaxPermits
    BY <1>2 DEF Grant, LimiterInv
  <2>2. issued + 1 \in Permit
    BY <2>1 DEF Permit
  <2>3. age' \in [Permit -> 0..Window]
    BY <1>2, <2>2 DEF Grant, LimiterInv
  <2>4. held' = Evicted \cup {issued + 1}
    BY <1>2 DEF Grant
  <2>5. held' \in SUBSET (1..issued')
    BY <2>1, <2>4, EvictedKeeps
  <2>6. ASSUME NEW p \in Young' PROVE p \in held'
    <3>1. CASE p = issued + 1
      BY <3>1, <2>4
    <3>2. CASE p # issued + 1
      <4>1. p \in 1..issued /\ age'[p] < Window
        BY <2>1, <2>6, <3>2 DEF Young
      <4>2. p \in Permit /\ age'[p] = age[p]
        BY <1>2, <2>1, <3>2, <4>1 DEF Grant, LimiterInv, Permit
      <4> QED
        BY <2>4, <4>1, <4>2, EvictedKeeps DEF Young
    <3> QED
      BY <3>1, <3>2
  <2>7. issued + 1 \notin Evicted
    BY <2>1, EvictedKeeps
  <2>8. Cardinality(held') = Cardinality(Evicted) + 1
    BY <2>4, <2>7, EvictedKeeps, FS_AddElement
  <2>9. Cardinality(Evicted) < Requests
    BY <1>2 DEF Grant
  <2> QED
    BY <2>1, <2>3, <2>5, <2>6, <2>8, <2>9, EvictedKeeps DEF LimiterInv
<1>3. ASSUME NEW t \in Thread, Wait(t) PROVE LimiterInv'
  <2>1. held' = Evicted /\ UNCHANGED <<issued, age>>
    BY <1>3 DEF Wait
  <2>2. Young' = Young
    BY <2>1 DEF Young
  <2> QED
    BY <2>1, <2>2, EvictedKeeps DEF LimiterInv
<1>4. ASSUME Tick PROVE LimiterInv'
  <2>1. UNCHANGED <<issued, held>>
    BY <1>4 DEF Tick
  <2>2. age' \in [Permit -> 0..Window]
    BY <1>4 DEF Tick, LimiterInv
  <2>3. ASSUME NEW p \in Young' PROVE p \in Young
    <3>1. p \in 1..issued /\ p \in Permit
      BY <2>1, <2>3 DEF Young, LimiterInv, Permit
    <3>2. age'[p] = IF age[p] < Window THEN age[p] + 1 ELSE Window
      BY <1>4, <3>1 DEF Tick
    <3>3. age[p] \in 0..Window /\ age'[p] < Window
      BY <3>1, <2>3 DEF Young, LimiterInv
    <3> QED
      BY <3>1, <3>2, <3>3 DEF Young
  <2> QED
    BY <2>1, <2>2, <2>3 DEF LimiterInv
<1> QED
  BY <1>1, <1>2, <1>3, <1>4
     DEF Next, Step, Call, Wake, Finish, BackOff, RetryAfter, Again, vars, limiter

\* RateLimit's promise: no window ever holds more permits than the cap.
THEOREM RateIsLimited == Spec => []WindowRespected
<1>1. LimiterInv => WindowRespected
  <2> SUFFICES ASSUME LimiterInv PROVE Cardinality(Young) <= Requests
    BY DEF WindowRespected, Young
  <2>1. IsFiniteSet(Young) /\ Cardinality(Young) <= Cardinality(Evicted)
    BY EvictedKeeps, FS_Subset
  <2>2. Cardinality(Young) \in Nat
    BY <2>1, FS_CardinalityType
  <2> QED
    BY <2>1, <2>2, EvictedKeeps, LimitIsValid
<1> QED
  BY <1>1, LimiterInit, LimiterNext, PTL DEF Spec

-----------------------------------------------------------------------------
LEMMA LoopInit == Init => LoopInv
BY RetryIsValid DEF Init, LoopInv

LEMMA LoopNext == LoopInv /\ [Next]_vars => LoopInv'
<1> SUFFICES ASSUME LoopInv, [Next]_vars PROVE LoopInv'
  OBVIOUS
<1> USE RetryIsValid DEF LoopInv, Goto, SendOut
<1>1. ASSUME NEW t \in Thread, Call(t) PROVE LoopInv'
  BY <1>1 DEF Call
<1>2. ASSUME NEW t \in Thread, Grant(t) PROVE LoopInv'
  BY <1>2 DEF Grant, call
<1>3. ASSUME NEW t \in Thread, Wait(t) PROVE LoopInv'
  BY <1>3 DEF Wait, call
<1>4. ASSUME NEW t \in Thread, Wake(t) PROVE LoopInv'
  BY <1>4 DEF Wake, call
<1>5. ASSUME NEW t \in Thread, Finish(t) PROVE LoopInv'
  BY <1>5 DEF Finish
<1>6. ASSUME NEW t \in Thread, BackOff(t) PROVE LoopInv'
  BY <1>6 DEF BackOff
<1>7. ASSUME NEW t \in Thread, RetryAfter(t) PROVE LoopInv'
  BY <1>7 DEF RetryAfter
<1>8. ASSUME NEW t \in Thread, Again(t) PROVE LoopInv'
  BY <1>8 DEF Again
<1>9. ASSUME UNCHANGED <<pc, call>> PROVE LoopInv'
  BY <1>9 DEF call
<1> QED
  BY <1>1, <1>2, <1>3, <1>4, <1>5, <1>6, <1>7, <1>8, <1>9 DEF Next, Step, Tick, vars

\* The retry budget: no request goes out more often than it may.
THEOREM AttemptsAreBounded == Spec => []SentBounded
<1>1. LoopInv => SentBounded
  BY RetryIsValid DEF LoopInv, SentBounded
<1> QED
  BY <1>1, LoopInit, LoopNext, PTL DEF Spec

-----------------------------------------------------------------------------
LEMMA PauseInit == Init => PauseInv
BY DEF Init, PauseInv

LEMMA PauseNext == PauseInv /\ LoopInv /\ [Next]_vars => PauseInv'
<1> SUFFICES ASSUME PauseInv, LoopInv, [Next]_vars PROVE PauseInv'
  OBVIOUS
<1> USE BoundsAreNat DEF PauseInv, LoopInv, Goto, Sleep
<1>1. ASSUME NEW t \in Thread, Call(t) PROVE PauseInv'
  BY <1>1 DEF Call
<1>2. ASSUME NEW t \in Thread, Grant(t) \/ Wake(t) \/ Finish(t) PROVE PauseInv'
  BY <1>2 DEF Grant, Wake, Finish
<1>3. ASSUME NEW t \in Thread, Wait(t) PROVE PauseInv'
  <2>1. PICK d : nap' = [nap EXCEPT ![t] = d]
    BY <1>3 DEF Wait
  <2> QED
    BY <1>3, <2>1 DEF Wait
<1>4. ASSUME NEW t \in Thread, BackOff(t) PROVE PauseInv'
  <2>1. PICK d : nap' = [nap EXCEPT ![t] = d]
    BY <1>4 DEF BackOff
  <2> QED
    BY <1>4, <2>1 DEF BackOff
<1>5. ASSUME NEW t \in Thread, RetryAfter(t) PROVE PauseInv'
  <2>1. PICK w \in 1..MaxRetryAfter : /\ nap' = [nap EXCEPT ![t] = w]
                                      /\ hold' = [hold EXCEPT ![t] = w]
    BY <1>5 DEF RetryAfter
  <2> QED
    BY SMTT(30), <1>5, <2>1 DEF RetryAfter
<1>6. ASSUME NEW t \in Thread, Again(t) PROVE PauseInv'
  BY <1>6 DEF Again
<1>7. ASSUME Tick PROVE PauseInv'
  BY <1>7 DEF Tick, Less
<1>8. ASSUME UNCHANGED <<pc, hold, nap>> PROVE PauseInv'
  BY <1>8
<1> QED
  BY <1>1, <1>2, <1>3, <1>4, <1>5, <1>6, <1>7, <1>8 DEF Next, Step, vars

\* Retry-After is honoured before the next attempt, whatever the limiter does.
THEOREM PausesAreHonoured == Spec => []PauseHonoured
<1>1. PauseInv => PauseHonoured
  BY DEF PauseInv, PauseHonoured
<1> QED
  BY <1>1, LoopInit, LoopNext, PauseInit, PauseNext, PTL DEF Spec

-----------------------------------------------------------------------------
\* Only the limiter sends a thread from acquire to the queue, and it sends it to sleep
\* until the oldest permit that still counts is a window old.
LEMMA TurnedAwaySleeps ==
    ASSUME LimiterInv, LoopInv, PauseInv, Next, NEW t \in Thread,
           pc[t] = "acquire", pc'[t] = "queue"
    PROVE  nap'[t] > 0
<1>1. \A u \in Thread : \A s : Goto(u, s) => pc'[u] = s /\ \A v \in Thread \ {u} : pc'[v] = pc[v]
  BY DEF Goto, LoopInv
<1>2. Wait(t)
  BY <1>1 DEF Next, Step, Tick, Call, Grant, Wait, Wake, Finish, BackOff, RetryAfter, Again
<1>3. PICK oldest \in Evicted : Sleep(t, Window - age[oldest])
  BY <1>2 DEF Wait
<1>4. age[oldest] \in Nat /\ age[oldest] < Window
  <2>1. oldest \in Permit
    BY EvictedKeeps, BoundsAreNat DEF LimiterInv, Permit
  <2> QED BY <2>1, LimitIsValid DEF LimiterInv, Evicted
<1>5. nap'[t] = Window - age[oldest]
  BY <1>3 DEF Sleep, PauseInv
<1> QED BY <1>4, <1>5, LimitIsValid

\* A thread that the limiter turns away always sleeps, however the threads' clocks and
\* permits fall: acquire never spins on a permit that is exactly a window old.
THEOREM AcquireNeverSpins == Spec => NeverSpins
<1>1. LimiterInv /\ LoopInv /\ PauseInv /\ [Next]_vars
      => [\A t \in Thread : pc[t] = "acquire" /\ pc'[t] = "queue" => nap'[t] > 0]_vars
  BY TurnedAwaySleeps
<1> QED
  BY <1>1, LimiterInit, LimiterNext, LoopInit, LoopNext, PauseInit, PauseNext, PTL DEF Spec, NeverSpins

-----------------------------------------------------------------------------
\* The backlog. A run asks for no notice, so what it stores is a document that
\* parses or one that does not.
Fetched == {"good", "empty", "unparsable", "undated"}

BacklogInv ==
    /\ fate \in [Backlog!Filing -> Backlog!Fate]
    /\ pipeline = "form4" => \A f \in Backlog!Filing : fate[f] \notin {"undated", "notice"}
    /\ \A f \in pending \cap Backlog!Filing : fate[f] # "notice"
    /\ documents \subseteq Backlog!Filing
    /\ \A f \in documents : fate[f] \in Fetched

LEMMA BacklogStep ==
    ASSUME BacklogInv, MarkedIsStored, Backlog!Next
    PROVE  BacklogInv' /\ MarkedIsStored'
<1> USE DEF BacklogInv, MarkedIsStored, Backlog!MarkedIsStored
<1>1. CASE Backlog!File
  BY <1>1 DEF Backlog!File
<1>2. CASE Backlog!List4
  BY <1>2 DEF Backlog!List4
<1>3. ASSUME NEW backfill \in BOOLEAN, Backlog!Collect4(backfill)
      PROVE  BacklogInv' /\ MarkedIsStored'
  BY <1>3 DEF Backlog!Collect4
<1>4. ASSUME NEW backfill \in BOOLEAN, Backlog!Collect13F(backfill)
      PROVE  BacklogInv' /\ MarkedIsStored'
  <2>1. \A f \in pending' : fate[f] # "notice"
    BY <1>4 DEF Backlog!Collect13F, Backlog!SelectPhaseB, Backlog!Newest
  <2> QED BY <1>4, <2>1 DEF Backlog!Collect13F
<1>5. CASE Backlog!PhaseAFails
  BY <1>5 DEF Backlog!PhaseAFails
<1>6. ASSUME NEW f \in Backlog!Filing, Backlog!FetchOne(f)
      PROVE  BacklogInv' /\ MarkedIsStored'
  <2>1. fate[f] \in Fetched
    BY <1>6 DEF Backlog!FetchOne, Backlog!Fate, Fetched
  <2> QED BY <1>6, <2>1 DEF Backlog!FetchOne
<1>7. ASSUME NEW f \in Backlog!Filing, Backlog!FetchFails(f)
      PROVE  BacklogInv' /\ MarkedIsStored'
  BY <1>7 DEF Backlog!FetchFails
<1>8. CASE Backlog!Normalize4
  BY <1>8 DEF Backlog!Normalize4
<1>9. CASE Backlog!Normalize13F
  <2>1. \A f \in Backlog!Unnormalized : fate[f] \in Fetched
    BY DEF Backlog!Unnormalized
  <2> QED BY <1>9, <2>1 DEF Backlog!Normalize13F, Fetched
<1>10. CASE Backlog!JobDies
  BY <1>10 DEF Backlog!JobDies
<1> QED BY <1>1, <1>2, <1>3, <1>4, <1>5, <1>6, <1>7, <1>8, <1>9, <1>10
    DEF Backlog!Next, Backlog!Normalize

\* A mark is never a lie about a Form 4, and about a 13F only where the document
\* did not parse, whichever runs fail or die and whatever backfills come between:
\* a filing that carries a mark, and is not looked at again, has its rows.
THEOREM MarksAreTrue == MCSpec => []MarkedIsStored
<1>1. MCInit => MarkedIsStored /\ (subject = "backlog" => BacklogInv)
  BY DEF MCInit, MarkedIsStored, Backlog!MarkedIsStored, BacklogInv, NoBacklog,
      Backlog!Init, Backlog!Filing, Backlog!Fate
<1>2. /\ MarkedIsStored /\ (subject = "backlog" => BacklogInv)
      /\ [MCNext]_MCVars
      => (MarkedIsStored /\ (subject = "backlog" => BacklogInv))'
  <2> SUFFICES ASSUME MarkedIsStored, subject = "backlog" => BacklogInv, [MCNext]_MCVars
               PROVE  (MarkedIsStored /\ (subject = "backlog" => BacklogInv))'
    OBVIOUS
  <2>1. CASE subject = "backlog" /\ Backlog!Next /\ subject' = subject
    BY <2>1, BacklogStep
  <2>2. CASE UNCHANGED <<subject, backlogVars>>
    BY <2>2 DEF backlogVars, MarkedIsStored, Backlog!MarkedIsStored, BacklogInv
  <2> QED BY <2>1, <2>2 DEF MCNext, MCVars
<1> QED BY <1>1, <1>2, PTL DEF MCSpec
=============================================================================
