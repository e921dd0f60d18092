------------------------------- MODULE LakeProofs -------------------------------
(***************************************************************************)
(* The lake, of the modules that MCLake checks side by side, for every     *)
(* value of their constants: backfills that resume, normalizers that write *)
(* snapshots, DefiLlama's tables, FRED's vintages, whose proofs are those  *)
(* of FredVintagesProofs, instantiated, and the studies over stored rows.  *)
(***************************************************************************)
EXTENDS MCLake, Integers, Sequences, FiniteSetTheorems, TLAPS

-----------------------------------------------------------------------------
\* GDELT: up to the last complete window no published slot is missing, for any number
\* of runners and any lengths of the window and of a day, while the latest file
\* advances by the window and one slot at most.

\* A run that is under way stands at a slot, and parses only what is stored.
AtSlot ==
    \A r \in Runner :
        /\ pc[r] # "idle" => at[r] \in Nat \ {0}
        /\ pc[r] = "upsert" => at[r] \in blobs

\* Behind an incremental run nothing is missing: its window starts no later than
\* after the slot the last complete one reached.
Walked ==
    \A r \in Runner : daily[r] =>
        /\ last[r] <= latest
        /\ \A s \in 1..last[r] : s < at[r] /\ s \notin skipped => s \in rows

SlotInv ==
    /\ TypeOK
    /\ latest <= reach + MaxAdvance
    /\ AtSlot
    /\ Walked
    /\ NoSlotMissed

Overlaps == MaxAdvance <= Hours + 1

-----------------------------------------------------------------------------
LEMMA Boundaries ==
    /\ \A e \in Nat : WindowStart(e) \in Nat \ {0}
    /\ \A d \in Nat : DayStart(d) \in Nat \ {0} /\ DayEnd(d) \in Nat
<1>1. \A e \in Nat : WindowStart(e) \in Nat \ {0}
  BY WindowIsNat DEF WindowStart
<1>2. \A d \in Nat : d * DaySlots \in Nat
  BY WindowIsNat
<1>3. \A d \in Nat : DayStart(d) \in Nat \ {0}
  BY <1>2 DEF DayStart
<1>4. \A d \in Nat : (d + 1) * DaySlots \in Nat
  BY <1>2
<1>5. \A d \in Nat : DayEnd(d) \in Nat
  BY <1>4 DEF DayEnd
<1> QED
  BY <1>1, <1>3, <1>5

\* What a step of run r has to show when the other runs, GDELT and the reach
\* stand still and the lake at most grows.
LEMMA StepKeeps ==
    ASSUME SlotInv, TypeOK', NEW r \in Runner,
           latest' = latest, skipped' = skipped, reach' = reach,
           blobs \subseteq blobs', rows \subseteq rows',
           \A q \in Runner \ {r} : /\ pc'[q] = pc[q] /\ daily'[q] = daily[q]
                                   /\ at'[q] = at[q] /\ last'[q] = last[q],
           pc'[r] # "idle" => at'[r] \in Nat \ {0},
           pc'[r] = "upsert" => at'[r] \in blobs',
           daily'[r] =>
               /\ last'[r] <= latest
               /\ \A s \in 1..last'[r] : s < at'[r] /\ s \notin skipped => s \in rows'
    PROVE  SlotInv'
<1>1. AtSlot'
  <2> SUFFICES ASSUME NEW q \in Runner
               PROVE  /\ pc'[q] # "idle" => at'[q] \in Nat \ {0}
                      /\ pc'[q] = "upsert" => at'[q] \in blobs'
    BY DEF AtSlot
  <2>1. CASE q = r
    BY <2>1
  <2>2. CASE q # r
    BY <2>2 DEF SlotInv, AtSlot
  <2> QED BY <2>1, <2>2
<1>2. Walked'
  <2> SUFFICES ASSUME NEW q \in Runner, daily'[q]
               PROVE  /\ last'[q] <= latest
                      /\ \A s \in 1..last'[q] :
                            s < at'[q] /\ s \notin skipped => s \in rows'
    BY DEF Walked
  <2>1. CASE q = r
    BY <2>1
  <2>2. CASE q # r
    BY <2>2 DEF SlotInv, Walked
  <2> QED BY <2>1, <2>2
<1>3. NoSlotMissed'
  BY DEF SlotInv, NoSlotMissed
<1> QED
  BY <1>1, <1>2, <1>3 DEF SlotInv

LEMMA PublishKeeps ==
    ASSUME SlotInv, NEW skip \in BOOLEAN, Publish(skip)
    PROVE  SlotInv'
<1> USE DEF SlotInv, Publish, lake, run
<1>1. latest' \in 0..MaxSlot /\ latest < latest' /\ latest' <= reach + MaxAdvance
  BY AdvanceIsNat DEF TypeOK
<1>2. skipped \subseteq skipped' /\ \A s \in skipped' \ skipped : latest < s /\ s <= latest'
  BY AdvanceIsNat DEF TypeOK
<1>3. TypeOK'
  <2>1. reach' \in 0..latest' /\ skipped' \subseteq 1..latest'
    BY <1>1, <1>2 DEF TypeOK
  <2>2. blobs' \subseteq (1..latest') \ skipped'
    BY <1>1, <1>2 DEF TypeOK
  <2> QED BY <1>1, <2>1, <2>2 DEF TypeOK
<1>4. AtSlot'
  BY DEF AtSlot
<1>5. Walked'
  <2> SUFFICES ASSUME NEW q \in Runner, daily[q]
               PROVE  /\ last[q] <= latest'
                      /\ \A s \in 1..last[q] :
                            s < at[q] /\ s \notin skipped' => s \in rows
    BY DEF Walked
  <2>1. last[q] \in Nat /\ latest \in Nat /\ latest' \in Nat
    BY <1>1 DEF TypeOK
  <2> QED BY <1>1, <1>2, <2>1 DEF Walked
<1>6. NoSlotMissed'
  BY <1>2 DEF NoSlotMissed
<1> QED
  BY <1>1, <1>3, <1>4, <1>5, <1>6

LEMMA CollectKeeps ==
    ASSUME SlotInv, Overlaps, NEW r \in Runner, Collect(r)
    PROVE  SlotInv'
<1> USE DEF Collect, Begin, lake
<1>1. latest \in Nat /\ reach \in Nat /\ WindowStart(latest) \in Nat \ {0}
  BY AdvanceIsNat, Boundaries DEF SlotInv, TypeOK
<1>2. /\ pc'[r] = "fetch" /\ daily'[r]
      /\ at'[r] = WindowStart(latest) /\ last'[r] = latest
  BY DEF SlotInv, TypeOK
<1>3. TypeOK'
  BY <1>1 DEF SlotInv, TypeOK
<1>4. \A s \in 1..latest : s < WindowStart(latest) => s \in 1..reach
  BY <1>1, WindowIsNat, AdvanceIsNat DEF SlotInv, Overlaps, WindowStart
<1>5. \A s \in 1..latest : s < WindowStart(latest) /\ s \notin skipped => s \in rows
  BY <1>4 DEF SlotInv, NoSlotMissed
<1>6. \A q \in Runner \ {r} : /\ pc'[q] = pc[q] /\ daily'[q] = daily[q]
                              /\ at'[q] = at[q] /\ last'[q] = last[q]
  BY DEF SlotInv, TypeOK
<1>7. \A s \in 1..last'[r] : s < at'[r] /\ s \notin skipped => s \in rows'
  BY <1>2, <1>5
<1>8. last'[r] <= latest /\ at'[r] \in Nat \ {0}
  BY <1>1, <1>2
<1> HIDE DEF Collect, Begin
<1>9. /\ latest' = latest /\ skipped' = skipped /\ reach' = reach
      /\ blobs' = blobs /\ rows' = rows
  BY DEF Collect
<1> QED
  BY <1>2, <1>3, <1>6, <1>7, <1>8, <1>9, StepKeeps

LEMMA BackfillKeeps ==
    ASSUME SlotInv, NEW r \in Runner, NEW since \in Nat, NEW until \in Nat,
           Backfill(r, since, until)
    PROVE  SlotInv'
<1> USE DEF Backfill, Begin, lake
<1>1. DayStart(since) \in Nat \ {0} /\ DayEnd(until) \in Nat
  BY Boundaries
<1>2. pc'[r] = "fetch" /\ ~daily'[r] /\ at'[r] = DayStart(since)
  BY DEF SlotInv, TypeOK
<1>3. TypeOK'
  BY <1>1 DEF SlotInv, TypeOK
<1>4. \A q \in Runner \ {r} : /\ pc'[q] = pc[q] /\ daily'[q] = daily[q]
                              /\ at'[q] = at[q] /\ last'[q] = last[q]
  BY DEF SlotInv, TypeOK
<1> QED
  BY <1>1, <1>2, <1>3, <1>4, StepKeeps

LEMMA FetchKeeps ==
    ASSUME SlotInv, NEW r \in Runner, Fetch(r)
    PROVE  SlotInv'
<1> USE DEF Fetch
<1>1. at[r] \in Nat \ {0} /\ last[r] \in Nat
  BY DEF SlotInv, AtSlot, TypeOK
<1>2. \A q \in Runner \ {r} : /\ pc'[q] = pc[q] /\ daily'[q] = daily[q]
                              /\ at'[q] = at[q] /\ last'[q] = last[q]
  BY DEF SlotInv, TypeOK
<1>3. CASE at[r] \in blobs \/ Published(at[r])
  <2>1. blobs' = blobs \cup {at[r]} /\ pc'[r] = "upsert" /\ at' = at
    BY <1>3 DEF SlotInv, TypeOK
  <2>2. at[r] \in (1..latest) \ skipped
    BY <1>1, <1>3, AdvanceIsNat DEF SlotInv, TypeOK, Published
  <2>3. TypeOK'
    BY <1>3, <2>1, <2>2 DEF SlotInv, TypeOK
  <2>4. daily[r] =>
            /\ last[r] <= latest
            /\ \A s \in 1..last[r] : s < at[r] /\ s \notin skipped => s \in rows
    BY DEF SlotInv, Walked
  <2> QED BY <1>1, <1>2, <2>1, <2>3, <2>4, StepKeeps
<1>4. CASE ~(at[r] \in blobs \/ Published(at[r]))
  <2>1. blobs' = blobs /\ pc' = pc /\ at'[r] = at[r] + 1
    BY <1>4 DEF SlotInv, TypeOK
  <2>2. TypeOK'
    <3>1. at[r] + 1 \in Nat /\ at' = [at EXCEPT ![r] = at[r] + 1]
      BY <1>1, <1>4
    <3>2. at' \in [Runner -> Nat]
      BY <3>1 DEF SlotInv, TypeOK
    <3> QED BY <1>4, <2>1, <3>2 DEF SlotInv, TypeOK
  <2>3. ASSUME daily[r]
        PROVE  /\ last[r] <= latest
               /\ \A s \in 1..last[r] : s < at[r] + 1 /\ s \notin skipped => s \in rows
    <3>1. last[r] <= latest /\ at[r] <= latest
      BY <1>1, <2>3, AdvanceIsNat DEF SlotInv, Walked, TypeOK
    <3>2. at[r] \in skipped
      BY <1>4, <3>1 DEF Published
    <3> QED BY <1>1, <2>3, <3>1, <3>2 DEF SlotInv, Walked
  <2> QED BY <1>1, <1>2, <2>1, <2>2, <2>3, StepKeeps
<1> QED
  BY <1>3, <1>4

LEMMA UpsertKeeps ==
    ASSUME SlotInv, NEW r \in Runner, Upsert(r)
    PROVE  SlotInv'
<1> USE DEF Upsert
<1>1. at[r] \in Nat \ {0} /\ at[r] \in blobs /\ last[r] \in Nat
  BY DEF SlotInv, AtSlot, TypeOK
<1>2. \A q \in Runner \ {r} : /\ pc'[q] = pc[q] /\ daily'[q] = daily[q]
                              /\ at'[q] = at[q] /\ last'[q] = last[q]
  BY DEF SlotInv, TypeOK
<1>3. pc'[r] = "fetch" /\ at'[r] = at[r] + 1
  BY DEF SlotInv, TypeOK
<1>4. TypeOK'
  <2>1. at[r] + 1 \in Nat /\ at' = [at EXCEPT ![r] = at[r] + 1]
    BY <1>1
  <2>2. at' \in [Runner -> Nat]
    BY <2>1 DEF SlotInv, TypeOK
  <2>3. pc' \in [Runner -> {"idle", "fetch", "upsert"}]
    BY DEF SlotInv, TypeOK
  <2>4. rows' \subseteq blobs'
    BY <1>1 DEF SlotInv, TypeOK
  <2> QED BY <2>2, <2>3, <2>4 DEF SlotInv, TypeOK
<1>5. daily[r] =>
          /\ last[r] <= latest
          /\ \A s \in 1..last[r] : s < at[r] + 1 /\ s \notin skipped => s \in rows'
  BY <1>1 DEF SlotInv, Walked
<1> QED
  BY <1>1, <1>2, <1>3, <1>4, <1>5, StepKeeps

LEMMA ExitKeeps ==
    ASSUME SlotInv, NEW r \in Runner, Exit(r),
           reach' \in reach..latest, NoSlotMissed'
    PROVE  SlotInv'
<1> USE DEF Exit, lake
<1>1. TypeOK'
  BY AdvanceIsNat DEF SlotInv, TypeOK
<1>2. latest' <= reach' + MaxAdvance
  <2>1. latest \in Nat /\ reach \in Nat /\ latest' = latest
    BY AdvanceIsNat DEF SlotInv, TypeOK
  <2>2. latest <= reach + MaxAdvance
    BY DEF SlotInv
  <2>3. reach' \in Nat /\ reach <= reach'
    BY <2>1
  <2>4. latest <= reach' + MaxAdvance
    <3>1. \A m, a, b, c \in Nat : c <= a + m /\ a <= b => c <= b + m
      OBVIOUS
    <3> QED BY <2>1, <2>2, <2>3, <3>1, AdvanceIsNat
  <2> QED BY <2>1, <2>4
<1>3. AtSlot'
  BY DEF SlotInv, TypeOK, AtSlot
<1>4. Walked'
  BY DEF SlotInv, TypeOK, Walked
<1> QED
  BY <1>1, <1>2, <1>3, <1>4 DEF SlotInv

LEMMA FinishKeeps ==
    ASSUME SlotInv, NEW r \in Runner, Finish(r)
    PROVE  SlotInv'
<1> USE DEF Finish
<1>1. skipped' = skipped /\ rows' = rows
  BY DEF Exit, lake
<1>2. latest \in Nat /\ reach \in 0..latest /\ last[r] \in Nat /\ at[r] \in Nat
  BY AdvanceIsNat DEF SlotInv, TypeOK
<1>3. daily[r] => /\ last[r] <= latest
                  /\ \A s \in 1..last[r] : s \notin skipped => s \in rows
  BY <1>2 DEF SlotInv, Walked
<1>4. reach' \in reach..latest
  BY <1>2, <1>3
<1>5. NoSlotMissed'
  BY <1>1, <1>3 DEF SlotInv, NoSlotMissed
<1> QED
  BY <1>4, <1>5, ExitKeeps

LEMMA FailKeeps ==
    ASSUME SlotInv, NEW r \in Runner, Fail(r)
    PROVE  SlotInv'
<1>1. Exit(r) /\ reach' = reach
  BY DEF Fail
<1>2. reach' \in reach..latest
  BY <1>1, AdvanceIsNat DEF SlotInv, TypeOK
<1>3. NoSlotMissed'
  BY <1>1 DEF SlotInv, NoSlotMissed, Exit, lake
<1> QED
  BY <1>1, <1>2, <1>3, ExitKeeps

\* SlotInv is inductive when a window reaches back to the slot after the last
\* complete one's end.
THEOREM SlotInvariant ==
    ASSUME Overlaps
    PROVE  Spec => []SlotInv
<1>1. Init => SlotInv
  BY WindowIsNat, AdvanceIsNat
     DEF Init, SlotInv, TypeOK, AtSlot, Walked, NoSlotMissed
<1>2. SlotInv /\ [Next]_vars => SlotInv'
  <2> SUFFICES ASSUME SlotInv, [Next]_vars PROVE SlotInv'
    OBVIOUS
  <2>1. ASSUME NEW skip \in BOOLEAN, Publish(skip) PROVE SlotInv'
    BY <2>1, PublishKeeps
  <2>2. ASSUME NEW r \in Runner, Step(r) PROVE SlotInv'
    <3>1. ASSUME NEW since \in 0..DayOf(MaxSlot), NEW until \in 0..DayOf(MaxSlot),
                 Backfill(r, since, until)
          PROVE SlotInv'
      BY <3>1, BackfillKeeps
    <3> QED
      BY <2>2, <3>1, CollectKeeps, FetchKeeps, UpsertKeeps, FinishKeeps, FailKeeps
         DEF Step
  <2>3. CASE UNCHANGED vars
    BY <2>3 DEF vars, lake, run, SlotInv, TypeOK, AtSlot, Walked, NoSlotMissed
  <2> QED
    BY <2>1, <2>2, <2>3 DEF Next
<1> QED
  BY <1>1, <1>2, PTL DEF Spec

\* gdelt.py:293-311: one slot of overlap is enough. While GDELT's latest file
\* advances between complete runs by the window and one slot at most, every
\* published slot up to the last complete window is in gdelt.gkg.
THEOREM NothingMissed ==
    ASSUME Overlaps
    PROVE  Spec => []NoSlotMissed
<1>1. SlotInv => NoSlotMissed
  BY DEF SlotInv
<1> QED
  BY <1>1, SlotInvariant, PTL

-----------------------------------------------------------------------------

\* A step is one of a single module, and leaves the variables of the others alone.
LEMMA OneSubject ==
    ASSUME [MCNext]_MCVars
    PROVE  /\ UNCHANGED subject
           /\ (subject = "fred" /\ Fred!Next) \/ UNCHANGED fredVars
           /\ (subject = "collector" /\ Collector!Next) \/ UNCHANGED collectorVars
           /\ (subject = "backfill" /\ Backfills!Next) \/ UNCHANGED backfillVars
           /\ (subject = "normalizer" /\ Normalizer!Next) \/ UNCHANGED normalizerVars
           /\ (subject = "llama" /\ Llama!Next) \/ UNCHANGED llamaVars
           /\ (subject = "study" /\ Study!Next) \/ UNCHANGED studyVars
           /\ (subject = "score" /\ Score!Next) \/ UNCHANGED scoreVars
BY DEF MCNext, MCVars, SlotStep, FredStep, PagingStep, CollectorStep, BackfillStep, NormalizerStep,
    CacheStep, PoolStep, EmitterStep, StudyStep, WatchlistStep, MonitorStep, NotebookStep, LlamaStep,
    ScoreStep, ReportStep, ParserStep

-----------------------------------------------------------------------------
\* BackfillResume. A URL the latest run has got to, and has not named as missed,
\* has a blob of that run no older than the window was then, as long as the
\* retention job cannot have taken such a blob.
HasBlob(u) == \E b \in rawBlobs : b.run = runNo /\ b.url = u /\ b.stamp + ResumeWindow >= reachedOn[u]

BackfillInv ==
    /\ date \in Nat \ {0} /\ runNo \in Nat
    /\ reachedOn \in [Url -> Nat]
    /\ \A b \in rawBlobs : b.stamp \in Nat /\ b.stamp = b.real
    /\ \A q \in succeeded : q \in Nat /\ q <= runNo
    /\ runNo \in succeeded => \A u \in Url : reachedOn[u] # 0
    /\ \A u \in Url \ missed :
          reachedOn[u] # 0 /\ date + ResumeWindow <= reachedOn[u] + RetentionDays => HasBlob(u)

LEMMA BackfillInit == Backfills!Init => BackfillInv
BY DEF Backfills!Init, BackfillInv

\* The run takes a blob of u no older than the window.
LEMMA BackfillTakes ==
    ASSUME BackfillInv, NEW u \in Url, NEW s \in Nat, s + ResumeWindow >= date,
           rawBlobs' = rawBlobs \cup {Backfills!Blob(runNo, u, s, s)},
           reachedOn' = [reachedOn EXCEPT ![u] = date], UNCHANGED <<date, runNo, succeeded, missed>>
    PROVE  BackfillInv'
<1> DEFINE new == Backfills!Blob(runNo, u, s, s)
<1>1. new.run = runNo /\ new.url = u /\ new.stamp = s /\ new.real = s /\ new \in rawBlobs'
  BY DEF Backfills!Blob
<1>2. reachedOn' \in [Url -> Nat] /\ \A v \in Url : reachedOn'[v] = IF v = u THEN date ELSE reachedOn[v]
  BY DEF BackfillInv
<1> HIDE DEF new
<1>3. \A b \in rawBlobs' : b \in rawBlobs \/ b = new
  BY DEF new
<1>4. \A b \in rawBlobs' : b.stamp \in Nat /\ b.stamp = b.real
  BY <1>1, <1>3 DEF BackfillInv
<1>5. \A v \in Url : v = u \/ HasBlob(v) => HasBlob(v)'
  BY <1>1, <1>2 DEF HasBlob
<1> QED BY <1>2, <1>4, <1>5 DEF BackfillInv

LEMMA BackfillStepInv ==
    ASSUME BackfillInv, Backfills!Next
    PROVE  BackfillInv'
<1> USE ResumeBounds DEF BackfillInv, HasBlob
<1>1. CASE Backfills!NextDay
  BY <1>1 DEF Backfills!NextDay
<1>2. CASE Backfills!Retention
  BY <1>2 DEF Backfills!Retention
<1>3. CASE Backfills!Start
  BY <1>3 DEF Backfills!Start
<1>4. CASE Backfills!Finish
  BY <1>4 DEF Backfills!Finish
<1>5. ASSUME NEW u \in Url, Backfills!DailyBlob(u) PROVE BackfillInv'
  BY <1>5 DEF Backfills!DailyBlob, Backfills!Blob
<1>6. ASSUME NEW u \in Url, Backfills!FetchWithResume(u) PROVE BackfillInv'
  <2>1. CASE Backfills!CachedBlob(u) # {}
    <3>1. PICK b \in Backfills!CachedBlob(u) :
             rawBlobs' = rawBlobs \cup {Backfills!CopyRawBlob(u, b)} /\ UNCHANGED missed
      BY <1>6, <2>1 DEF Backfills!FetchWithResume
    <3>2. b.stamp \in Nat /\ b.stamp = b.real /\ b.stamp + ResumeWindow >= date
      BY DEF Backfills!CachedBlob
    <3> QED BY <1>6, <3>1, <3>2, BackfillTakes DEF Backfills!FetchWithResume, Backfills!CopyRawBlob
  <2>2. CASE rawBlobs' = rawBlobs \cup {Backfills!Blob(runNo, u, date, date)} /\ UNCHANGED missed
    <3>1. date \in Nat /\ date + ResumeWindow >= date
      OBVIOUS
    <3> QED BY <1>6, <2>2, <3>1, BackfillTakes DEF Backfills!FetchWithResume
  <2>3. CASE missed' = missed \cup {u} /\ UNCHANGED rawBlobs
    BY <1>6, <2>3 DEF Backfills!FetchWithResume
  <2> QED BY <1>6, <2>1, <2>2, <2>3 DEF Backfills!FetchWithResume
<1> QED BY <1>1, <1>2, <1>3, <1>4, <1>5, <1>6 DEF Backfills!Next

\* What a run that succeeded has got to is all there is.
LEMMA BackfillIsWhole == BackfillInv => Backfills!ResumeIsWholeAndTrue
<1> SUFFICES ASSUME BackfillInv PROVE Backfills!ResumeIsWholeAndTrue
  OBVIOUS
<1>1. ASSUME runNo \in succeeded, NEW u \in Url \ missed, date <= reachedOn[u] + RetentionDays - ResumeWindow
      PROVE  \E b \in Backfills!NormalizerReads : b.url = u
  <2>1. HasBlob(u)
    BY <1>1, ResumeBounds DEF BackfillInv
  <2> QED BY <1>1, <2>1 DEF HasBlob, BackfillInv, Backfills!NormalizerReads
<1> QED BY <1>1 DEF BackfillInv, Backfills!ResumeIsWholeAndTrue

\* However often a backfill is resumed, its latest run that succeeded has for every
\* URL that it does not name as missed a blob no older than the resume window, and no
\* blob says it was fetched when it was not.
THEOREM BackfillsResume == MCSpec => []ResumeIsWholeAndTrue
<1>1. MCInit => BackfillInv
  BY BackfillInit DEF MCInit
<1>2. BackfillInv /\ [MCNext]_MCVars => BackfillInv'
  <2> SUFFICES ASSUME BackfillInv, [MCNext]_MCVars PROVE BackfillInv'
    OBVIOUS
  <2>1. CASE UNCHANGED backfillVars
    BY <2>1 DEF backfillVars, BackfillInv, HasBlob
  <2> QED BY <2>1, BackfillStepInv, OneSubject
<1>3. BackfillInv => ResumeIsWholeAndTrue
  BY BackfillIsWhole DEF ResumeIsWholeAndTrue
<1> QED BY <1>1, <1>2, <1>3, PTL DEF MCSpec

-----------------------------------------------------------------------------
\* Normalizers. The lock is held while a day of ranks is deleted and written
\* again, and what was deleted is all there was.
RanksOf(w) == {c \in Normalizer!Coin : rank[c] # 0} = Normalizer!Top[w]
              /\ \A c \in Normalizer!Top[w] : rank[c] = w

RankInv ==
    /\ rank \in [Normalizer!Coin -> {0} \cup Normalizer!Writer]
    /\ tx \in [Normalizer!Writer ->
                 [step : {"idle", "locked", "deleted"}, deleted : SUBSET Normalizer!Coin]]
    /\ \A w \in Normalizer!Writer :
          /\ tx[w].step # "idle" => holder = w
          /\ tx[w].step = "deleted" => tx[w].deleted = {c \in Normalizer!Coin : rank[c] # 0}
    /\ (\A c \in Normalizer!Coin : rank[c] = 0) \/ \E w \in Normalizer!Writer : RanksOf(w)

\* The names on the watchlist are of series that there are; what a strict normalizer
\* was to write is all of its last run.
SnapshotInv ==
    /\ watched \subseteq SeriesIds /\ normalized.watched \subseteq SeriesIds
    /\ feed \in Normalizer!Strict => \A s \in normalized.watched : tables[s] = normalized.run

LEMMA NormalizerInit == Normalizer!Init => SnapshotInv /\ RankInv
BY DEF Normalizer!Init, SnapshotInv, RankInv, Normalizer!Writer

\* A strict normalizer writes a series of every name the watchlist has; the
\* others are not strict.
LEMMA SnapshotStep ==
    ASSUME SnapshotInv, Normalizer!Next
    PROVE  SnapshotInv'
<1> USE DEF SnapshotInv, Normalizer!rankVars
<1>1. CASE Normalizer!EditWatchlist
  BY <1>1 DEF Normalizer!EditWatchlist
<1>2. ASSUME NEW endpoint, Normalizer!Collect(endpoint) PROVE SnapshotInv'
  BY <1>2 DEF Normalizer!Collect
<1>3. ASSUME NEW f, NEW r, Normalizer!StrictNormalize(f, r) PROVE SnapshotInv'
  <2>1. watched \cap runs[r].blobs = watched
    BY <1>3 DEF Normalizer!StrictNormalize, Normalizer!ValidateBlobCoverage
  <2> QED BY <1>3, <2>1 DEF Normalizer!StrictNormalize, Normalizer!Write
<1>4. ASSUME NEW f \in {"coinbase", "yahoo", "sec", "coingecko"}, NEW r, NEW endpoints,
             Normalizer!BlobsNormalize(f, r, endpoints)
      PROVE  SnapshotInv'
  BY <1>4 DEF Normalizer!BlobsNormalize, Normalizer!Write, Normalizer!Strict
<1>5. CASE UNCHANGED Normalizer!runVars /\ UNCHANGED feed
  BY <1>5 DEF Normalizer!runVars
<1>6. ASSUME NEW w \in Normalizer!Writer,
             Normalizer!LockRanks(w) \/ Normalizer!DeleteDay(w) \/ Normalizer!UpsertRanks(w) \/ Normalizer!Abort(w)
      PROVE  SnapshotInv'
  BY <1>5, <1>6 DEF Normalizer!LockRanks, Normalizer!DeleteDay, Normalizer!UpsertRanks, Normalizer!Abort
<1> QED BY <1>1, <1>2, <1>3, <1>4, <1>6 DEF Normalizer!Next, Normalizer!BeaNormalize, Normalizer!EiaNormalize,
    Normalizer!TreasuryNormalize, Normalizer!CoinbaseNormalize, Normalizer!YahooNormalize,
    Normalizer!SecNormalize, Normalizer!CoinGeckoNormalize

\* Whoever writes the ranks of a day holds the lock from the delete to the commit.
LEMMA RankStep ==
    ASSUME RankInv, Normalizer!Next
    PROVE  RankInv'
<1> USE DEF RankInv, RanksOf, Normalizer!Step, Normalizer!Writer, Normalizer!Coin, Normalizer!Nobody
<1>1. CASE UNCHANGED Normalizer!rankVars
  BY <1>1 DEF Normalizer!rankVars
<1>2. ASSUME NEW w \in Normalizer!Writer, Normalizer!LockRanks(w) PROVE RankInv'
  BY <1>2 DEF Normalizer!LockRanks
<1>3. ASSUME NEW w \in Normalizer!Writer, Normalizer!DeleteDay(w) PROVE RankInv'
  BY <1>3 DEF Normalizer!DeleteDay
<1>4. ASSUME NEW w \in Normalizer!Writer, Normalizer!UpsertRanks(w) PROVE RankInv'
  BY <1>4 DEF Normalizer!UpsertRanks, Normalizer!Top
<1>5. ASSUME NEW w \in Normalizer!Writer, Normalizer!Abort(w) PROVE RankInv'
  BY <1>5 DEF Normalizer!Abort
<1>6. \/ UNCHANGED Normalizer!rankVars
      \/ \E w \in Normalizer!Writer :
            Normalizer!LockRanks(w) \/ Normalizer!DeleteDay(w) \/ Normalizer!UpsertRanks(w) \/ Normalizer!Abort(w)
  BY DEF Normalizer!Next, Normalizer!EditWatchlist, Normalizer!Collect, Normalizer!BeaNormalize,
      Normalizer!EiaNormalize, Normalizer!TreasuryNormalize, Normalizer!CoinbaseNormalize,
      Normalizer!YahooNormalize, Normalizer!SecNormalize, Normalizer!CoinGeckoNormalize,
      Normalizer!StrictNormalize, Normalizer!BlobsNormalize, Normalizer!Write
<1> QED BY <1>1, <1>2, <1>3, <1>4, <1>5, <1>6

-----------------------------------------------------------------------------
\* DefiLlamaTables. A table says of each thing which run it is of: the last that
\* had it.

\* What a run of the DeFiLlama normalizer can have been given.
Payloads == Llama!Points \cup {Llama!Snapshot(t) : t \in Llama!Time}
Given ==
    CASE llamaTable = "protocol_fees" -> [fees : SUBSET Llama!Day, revenue : SUBSET Llama!Day]
      [] llamaTable = "protocols" -> [listed : SUBSET Llama!Slug, series : SUBSET Llama!Slug]
      [] OTHER -> Payloads

\* m is the last of S, 0 if S is empty.
IsLast(m, S) == m \in {0} \cup S /\ \A n \in S : n <= m

\* Natural numbers have a least.
LEMMA LeastNat ==
    ASSUME NEW S \in SUBSET Nat, S # {}
    PROVE  \E n \in S : \A m \in S : n <= m
<1> DEFINE R == OpToRel(<, Nat)
<1>1. \A m, n \in Nat : <<m, n>> \in R <=> m < n
  BY DEF OpToRel
<1>2. IsWellFoundedOn(R, Nat)
  BY NatLessThanWellFounded
<1> HIDE DEF R
<1>3. PICK n \in S : \A m \in S : ~ (<<m, n>> \in R)
  BY <1>2, WFMin
<1> SUFFICES ASSUME NEW m \in S PROVE n <= m
  OBVIOUS
<1>4. m \in Nat /\ n \in Nat
  OBVIOUS
<1>5. ~ (m < n)
  BY <1>1, <1>3, <1>4
<1> QED BY <1>4, <1>5

LEMMA LastIsMax ==
    ASSUME NEW S \in SUBSET Nat, NEW m, IsLast(m, S)
    PROVE  Llama!Max({0} \cup S) = m
<1>1. m \in {0} \cup S /\ \A y \in {0} \cup S : m >= y
  BY DEF IsLast
<1>2. ASSUME NEW x \in {0} \cup S, \A y \in {0} \cup S : x >= y PROVE x = m
  BY <1>1, <1>2
<1> QED BY <1>1, <1>2 DEF Llama!Max

LEMMA MaxIsLast ==
    ASSUME NEW k \in Nat, NEW S \in SUBSET (1..k)
    PROVE  IsLast(Llama!Max({0} \cup S), S)
<1> DEFINE U == {0} \cup S
           Gap == {k - n : n \in U}
<1>1. Gap \in SUBSET Nat /\ k - 0 \in Gap
  OBVIOUS
<1>0. \A y \in U : y \in Int
  OBVIOUS
<1>2. PICK g \in Gap : \A h \in Gap : g <= h
  <2>1. Gap # {}
    BY <1>1
  <2> HIDE DEF Gap
  <2> QED BY <1>1, <2>1, LeastNat
<1>3. PICK m \in U : g = k - m
  OBVIOUS
<1>4. \A y \in U : m >= y
  <2> TAKE y \in U
  <2>1. g <= k - y
    BY <1>2
  <2>2. y \in Int /\ m \in Int
    BY <1>0
  <2> HIDE DEF Gap, U
  <2> QED BY <1>3, <2>1, <2>2
<1>5. IsLast(m, S) /\ S \in SUBSET Nat
  BY <1>4 DEF IsLast
<1> QED BY <1>5, LastIsMax

-----------------------------------------------------------------------------
FeeRuns(d)     == {n \in DOMAIN log : d \in log[n].fees}
RevenueRuns(d) == {n \in DOMAIN log : d \in log[n].revenue}

FeesInv ==
    llamaTable = "protocol_fees" =>
    /\ llamaRows \in [Llama!Day -> [fees : Nat, revenue : Nat, by : Nat]]
    /\ \A d \in Llama!Day :
          IsLast(llamaRows[d].fees, FeeRuns(d)) /\ IsLast(llamaRows[d].revenue, RevenueRuns(d))

Listings(s) == {n \in DOMAIN log : s \in log[n].listed}

ProtocolsInv ==
    llamaTable = "protocols" =>
    /\ llamaRows \in [Llama!Slug -> [kind : {"none", "stub", "real"}, by : Nat]]
    /\ \A s \in Llama!Slug :
          /\ (\E n \in DOMAIN log : s \in log[n].series) => llamaRows[s].kind # "none"
          /\ IF llamaRows[s].kind = "real" THEN llamaRows[s].by # 0 /\ IsLast(llamaRows[s].by, Listings(s))
             ELSE Listings(s) = {}

PlainAt(n, i, k) == i \in DOMAIN log[n] /\ Llama!Plain(log[n][i]) /\ Llama!DayAlign(log[n][i].at) = k

DaysInv ==
    llamaTable \in {"protocol_tvl", "stablecoins"} =>
    /\ \A r \in llamaRows :
          /\ r.at \in Nat /\ r.key = Llama!DayAlign(r.at)
          /\ r.by \in DOMAIN log /\ \E i : PlainAt(r.by, i, r.key)
    /\ \A q, r \in llamaRows : q.key = r.key => q = r
    /\ \A n \in DOMAIN log : \A i, k : PlainAt(n, i, k) => \E r \in llamaRows : r.key = k /\ n <= r.by

LlamaInv == log \in Seq(Given) /\ FeesInv /\ ProtocolsInv /\ DaysInv

LEMMA LlamaInit == Llama!Init => LlamaInv
<1> SUFFICES ASSUME Llama!Init PROVE LlamaInv
  OBVIOUS
<1>1. log \in Seq(Given) /\ DOMAIN log = {}
  BY DEF Llama!Init
<1>2. FeesInv
  BY <1>1 DEF Llama!Init, FeesInv, FeeRuns, RevenueRuns, IsLast, Llama!NoFees
<1>3. ProtocolsInv
  BY <1>1 DEF Llama!Init, ProtocolsInv, Listings
<1>4. DaysInv
  BY <1>1 DEF Llama!Init, DaysInv, Llama!Series
<1> QED BY <1>1, <1>2, <1>3, <1>4 DEF LlamaInv

\* The log grows by what the run was given.
LEMMA LogGrows ==
    ASSUME NEW G, log \in Seq(G), NEW g \in G, log' = Append(log, g)
    PROVE  /\ log' \in Seq(G)
           /\ Len(log) \in Nat /\ Len(log) + 1 \notin DOMAIN log
           /\ DOMAIN log \subseteq Nat \ {0} /\ \A n \in DOMAIN log : n <= Len(log)
           /\ DOMAIN log' = DOMAIN log \cup {Len(log) + 1}
           /\ log'[Len(log) + 1] = g
           /\ \A n \in DOMAIN log : log'[n] = log[n]
OBVIOUS

\* A run that has the thing is the last, one that has not changes nothing.
LEMMA LastGrows ==
    ASSUME NEW k \in Nat, NEW S, NEW T, NEW m, IsLast(m, S), \A n \in S : n \in Nat /\ n <= k,
           T \subseteq S \cup {k + 1}, S \subseteq T
    PROVE  /\ k + 1 \in T => IsLast(k + 1, T)
           /\ k + 1 \notin T => IsLast(m, T)
BY DEF IsLast

LEMMA FeesStep ==
    ASSUME LlamaInv, NEW fees \in SUBSET Llama!Day, NEW revenue \in SUBSET Llama!Day,
           Llama!NormalizeFees(fees, revenue)
    PROVE  LlamaInv'
<1> DEFINE n == Len(log) + 1
           g == [fees |-> fees, revenue |-> revenue]
<1>1. /\ llamaTable = "protocol_fees" /\ llamaTable' = llamaTable
      /\ llamaRows' = Llama!UpsertFees(llamaRows, fees, revenue, n)
      /\ log' = Append(log, g) /\ g \in Given /\ log \in Seq(Given)
  BY DEF Llama!NormalizeFees, LlamaInv, Given
<1>2. g.fees = fees /\ g.revenue = revenue
  OBVIOUS
<1> HIDE DEF g
<1>3. /\ log' \in Seq(Given)
      /\ n \in Nat /\ n \notin DOMAIN log
      /\ DOMAIN log \subseteq Nat \ {0} /\ \A m \in DOMAIN log : m <= Len(log)
      /\ DOMAIN log' = DOMAIN log \cup {n}
      /\ log'[n] = g /\ \A m \in DOMAIN log : log'[m] = log[m]
  BY <1>1, LogGrows
<1>4. log' \in Seq(Given')
  BY <1>1, <1>3 DEF Given
<1>5. \A d \in Llama!Day :
         /\ FeeRuns(d)' = IF d \in fees THEN FeeRuns(d) \cup {n} ELSE FeeRuns(d)
         /\ RevenueRuns(d)' = IF d \in revenue THEN RevenueRuns(d) \cup {n} ELSE RevenueRuns(d)
  BY <1>2, <1>3 DEF FeeRuns, RevenueRuns
<1>6. llamaRows \in [Llama!Day -> [fees : Nat, revenue : Nat, by : Nat]]
  BY <1>1 DEF LlamaInv, FeesInv
<1>7. /\ llamaRows' \in [Llama!Day -> [fees : Nat, revenue : Nat, by : Nat]]
      /\ \A d \in Llama!Day :
            /\ llamaRows'[d].fees = IF d \in fees THEN n ELSE llamaRows[d].fees
            /\ llamaRows'[d].revenue = IF d \in revenue THEN n ELSE llamaRows[d].revenue
  BY <1>1, <1>3, <1>6 DEF Llama!UpsertFees
<1>8. ASSUME NEW d \in Llama!Day
      PROVE  IsLast(llamaRows'[d].fees, FeeRuns(d)') /\ IsLast(llamaRows'[d].revenue, RevenueRuns(d)')
  <2>1. \A m \in FeeRuns(d) \cup RevenueRuns(d) : m \in Nat /\ m <= Len(log)
    BY <1>3 DEF FeeRuns, RevenueRuns
  <2>2. IsLast(llamaRows[d].fees, FeeRuns(d)) /\ IsLast(llamaRows[d].revenue, RevenueRuns(d))
    BY <1>1 DEF LlamaInv, FeesInv
  <2>3. Len(log) \in Nat /\ n \notin FeeRuns(d) /\ n \notin RevenueRuns(d)
    BY <1>1, <1>3 DEF FeeRuns, RevenueRuns
  <2>4. IsLast(llamaRows'[d].fees, FeeRuns(d)')
    BY <1>5, <1>7, <2>1, <2>2, <2>3, LastGrows
  <2>5. IsLast(llamaRows'[d].revenue, RevenueRuns(d)')
    BY <1>5, <1>7, <2>1, <2>2, <2>3, LastGrows
  <2> QED BY <2>4, <2>5
<1> QED BY <1>1, <1>4, <1>7, <1>8 DEF LlamaInv, FeesInv, ProtocolsInv, DaysInv

LEMMA ProtocolsStep ==
    ASSUME LlamaInv, NEW mode, NEW listed \in SUBSET Llama!Slug, NEW referred \in SUBSET Llama!Slug,
           Llama!NormalizeProtocols(mode, listed, referred)
    PROVE  LlamaInv'
<1> DEFINE n == Len(log) + 1
           g == [listed |-> listed, series |-> referred]
           Row == [kind : {"none", "stub", "real"}, by : Nat]
<1>1. /\ llamaTable = "protocols" /\ llamaTable' = llamaTable
      /\ llamaRows' = Llama!Stubbed(Llama!Listed(llamaRows, listed, n), referred \ listed, n)
      /\ log' = Append(log, g) /\ g \in Given /\ log \in Seq(Given)
  BY DEF Llama!NormalizeProtocols, Llama!Stubs, LlamaInv, Given
<1>2. g.listed = listed /\ g.series = referred
  OBVIOUS
<1> HIDE DEF g
<1>3. /\ log' \in Seq(Given)
      /\ n \in Nat \ {0} /\ Len(log) \in Nat /\ n \notin DOMAIN log
      /\ DOMAIN log \subseteq Nat \ {0} /\ \A m \in DOMAIN log : m <= Len(log)
      /\ DOMAIN log' = DOMAIN log \cup {n}
      /\ log'[n] = g /\ \A m \in DOMAIN log : log'[m] = log[m]
  BY <1>1, LogGrows
<1>4. log' \in Seq(Given')
  BY <1>1, <1>3 DEF Given
<1>5. \A s \in Llama!Slug : Listings(s)' = IF s \in listed THEN Listings(s) \cup {n} ELSE Listings(s)
  BY <1>2, <1>3 DEF Listings
<1>6. llamaRows \in [Llama!Slug -> Row]
  BY <1>1 DEF LlamaInv, ProtocolsInv
<1>7. /\ llamaRows' \in [Llama!Slug -> Row]
      /\ \A s \in Llama!Slug :
            /\ s \in listed => llamaRows'[s].kind = "real" /\ llamaRows'[s].by = n
            /\ s \in referred \ listed /\ llamaRows[s].kind = "none" => llamaRows'[s].kind = "stub"
            /\ s \notin listed /\ (s \notin referred \/ llamaRows[s].kind # "none") => llamaRows'[s] = llamaRows[s]
  BY <1>1, <1>3, <1>6 DEF Llama!Stubbed, Llama!Listed
<1> HIDE DEF Row, n
<1>8. ASSUME NEW s \in Llama!Slug
      PROVE  /\ (\E m \in DOMAIN log' : s \in log'[m].series) => llamaRows'[s].kind # "none"
             /\ IF llamaRows'[s].kind = "real" THEN llamaRows'[s].by # 0 /\ IsLast(llamaRows'[s].by, Listings(s)')
                ELSE Listings(s)' = {}
  <2>1. /\ (\E m \in DOMAIN log : s \in log[m].series) => llamaRows[s].kind # "none"
        /\ IF llamaRows[s].kind = "real" THEN llamaRows[s].by # 0 /\ IsLast(llamaRows[s].by, Listings(s))
           ELSE Listings(s) = {}
    BY <1>1 DEF LlamaInv, ProtocolsInv
  <2>2. (\E m \in DOMAIN log' : s \in log'[m].series) => s \in referred \/ \E m \in DOMAIN log : s \in log[m].series
    BY <1>2, <1>3
  <2>3. \A m \in Listings(s) : m \in Nat /\ m < n
    BY <1>3 DEF Listings, n
  <2>4. CASE s \in listed
    <3>1. IsLast(n, Listings(s)')
      BY <1>3, <1>5, <2>3, <2>4 DEF IsLast
    <3> QED BY <1>3, <1>7, <2>4, <3>1
  <2>5. CASE s \notin listed
    BY <1>5, <1>7, <2>1, <2>2, <2>5
  <2> QED BY <2>4, <2>5
<1> QED BY <1>1, <1>4, <1>7, <1>8 DEF LlamaInv, FeesInv, ProtocolsInv, DaysInv, Row

\* Of the points of a payload with one key, the plain, one is kept.
LEMMA KeptOfKey ==
    ASSUME llamaTable \in {"protocol_tvl", "stablecoins"}, NEW points \in Payloads
    PROVE  /\ Llama!Kept(points) \subseteq DOMAIN points
           /\ \A i \in Llama!Kept(points) :
                 Llama!Plain(points[i]) /\ points[i].at \in Nat /\ Llama!KeyOf(points[i].at) = Llama!DayAlign(points[i].at)
           /\ \A i, j \in Llama!Kept(points) :
                 Llama!DayAlign(points[i].at) = Llama!DayAlign(points[j].at) => i = j
           /\ \A i \in DOMAIN points : Llama!Plain(points[i]) =>
                 \E j \in Llama!Kept(points) : Llama!DayAlign(points[j].at) = Llama!DayAlign(points[i].at)
<1>1. DOMAIN points \subseteq Nat /\ \A i \in DOMAIN points : points[i].at \in Nat
  <2>1. CASE points \in Llama!Points
    BY <2>1, LlamaBounds DEF Llama!Points
  <2>2. CASE \E t \in Llama!Time : points = Llama!Snapshot(t)
    BY <2>2, LlamaBounds DEF Llama!Snapshot, Llama!Time
  <2> QED BY <2>1, <2>2 DEF Payloads
<1>2. \A t : Llama!KeyOf(t) = Llama!DayAlign(t)
  BY DEF Llama!KeyOf
<1>3. \A i : i \in Llama!Kept(points) <=>
         /\ i \in DOMAIN points /\ Llama!Plain(points[i])
         /\ \A j \in DOMAIN points :
               Llama!Plain(points[j]) /\ Llama!DayAlign(points[j].at) = Llama!DayAlign(points[i].at) => j >= i
  BY <1>2 DEF Llama!Kept
<1>4. \A i, j \in Llama!Kept(points) :
         Llama!DayAlign(points[i].at) = Llama!DayAlign(points[j].at) => i = j
  <2> TAKE i, j \in Llama!Kept(points)
  <2> HAVE Llama!DayAlign(points[i].at) = Llama!DayAlign(points[j].at)
  <2>1. i >= j /\ j >= i
    BY <1>3
  <2>2. i \in Nat /\ j \in Nat
    BY <1>1, <1>3
  <2> QED BY <2>1, <2>2
<1>5. ASSUME NEW i \in DOMAIN points, Llama!Plain(points[i])
      PROVE  \E j \in Llama!Kept(points) : Llama!DayAlign(points[j].at) = Llama!DayAlign(points[i].at)
  <2> DEFINE S == {j \in DOMAIN points :
                      Llama!Plain(points[j]) /\ Llama!DayAlign(points[j].at) = Llama!DayAlign(points[i].at)}
  <2>1. S \in SUBSET Nat /\ S # {}
    BY <1>1, <1>5
  <2>2. PICK j \in S : \A m \in S : j <= m
    <3> HIDE DEF S
    <3> QED BY <2>1, LeastNat
  <2>3. \A m \in S : m >= j
    BY <2>1, <2>2
  <2> QED BY <1>3, <2>3
<1> QED BY <1>1, <1>2, <1>3, <1>4, <1>5

\* A run that writes points: a key it has a plain point of has its row, the other
\* rows stay.
LEMMA DaysStep ==
    ASSUME LlamaInv, llamaTable \in {"protocol_tvl", "stablecoins"},
           NEW points \in Payloads, Llama!Write(points)
    PROVE  DaysInv'
<1>0. PICK n : n = Len(log) + 1
  OBVIOUS
<1> DEFINE Row(i) == [key |-> Llama!KeyOf(points[i].at), at |-> points[i].at, by |-> n]
           new == {Row(i) : i \in Llama!Kept(points)}
           old == {r \in llamaRows : \A q \in new : q.key # r.key}
<1>1. llamaTable' = llamaTable /\ llamaRows' = old \cup new /\ log' = Append(log, points)
  BY <1>0 DEF Llama!Write, Llama!Upsert
<1>2. points \in Given /\ log \in Seq(Given)
  BY DEF Given, LlamaInv
<1>3. /\ n \in Nat \ {0} /\ n \notin DOMAIN log
      /\ DOMAIN log \subseteq Nat \ {0} /\ \A m \in DOMAIN log : m <= n
      /\ DOMAIN log' = DOMAIN log \cup {n}
      /\ log'[n] = points /\ \A m \in DOMAIN log : log'[m] = log[m]
  BY <1>0, <1>1, <1>2, LogGrows
<1>4. \A i \in Llama!Kept(points) :
         /\ Row(i) \in new
         /\ Row(i).key = Llama!DayAlign(points[i].at) /\ Row(i).at = points[i].at /\ Row(i).by = n
         /\ i \in DOMAIN points /\ Llama!Plain(points[i]) /\ points[i].at \in Nat
  BY KeptOfKey
<1>5. \A q \in new : \E i \in Llama!Kept(points) : q = Row(i)
  OBVIOUS
<1>6. \A q \in llamaRows' : q \in new \/ (q \in llamaRows /\ \A r \in new : r.key # q.key)
  BY <1>1
<1>7. \A q \in llamaRows : q \in llamaRows' \/ \E r \in new : r.key = q.key
  BY <1>1
<1>8. new \subseteq llamaRows'
  BY <1>1
<1>9. /\ \A m \in DOMAIN log : \A i, k : PlainAt(m, i, k)' <=> PlainAt(m, i, k)
      /\ \A i, k : PlainAt(n, i, k)' <=>
            i \in DOMAIN points /\ Llama!Plain(points[i]) /\ Llama!DayAlign(points[i].at) = k
  <2>1. ASSUME NEW m \in DOMAIN log, NEW i, NEW k PROVE PlainAt(m, i, k)' <=> PlainAt(m, i, k)
    BY <1>3 DEF PlainAt
  <2>2. ASSUME NEW i, NEW k
        PROVE  PlainAt(n, i, k)' <=>
                  i \in DOMAIN points /\ Llama!Plain(points[i]) /\ Llama!DayAlign(points[i].at) = k
    BY <1>3 DEF PlainAt
  <2> QED BY <2>1, <2>2
<1>10. DaysInv /\ llamaTable \in {"protocol_tvl", "stablecoins"}
  BY DEF LlamaInv
<1> HIDE DEF Row, new, old
<1>11. ASSUME NEW r \in llamaRows'
       PROVE  /\ r.at \in Nat /\ r.key = Llama!DayAlign(r.at)
              /\ r.by \in DOMAIN log' /\ \E i : PlainAt(r.by, i, r.key)'
  <2>1. CASE r \in llamaRows
    BY <1>3, <1>9, <1>10, <2>1 DEF DaysInv
  <2>2. CASE r \in new
    <3>1. PICK i \in Llama!Kept(points) : r = Row(i)
      BY <1>5, <2>2
    <3>2. /\ r.key = Llama!DayAlign(points[i].at) /\ r.at = points[i].at /\ r.by = n
          /\ i \in DOMAIN points /\ Llama!Plain(points[i]) /\ points[i].at \in Nat
      BY <1>4, <3>1
    <3>3. PlainAt(n, i, r.key)'
      BY <1>9, <3>2
    <3> QED BY <1>3, <3>2, <3>3
  <2> QED BY <1>6, <2>1, <2>2
<1>12. ASSUME NEW q \in llamaRows', NEW r \in llamaRows', q.key = r.key PROVE q = r
  <2>1. CASE q \in new /\ r \in new
    <3>1. PICK i \in Llama!Kept(points) : q = Row(i)
      BY <1>5, <2>1
    <3>2. PICK j \in Llama!Kept(points) : r = Row(j)
      BY <1>5, <2>1
    <3>3. i = j
      BY <1>4, <1>12, <3>1, <3>2, KeptOfKey
    <3> QED BY <3>1, <3>2, <3>3
  <2>2. CASE q \notin new /\ r \notin new
    BY <1>6, <1>10, <1>12, <2>2 DEF DaysInv
  <2> QED BY <1>6, <1>12, <2>1, <2>2
<1>13. ASSUME NEW m \in DOMAIN log', NEW i, NEW k, PlainAt(m, i, k)'
       PROVE  \E r \in llamaRows' : r.key = k /\ m <= r.by
  <2>1. CASE \E j \in Llama!Kept(points) : Llama!DayAlign(points[j].at) = k
    <3>1. PICK j \in Llama!Kept(points) : Llama!DayAlign(points[j].at) = k
      BY <2>1
    <3>2. m <= n
      BY <1>3
    <3> QED BY <1>4, <1>8, <3>1, <3>2
  <2>2. CASE ~ \E j \in Llama!Kept(points) : Llama!DayAlign(points[j].at) = k
    <3>1. m \in DOMAIN log
      <4>1. m # n
        <5> SUFFICES ASSUME m = n PROVE FALSE
          OBVIOUS
        <5>1. i \in DOMAIN points /\ Llama!Plain(points[i]) /\ Llama!DayAlign(points[i].at) = k
          BY <1>9, <1>13
        <5> QED BY <2>2, <5>1, KeptOfKey
      <4> QED BY <1>3, <4>1
    <3>2. PICK r \in llamaRows : r.key = k /\ m <= r.by
      BY <1>9, <1>10, <1>13, <3>1 DEF DaysInv
    <3>3. r \in llamaRows'
      BY <1>4, <1>5, <1>7, <2>2, <3>2
    <3> QED BY <3>2, <3>3
  <2> QED BY <2>1, <2>2
<1> QED BY <1>11, <1>12, <1>13 DEF DaysInv

LEMMA SeriesStep ==
    ASSUME LlamaInv, llamaTable \in Llama!Series, NEW points \in Payloads, Llama!Write(points)
    PROVE  LlamaInv'
<1>1. llamaTable' = llamaTable /\ log' = Append(log, points) /\ llamaTable \in Llama!Series
  BY DEF Llama!Write
<1>2. log \in Seq(Payloads) /\ Given = Payloads /\ Given' = Payloads
  BY <1>1 DEF LlamaInv, Given, Llama!Series, Payloads, Llama!Points, Llama!Snapshot, Llama!Time
<1>3. log' \in Seq(Given')
  BY <1>1, <1>2, LogGrows
<1>4. DaysInv'
  BY <1>1, DaysStep DEF DaysInv
<1> QED BY <1>1, <1>3, <1>4 DEF LlamaInv, FeesInv, ProtocolsInv, Llama!Series

LEMMA LlamaStepInv == LlamaInv /\ Llama!Next => LlamaInv'
<1> SUFFICES ASSUME LlamaInv, Llama!Next PROVE LlamaInv'
  OBVIOUS
<1>1. ASSUME NEW fees \in SUBSET Llama!Day, NEW revenue \in SUBSET Llama!Day,
             Llama!NormalizeFees(fees, revenue)
      PROVE  LlamaInv'
  BY <1>1, FeesStep
<1>2. ASSUME NEW mode, NEW listed \in SUBSET Llama!Slug, NEW referred \in SUBSET Llama!Slug,
             Llama!NormalizeProtocols(mode, listed, referred)
      PROVE  LlamaInv'
  BY <1>2, ProtocolsStep
<1>3. ASSUME NEW points \in Llama!Points, Llama!NormalizeHistory(points) PROVE LlamaInv'
  BY <1>3, SeriesStep DEF Llama!NormalizeHistory, Payloads
<1>4. ASSUME NEW t \in Llama!Time, Llama!NormalizeSnapshot(t) PROVE LlamaInv'
  <2>1. Llama!Snapshot(t) \in Payloads /\ llamaTable \in Llama!Series /\ Llama!Write(Llama!Snapshot(t))
    BY <1>4 DEF Llama!NormalizeSnapshot, Llama!Series, Payloads
  <2> QED BY <2>1, SeriesStep
<1> QED BY <1>1, <1>2, <1>3, <1>4 DEF Llama!Next

\* What the invariant says of the last runs is what the property asks.
LEMMA LlamaStutters == LlamaInv /\ UNCHANGED llamaVars => LlamaInv'
<1> SUFFICES ASSUME LlamaInv, UNCHANGED llamaVars PROVE LlamaInv'
  OBVIOUS
<1>1. llamaTable' = llamaTable /\ llamaRows' = llamaRows /\ log' = log
  BY DEF llamaVars
<1>2. log' \in Seq(Given')
  BY <1>1 DEF LlamaInv, Given
<1>3. FeesInv'
  BY <1>1 DEF LlamaInv, FeesInv, FeeRuns, RevenueRuns
<1>4. ProtocolsInv'
  BY <1>1 DEF LlamaInv, ProtocolsInv, Listings
<1>5. DaysInv'
  <2>1. \A n, i, k : PlainAt(n, i, k)' <=> PlainAt(n, i, k)
    BY <1>1 DEF PlainAt
  <2>2. DaysInv
    BY DEF LlamaInv
  <2> QED BY <1>1, <2>1, <2>2 DEF DaysInv
<1> QED BY <1>2, <1>3, <1>4, <1>5 DEF LlamaInv

\* The rows of a day, and the last run with a point of it, as the property has them.
Found(d) == {r \in llamaRows : r.at \in (2 * d - 1)..(2 * d)}
LastPoint(d) ==
    Llama!Max({0} \cup {n \in DOMAIN log :
        {i \in DOMAIN log[n] : Llama!Plain(log[n][i]) /\ log[n][i].at \in (2 * d - 1)..(2 * d)} # {}})

LEMMA LlamaKeepsUp == LlamaInv => Llama!TablesKeepUp
<1> SUFFICES ASSUME LlamaInv PROVE Llama!TablesKeepUp
  OBVIOUS
<1>1. DOMAIN log = 1..Len(log) /\ Len(log) \in Nat
  BY DEF LlamaInv
<1>2. Llama!OutagesEraseNothing
  <2> SUFFICES ASSUME llamaTable = "protocol_fees", NEW d \in Llama!Day
               PROVE  /\ llamaRows[d].fees = Llama!Max({0} \cup FeeRuns(d))
                      /\ llamaRows[d].revenue = Llama!Max({0} \cup RevenueRuns(d))
    BY DEF Llama!OutagesEraseNothing, Llama!LastWith, FeeRuns, RevenueRuns
  <2>1. FeeRuns(d) \in SUBSET Nat /\ RevenueRuns(d) \in SUBSET Nat
    BY <1>1 DEF FeeRuns, RevenueRuns
  <2>2. IsLast(llamaRows[d].fees, FeeRuns(d)) /\ IsLast(llamaRows[d].revenue, RevenueRuns(d))
    BY DEF LlamaInv, FeesInv
  <2>3. llamaRows[d].fees = Llama!Max({0} \cup FeeRuns(d))
    BY <2>1, <2>2, LastIsMax
  <2>4. llamaRows[d].revenue = Llama!Max({0} \cup RevenueRuns(d))
    BY <2>1, <2>2, LastIsMax
  <2> QED BY <2>3, <2>4
<1>3. Llama!SeriesHaveProtocols
  <2> SUFFICES ASSUME llamaTable = "protocols", NEW s \in Llama!Slug
               PROVE  /\ (\E n \in DOMAIN log : s \in log[n].series) => llamaRows[s].kind # "none"
                      /\ Llama!Max({0} \cup Listings(s)) # 0 =>
                            llamaRows[s] = [kind |-> "real", by |-> Llama!Max({0} \cup Listings(s))]
    BY DEF Llama!SeriesHaveProtocols, Llama!LastWith, Listings
  <2>1. Listings(s) \in SUBSET Nat /\ IsLast(0, {})
    BY <1>1 DEF Listings, IsLast
  <2>2. /\ llamaRows[s] \in [kind : {"none", "stub", "real"}, by : Nat]
        /\ (\E n \in DOMAIN log : s \in log[n].series) => llamaRows[s].kind # "none"
        /\ IF llamaRows[s].kind = "real" THEN llamaRows[s].by # 0 /\ IsLast(llamaRows[s].by, Listings(s))
           ELSE Listings(s) = {}
    BY DEF LlamaInv, ProtocolsInv
  <2>3. CASE llamaRows[s].kind = "real"
    <3>1. Llama!Max({0} \cup Listings(s)) = llamaRows[s].by
      BY <2>1, <2>2, <2>3, LastIsMax
    <3> QED BY <2>2, <2>3, <3>1
  <2>4. CASE llamaRows[s].kind # "real"
    <3>1. Llama!Max({0} \cup Listings(s)) = 0
      BY <2>1, <2>2, <2>4, LastIsMax
    <3> QED BY <2>2, <3>1
  <2> QED BY <2>3, <2>4
<1>4. Llama!DaysHaveOneRow
  <2> SUFFICES ASSUME llamaTable \in {"protocol_tvl", "stablecoins"}, NEW d \in Llama!Day
               PROVE  IF LastPoint(d) = 0 THEN Found(d) = {}
                      ELSE Llama!Cardinality(Found(d)) = 1 /\ \A r \in Found(d) : r.by = LastPoint(d)
    BY DEF Llama!DaysHaveOneRow, Llama!LastWith, LastPoint, Found
  <2> DEFINE With == {n \in DOMAIN log : \E i : PlainAt(n, i, d)}
  <2>1. d \in Nat /\ \A t \in Nat : t \in (2 * d - 1)..(2 * d) <=> Llama!DayAlign(t) = d
    BY LlamaBounds DEF Llama!Day, Llama!DayAlign
  <2>2. \A n \in DOMAIN log : \A i \in DOMAIN log[n] : log[n][i].at \in Nat
    <3> TAKE n \in DOMAIN log
    <3>1. log[n] \in Payloads
      BY DEF LlamaInv, Given
    <3>2. CASE log[n] \in Llama!Points
      BY <3>2, LlamaBounds DEF Llama!Points
    <3>3. CASE \E t \in Llama!Time : log[n] = Llama!Snapshot(t)
      BY <3>3, LlamaBounds DEF Llama!Snapshot, Llama!Time
    <3> QED BY <3>1, <3>2, <3>3 DEF Payloads
  <2>3. LastPoint(d) = Llama!Max({0} \cup With)
    <3>1. ASSUME NEW n \in DOMAIN log
          PROVE  {i \in DOMAIN log[n] :
                     Llama!Plain(log[n][i]) /\ log[n][i].at \in (2 * d - 1)..(2 * d)} # {}
                 <=> \E i : PlainAt(n, i, d)
      BY <2>1, <2>2 DEF PlainAt
    <3> QED BY <3>1 DEF LastPoint
  <2>4. IsLast(LastPoint(d), With) /\ With \subseteq DOMAIN log
    BY ZenonT(30), <1>1, <2>3, MaxIsLast
  <2>5. /\ \A r \in llamaRows :
              /\ r.at \in Nat /\ r.key = Llama!DayAlign(r.at)
              /\ r.by \in DOMAIN log /\ \E i : PlainAt(r.by, i, r.key)
        /\ \A q, r \in llamaRows : q.key = r.key => q = r
        /\ \A n \in DOMAIN log : \A i, k : PlainAt(n, i, k) => \E r \in llamaRows : r.key = k /\ n <= r.by
    BY DEF LlamaInv, DaysInv
  <2>6. \A r : r \in Found(d) <=> r \in llamaRows /\ r.key = d
    BY <2>1, <2>5 DEF Found
  <2>7. \A r \in Found(d) : r.by \in With
    BY <2>5, <2>6
  <2> HIDE DEF With
  <2>8. CASE LastPoint(d) = 0
    <3>1. \A n \in With : n \in Nat \ {0}
      BY <1>1, <2>4
    <3>2. With = {}
      BY <2>4, <2>8, <3>1 DEF IsLast
    <3> QED BY <2>7, <2>8, <3>2
  <2>9. CASE LastPoint(d) # 0
    <3>1. LastPoint(d) \in With
      BY <2>4, <2>9 DEF IsLast
    <3>2. PICK r \in llamaRows : r.key = d /\ LastPoint(d) <= r.by
      BY <2>4, <2>5, <3>1 DEF With
    <3>3. r \in Found(d) /\ \A q \in Found(d) : q = r
      BY <2>5, <2>6, <3>2
    <3>4. r.by <= LastPoint(d) /\ r.by \in Nat /\ LastPoint(d) \in Nat
      <4>1. r.by \in With /\ \A n \in With : n \in Nat
        BY <1>1, <2>4, <2>7, <3>3
      <4> QED BY <2>4, <3>1, <4>1 DEF IsLast
    <3>5. Found(d) = {r} /\ r.by = LastPoint(d)
      BY <3>2, <3>3, <3>4
    <3>6. Llama!Cardinality({r}) = 1
      <4>1. Llama!Cardinality({r}) = Cardinality({r})
        BY DEF Llama!Cardinality, Cardinality
      <4> QED BY <4>1, FS_Singleton
    <3> QED BY <2>9, <3>5, <3>6
  <2> QED BY <2>8, <2>9
<1> QED BY <1>2, <1>3, <1>4 DEF Llama!TablesKeepUp

-----------------------------------------------------------------------------
\* However the normalizers' runs and the edits of the watchlist interleave, a strict
\* table has every watched series of one run, and a day's ranks are those of a single
\* writer, whole; and whatever DeFiLlama's endpoints failed to bring, its tables say
\* of each thing what the last run that had it said.
THEOREM SnapshotsAreWhole == MCSpec => []SnapshotsAreOfOneRun
<1> DEFINE Inv == /\ subject = "normalizer" => SnapshotInv /\ RankInv
                  /\ subject = "llama" => LlamaInv
<1>1. MCInit => Inv
  BY NormalizerInit, LlamaInit DEF MCInit
<1>2. Inv /\ [MCNext]_MCVars => Inv'
  <2> SUFFICES ASSUME Inv, [MCNext]_MCVars PROVE Inv'
    OBVIOUS
  <2>1. subject = "normalizer" => (SnapshotInv /\ RankInv)'
    <3>1. UNCHANGED <<subject, normalizerVars>> /\ SnapshotInv /\ RankInv => (SnapshotInv /\ RankInv)'
      BY DEF normalizerVars, SnapshotInv, RankInv, RanksOf
    <3> QED BY <3>1, SnapshotStep, RankStep, OneSubject
  <2>2. subject = "llama" => LlamaInv'
    BY LlamaStutters, LlamaStepInv, OneSubject
  <2> QED BY <2>1, <2>2, OneSubject
<1>3. Inv => SnapshotsAreOfOneRun
  BY LlamaKeepsUp DEF SnapshotsAreOfOneRun, Normalizer!SnapshotsAreOfOneRun, SnapshotInv, RankInv, RanksOf
<1> QED BY <1>1, <1>2, <1>3, PTL DEF MCSpec

-----------------------------------------------------------------------------
\* FredVintages, with the theorems about it, where no observation that was revised
\* late on a boundary day is revised again before the next request.
FredP == INSTANCE FredVintagesProofs WITH Twice <- FALSE

\* The instance of the proofs speaks of the same definitions.
LEMMA SameFredNext == Fred!Next => FredP!Next
BY DEF Fred!Next, Fred!NextDay, Fred!Publish, Fred!Collect, Fred!Normalize, Fred!Drop, Fred!stored,
    Fred!Published, Fred!TrueValue, Fred!TrueEnd, Fred!Day, Fred!Forever, Fred!RevisedLate,
    Fred!StoredStarts, Fred!Boundary, Fred!OpenStarts, Fred!Response, Fred!Filtered,
    Fred!FullHistory, Fred!RowsAt, Fred!Max, Fred!Min,
    FredP!Next, FredP!NextDay, FredP!Publish, FredP!Collect, FredP!Normalize, FredP!Drop, FredP!stored,
    FredP!Published, FredP!TrueValue, FredP!TrueEnd, FredP!Day, FredP!Forever, FredP!RevisedLate,
    FredP!StoredStarts, FredP!Boundary, FredP!OpenStarts, FredP!Response, FredP!Filtered,
    FredP!FullHistory, FredP!RowsAt, FredP!Max, FredP!Min

LEMMA FredInitInv == Fred!Init => FredP!FredInv
<1>1. FredP!FredAssumption
  BY FredBounds DEF FredP!FredAssumption
<1>2. Fred!Init => FredP!Init
  BY DEF FredP!Init, Fred!Init, FredP!Day, Fred!Day
<1> QED BY <1>1, <1>2, FredP!InitFredInv

LEMMA FredNextInv ==
    ASSUME FredP!FredInv, Fred!Next \/ UNCHANGED fredVars
    PROVE  FredP!FredInv'
<1>1. FredP!FredAssumption
  BY FredBounds DEF FredP!FredAssumption
<1>2. [FredP!Next]_(FredP!vars)
  BY SameFredNext DEF fredVars, FredP!vars, FredP!stored
<1> QED BY <1>1, <1>2, FredP!NextFredInv

\* The invariant of the FRED tables says both of what MCLake checks.
LEMMA FredInvProves == FredP!FredInv => Fred!HistoryIsRight /\ Fred!NoPseudoVintages
<1> SUFFICES ASSUME FredP!FredInv PROVE Fred!HistoryIsRight /\ Fred!NoPseudoVintages
  OBVIOUS
<1>1. FredP!FredAssumption
  BY FredBounds DEF FredP!FredAssumption
<1>2. FredP!HistoryIsRight /\ FredP!NoPseudoVintages
  BY <1>1, FredP!RightIsHistory, FredP!RightHasNoPseudo
<1> QED BY <1>2 DEF FredP!HistoryIsRight, Fred!HistoryIsRight, FredP!NoPseudoVintages,
    Fred!NoPseudoVintages, FredP!ValuesOn, Fred!ValuesOn, FredP!TrueValue, Fred!TrueValue,
    FredP!Published, Fred!Published, FredP!Day, Fred!Day, FredP!Max, Fred!Max

LEMMA FredInvariant == MCSpec => []FredP!FredInv
<1>1. MCInit => FredP!FredInv
  BY FredInitInv DEF MCInit
<1>2. FredP!FredInv /\ [MCNext]_MCVars => FredP!FredInv'
  BY FredNextInv, OneSubject
<1> QED BY <1>1, <1>2, PTL DEF MCSpec

\* The stored intervals say of every past day what FRED said of it.
THEOREM FredHistoryIsRight == MCSpec => []HistoryIsRight
<1>1. FredP!FredInv => HistoryIsRight
  BY FredInvProves DEF HistoryIsRight
<1> QED BY <1>1, FredInvariant, PTL

\* A start that was clipped by the request's window never becomes a key.
THEOREM FredHasNoPseudoVintages == MCSpec => []NoPseudoVintages
<1>1. FredP!FredInv => NoPseudoVintages
  BY FredInvProves DEF NoPseudoVintages
<1> QED BY <1>1, FredInvariant, PTL

\* A vintage that has been closed never changes again.
THEOREM FredKeepsClosed == MCSpec => ClosedIsFinal
<1>1. ASSUME FredP!FredInv, [MCNext]_MCVars
      PROVE  FredP!ClosedStays \/ UNCHANGED fredVars
  <2>1. FredP!FredAssumption
    BY FredBounds DEF FredP!FredAssumption
  <2> QED BY <1>1, <2>1, SameFredNext, OneSubject, FredP!NextKeepsClosed
<1>2. FredP!FredInv /\ [MCNext]_MCVars => [FredP!ClosedStays]_(Fred!vars)
  BY <1>1 DEF fredVars, Fred!vars, Fred!stored
<1> QED BY <1>2, FredInvariant, PTL
    DEF MCSpec, ClosedIsFinal, Fred!ClosedIsFinal, FredP!ClosedStays, Fred!Day, Fred!Forever,
        FredP!Day, FredP!Forever

-----------------------------------------------------------------------------
\* Studies. After the first row no stretch of MaxGap days is without one.
Rows == SUBSET (Nat \ {0})

StudyInv ==
    /\ marketDay \in 0..StudyDays /\ series \in SUBSET (1..marketDay)
    /\ \A x \in 1..marketDay :
          (\E r \in series : r <= x) => \E r \in series : r <= x /\ x - r < MaxGap

\* The last and the first of a set of days.
LEMMA MaxOf ==
    ASSUME NEW k \in Nat, NEW R \in SUBSET (1..k), R # {}
    PROVE  Study!Max(R) \in R /\ \A r \in R : r <= Study!Max(R)
<1>1. PICK m : IsLast(m, R)
  BY MaxIsLast
<1>2. \A r \in R : r \in Nat /\ r # 0
  OBVIOUS
<1>3. m \in R /\ \A r \in R : m >= r
  <2>1. m \in Nat /\ \A r \in R : r <= m
    BY <1>1, <1>2 DEF IsLast
  <2>2. m # 0
    <3>1. PICK r \in R : TRUE
      OBVIOUS
    <3> QED BY <1>2, <2>1, <3>1
  <2>3. m \in R
    BY <1>1, <2>2 DEF IsLast
  <2> QED BY <1>2, <2>1, <2>3
<1>4. \A n \in R : (\A r \in R : n >= r) => n = m
  BY <1>2, <1>3
<1> QED BY <1>2, <1>3, <1>4 DEF Study!Max

LEMMA MinOf ==
    ASSUME NEW R \in SUBSET Nat, R # {}
    PROVE  Study!Min(R) \in R /\ \A r \in R : Study!Min(R) <= r
<1>1. PICK m \in R : \A r \in R : m <= r
  BY LeastNat
<1> QED BY <1>1 DEF Study!Min

\* The row looked up on or before d is the last one that there is, and the only one
\* of which that can be said; so too on or after.
IsBefore(m, R, d) == IF m = 0 THEN \A r \in R : d < r ELSE m \in R /\ m <= d /\ \A r \in R : r <= d => r <= m
IsAfter(m, R, d)  == IF m = 0 THEN \A r \in R : r < d ELSE m \in R /\ d <= m /\ \A r \in R : d <= r => m <= r

LEMMA BeforeIs ==
    ASSUME NEW R \in Rows, NEW d \in Nat
    PROVE  /\ IsBefore(Study!AtOrBefore(R, d), R, d)
           /\ \A m : IsBefore(m, R, d) => m = Study!AtOrBefore(R, d)
<1> DEFINE E == {r \in R : r <= d}
<1>0. \A r \in R : r \in Nat /\ r # 0
  BY DEF Rows
<1>1. E \in SUBSET (1..d) /\ E \in SUBSET Nat
  BY <1>0
<1>2. Study!AtOrBefore(R, d) = Llama!Max({0} \cup E)
  BY DEF Study!AtOrBefore, Study!Max, Llama!Max
<1>3. \A m : IsBefore(m, R, d) => IsLast(m, E)
  BY DEF IsBefore, IsLast, Rows
<1>4. \A m : IsLast(m, E) => IsBefore(m, R, d)
  BY DEF IsBefore, IsLast, Rows
<1> HIDE DEF E
<1>5. IsLast(Llama!Max({0} \cup E), E)
  BY <1>1, MaxIsLast
<1>6. \A m : IsLast(m, E) => Llama!Max({0} \cup E) = m
  BY <1>1, LastIsMax
<1> QED BY <1>2, <1>3, <1>4, <1>5, <1>6

LEMMA AfterIs ==
    ASSUME NEW R \in Rows, NEW d \in Nat
    PROVE  /\ IsAfter(Study!AtOrAfter(R, d), R, d)
           /\ \A m : IsAfter(m, R, d) => m = Study!AtOrAfter(R, d)
<1> DEFINE L == {r \in R : r >= d}
<1>1. L \in SUBSET Nat /\ \A r \in L : r \in R /\ r # 0 /\ d <= r
  BY DEF Rows
<1>2. Study!AtOrAfter(R, d) = IF L = {} THEN 0 ELSE Study!Min(L)
  BY DEF Study!AtOrAfter
<1>3. \A r \in R : r < d \/ r \in L
  BY DEF Rows
<1>4. \A r \in R : r \in Nat /\ r # 0
  BY DEF Rows
<1>5. \A r \in L : ~(r < d)
  BY <1>1
<1> HIDE DEF L
<1>6. CASE L = {}
  BY <1>2, <1>3, <1>4, <1>6 DEF IsAfter
<1>7. CASE L # {}
  <2>1. PICK n : n = Study!Min(L)
    OBVIOUS
  <2>2. n \in L /\ \A r \in L : n <= r
    BY <1>1, <1>7, <2>1, MinOf
  <2>3. IsAfter(n, R, d)
    BY <1>1, <1>3, <1>4, <2>2 DEF IsAfter
  <2>4. ASSUME NEW m, IsAfter(m, R, d) PROVE m = n
    <3>1. m # 0 /\ m \in L
      BY <1>1, <1>3, <1>4, <1>5, <2>2, <2>4 DEF IsAfter
    <3>2. m <= n /\ n <= m
      BY <1>1, <2>2, <2>4, <3>1 DEF IsAfter
    <3> QED BY <1>1, <2>2, <3>1, <3>2
  <2> QED BY <1>2, <1>7, <2>1, <2>3, <2>4
<1> QED BY <1>6, <1>7

LEMMA StudyInit == Study!Init => StudyInv
BY StudyBounds DEF Study!Init, StudyInv

LEMMA StudyStepInv ==
    ASSUME StudyInv, Study!Next
    PROVE  StudyInv'
<1>1. PICK row \in BOOLEAN : Study!NextDay(row)
  BY DEF Study!Next
<1>2. /\ marketDay \in Nat /\ marketDay' = marketDay + 1 /\ marketDay' \in 0..StudyDays
      /\ series \subseteq series' /\ series' \in SUBSET (1..marketDay')
  BY <1>1, StudyBounds DEF Study!NextDay, StudyInv
<1>3. ASSUME NEW x \in 1..marketDay', \E r \in series' : r <= x
      PROVE  \E r \in series' : r <= x /\ x - r < MaxGap
  <2>1. CASE x <= marketDay
    <3>1. \E r \in series : r <= x
      BY <1>1, <1>2, <1>3, <2>1 DEF Study!NextDay
    <3> QED BY <1>2, <2>1, <3>1 DEF StudyInv
  <2>2. CASE x = marketDay + 1 /\ row
    BY <1>1, <1>2, <2>2, StudyBounds DEF Study!NextDay
  <2>3. CASE x = marketDay + 1 /\ ~row
    <3>1. series # {} /\ series' = series
      BY <1>1, <1>3, <2>3 DEF Study!NextDay
    <3>2. PICK m : m = Study!Max(series)
      OBVIOUS
    <3>3. m \in series /\ m \in 1..marketDay
      BY <1>2, <3>1, <3>2, MaxOf DEF StudyInv
    <3>4. marketDay + 1 - m < MaxGap
      BY <1>1, <2>3, <3>1, <3>2 DEF Study!NextDay
    <3> QED BY <1>2, <2>3, <3>1, <3>3, <3>4
  <2> QED BY <1>2, <2>1, <2>2, <2>3
<1> QED BY <1>2, <1>3 DEF StudyInv

-----------------------------------------------------------------------------
\* The rows a statistic looks up.

\* A row of the past stays the row it was as days arrive, and a later row found
\* among the rows up to a day is what is found among all.
LEMMA LookupsStay ==
    ASSUME series \in Rows, NEW d \in Nat, NEW x \in Nat
    PROVE  /\ x <= d => Study!AtOrBefore(Study!UpTo(d), x) = Study!AtOrBefore(series, x)
           /\ Study!AtOrAfter(Study!UpTo(d), x) # 0 =>
                 x <= d /\ Study!AtOrAfter(Study!UpTo(d), x) = Study!AtOrAfter(series, x)
<1>1. /\ Study!UpTo(d) \in Rows /\ \A r \in series : r \in Nat
      /\ \A r : r \in Study!UpTo(d) <=> r \in series /\ r <= d
  BY DEF Study!UpTo, Rows
<1>2. ASSUME x <= d PROVE Study!AtOrBefore(Study!UpTo(d), x) = Study!AtOrBefore(series, x)
  <2>1. {r \in Study!UpTo(d) : r <= x} = {r \in series : r <= x}
    BY <1>1, <1>2
  <2> QED BY <2>1 DEF Study!AtOrBefore
<1>3. ASSUME NEW m, m = Study!AtOrAfter(Study!UpTo(d), x), m # 0
      PROVE  x <= d /\ m = Study!AtOrAfter(series, x)
  <2>1. IsAfter(m, Study!UpTo(d), x)
    BY <1>1, <1>3, AfterIs
  <2>2. m \in series /\ m <= d /\ x <= m /\ \A r \in series : r <= d /\ x <= r => m <= r
    BY <1>1, <1>3, <2>1 DEF IsAfter
  <2>3. IsAfter(m, series, x)
    BY <1>1, <1>3, <2>2 DEF IsAfter
  <2> QED BY <1>1, <2>2, <2>3, AfterIs
<1> QED BY <1>2, <1>3

\* What is loaded serves a lookup if it has the row that all rows have.
LEMMA LookupsServe ==
    ASSUME NEW R \in Rows, NEW Q \in SUBSET R, NEW x \in Nat
    PROVE  /\ Study!AtOrBefore(R, x) \in Q \cup {0} => Study!AtOrBefore(Q, x) = Study!AtOrBefore(R, x)
           /\ Study!AtOrAfter(R, x) \in Q \cup {0} => Study!AtOrAfter(Q, x) = Study!AtOrAfter(R, x)
<1>1. Q \in Rows
  BY DEF Rows
<1>2. ASSUME NEW m, m = Study!AtOrBefore(R, x), m \in Q \cup {0} PROVE Study!AtOrBefore(Q, x) = m
  <2>1. IsBefore(m, R, x)
    BY <1>2, BeforeIs
  <2>2. IsBefore(m, Q, x)
    BY <1>2, <2>1 DEF IsBefore
  <2> QED BY <1>1, <2>2, BeforeIs
<1>3. ASSUME NEW m, m = Study!AtOrAfter(R, x), m \in Q \cup {0} PROVE Study!AtOrAfter(Q, x) = m
  <2>1. IsAfter(m, R, x)
    BY <1>3, AfterIs
  <2>2. IsAfter(m, Q, x)
    BY <1>3, <2>1 DEF IsAfter
  <2> QED BY <1>1, <2>2, AfterIs
<1> QED BY <1>2, <1>3

LEMMA AgoIs ==
    ASSUME NEW d \in Nat, NEW n \in Nat
    PROVE  /\ Study!Ago(d, n) \in Nat /\ Study!Ago(d, n) <= d /\ d - n <= Study!Ago(d, n)
           /\ Study!Ago(d, n) # 0 => Study!Ago(d, n) = d - n /\ n < d
           /\ n < d => Study!Ago(d, n) # 0
BY DEF Study!Ago

\* The rows before and after a day, if there are both, are close to it.
LEMMA GapsAreShort ==
    ASSUME StudyInv
    PROVE  /\ series \in Rows
           /\ \A x \in 0..marketDay :
                 Study!AtOrBefore(series, x) # 0 => x < Study!AtOrBefore(series, x) + MaxGap
           /\ \A x \in Nat \ {0} : \A q \in series :
                 q <= x /\ Study!AtOrAfter(series, x) # 0 => Study!AtOrAfter(series, x) < x + MaxGap
<1> USE StudyBounds
<1>1. series \in Rows /\ marketDay \in Nat /\ \A r \in series : r \in 1..marketDay
  BY DEF StudyInv, Rows
<1>2. ASSUME NEW x \in 0..marketDay, NEW m, m = Study!AtOrBefore(series, x), m # 0
      PROVE  x < m + MaxGap
  <2>1. m \in series /\ m <= x /\ \A r \in series : r <= x => r <= m
    BY <1>1, <1>2, BeforeIs DEF IsBefore
  <2>2. PICK r \in series : r <= x /\ x - r < MaxGap
    BY <1>1, <2>1 DEF StudyInv
  <2> QED BY <1>1, <2>1, <2>2
<1>3. ASSUME NEW x \in Nat \ {0}, NEW q \in series, q <= x,
             NEW m, m = Study!AtOrAfter(series, x), m # 0
      PROVE  m < x + MaxGap
  <2>1. m \in series /\ x <= m /\ \A r \in series : x <= r => m <= r
    BY <1>1, <1>3, AfterIs DEF IsAfter
  <2>2. CASE m = x
    BY <2>2
  <2>3. CASE m # x
    <3>1. m - 1 \in 1..marketDay /\ q <= m - 1
      BY <1>1, <1>3, <2>1, <2>3
    <3>2. PICK r \in series : r <= m - 1 /\ m - 1 - r < MaxGap
      BY <1>3, <3>1 DEF StudyInv
    <3>3. r < x
      BY <1>1, <2>1, <3>1, <3>2
    <3> QED BY <1>1, <2>1, <3>2, <3>3
  <2> QED BY <2>2, <2>3
<1> QED BY <1>1, <1>2, <1>3

-----------------------------------------------------------------------------
\* One load serves the batch.
LEMMA ExtremesOfTwo ==
    ASSUME NEW x \in Nat, NEW y \in Nat
    PROVE  /\ Study!Min({x, y}) \in Nat /\ Study!Min({x, y}) <= x
           /\ Study!Max({x, y}) \in Nat /\ x <= Study!Max({x, y})
<1>1. Study!Min({x, y}) \in {x, y} /\ \A r \in {x, y} : Study!Min({x, y}) <= r
  BY MinOf
<1>2. \E m \in {x, y} : \A r \in {x, y} : m >= r
  <2>1. x >= y \/ y >= x
    OBVIOUS
  <2> QED BY <2>1
<1>3. Study!Max({x, y}) \in {x, y} /\ \A r \in {x, y} : Study!Max({x, y}) >= r
  BY <1>2 DEF Study!Max
<1> QED BY <1>1, <1>3

\* A stretch of the series serves a window when it reaches further than both its
\* ends by the cushion, which is as long as a gap.
LEMMA StretchServes ==
    ASSUME StudyInv, NEW a \in Nat, NEW b \in Nat, NEW x \in 1..marketDay, NEW w \in Study!Windows,
           a <= Study!Ago(x, w.lo + Cushion), x + w.hi + Cushion <= b
    PROVE  Study!WindowedReturn(Study!Between(series, a, b), x, w) = Study!WindowedReturn(series, x, w)
<1> USE StudyBounds
<1> DEFINE Q == Study!Between(series, a, b)
<1>1. /\ Q \in SUBSET series /\ series \in Rows
      /\ \A r \in series : r \in Nat \ {0} /\ r <= marketDay /\ (a <= r /\ r <= b => r \in Q)
  <2>1. series \in Rows /\ \A r \in series : r \in Nat \ {0} /\ r <= marketDay
    BY DEF StudyInv, Rows
  <2> QED BY <2>1 DEF Study!Between
<1>2. w.lo \in Nat /\ w.hi \in Nat /\ (w.kind = "pre" => w.hi <= w.lo) /\ (w.kind # "pre" => w.hi \in Nat)
  BY DEF Study!Windows
<1>3. marketDay \in Nat /\ x \in Nat /\ x # 0 /\ x <= marketDay
  BY DEF StudyInv
<1> HIDE DEF Q
\* A row looked up at most lo days back.
<1>4. ASSUME NEW n \in Nat, n <= w.lo
      PROVE  Study!AtOrBefore(Q, Study!Ago(x, n)) = Study!AtOrBefore(series, Study!Ago(x, n))
  <2>1. PICK d : d = Study!Ago(x, n)
    OBVIOUS
  <2>2. d \in Nat /\ d <= x /\ (d = 0 \/ d = x - n)
    BY <1>3, <2>1, AgoIs
  <2>3. PICK m : m = Study!AtOrBefore(series, d)
    OBVIOUS
  <2>4. m \in Q \cup {0}
    <3>1. CASE m = 0
      BY <3>1
    <3>2. CASE m # 0
      <4>1. m \in series /\ m <= d
        BY <1>1, <2>2, <2>3, <3>2, BeforeIs DEF IsBefore
      <4>2. d < m + MaxGap
        BY <1>3, <2>2, <2>3, <3>2, GapsAreShort
      <4>3. a <= m
        <5>1. a = 0 \/ a + w.lo + Cushion <= x
          BY <1>2, <1>3 DEF Study!Ago
        <5> QED BY <1>1, <1>2, <1>3, <1>4, <2>2, <4>1, <4>2, <5>1
      <4>4. m <= b
        BY <1>1, <1>2, <1>3, <2>2, <4>1
      <4> QED BY <1>1, <4>1, <4>3, <4>4
    <3> QED BY <3>1, <3>2
  <2>5. Study!AtOrBefore(Q, d) = Study!AtOrBefore(series, d)
    BY <1>1, <2>2, <2>3, <2>4, LookupsServe
  <2> QED BY <2>1, <2>5
\* The row after the end, when there is one before the start.
<1>5. ASSUME Study!AtOrBefore(series, Study!Ago(x, w.lo)) # 0
      PROVE  Study!AtOrAfter(Q, x + w.hi) = Study!AtOrAfter(series, x + w.hi)
  <2>1. PICK d, q : d = Study!Ago(x, w.lo) /\ q = Study!AtOrBefore(series, d)
    OBVIOUS
  <2>2. d \in Nat /\ d <= x
    BY <1>2, <1>3, <2>1, AgoIs
  <2>3. q \in series /\ q <= x
    <3>1. q \in series /\ q <= d
      BY <1>1, <1>5, <2>1, <2>2, BeforeIs DEF IsBefore
    <3> QED BY <1>1, <1>3, <2>2, <3>1
  <2>4. PICK e, m : e = x + w.hi /\ m = Study!AtOrAfter(series, e)
    OBVIOUS
  <2>5. e \in Nat \ {0} /\ q <= e /\ x <= e
    BY <1>1, <1>2, <1>3, <2>3, <2>4
  <2>6. m \in Q \cup {0}
    <3>1. CASE m = 0
      BY <3>1
    <3>2. CASE m # 0
      <4>1. m \in series /\ e <= m
        BY <1>1, <2>4, <2>5, <3>2, AfterIs DEF IsAfter
      <4>2. m < e + MaxGap
        BY <2>3, <2>4, <2>5, <3>2, GapsAreShort
      <4>3. a <= x
        BY <1>2, <1>3 DEF Study!Ago
      <4> QED BY <1>1, <1>2, <1>3, <2>4, <2>5, <4>1, <4>2, <4>3
    <3> QED BY <3>1, <3>2
  <2>7. Study!AtOrAfter(Q, e) = Study!AtOrAfter(series, e)
    BY <1>1, <2>4, <2>5, <2>6, LookupsServe
  <2> QED BY <2>4, <2>7
<1>6. Study!AtOrBefore(Q, Study!Ago(x, w.lo)) = Study!AtOrBefore(series, Study!Ago(x, w.lo))
  BY <1>2, <1>4
<1>7. CASE w.kind = "pre"
  <2>1. Study!AtOrBefore(Q, Study!Ago(x, w.hi)) = Study!AtOrBefore(series, Study!Ago(x, w.hi))
    BY <1>2, <1>4, <1>7
  <2> QED BY <1>6, <1>7, <2>1 DEF Study!WindowedReturn, Q
<1>8. CASE w.kind # "pre"
  BY <1>5, <1>6, <1>8 DEF Study!WindowedReturn, Study!Return, Q
<1> QED BY <1>7, <1>8

LEMMA EventsShare ==
    ASSUME StudyInv, NEW x \in 1..marketDay, NEW y \in 1..marketDay
    PROVE  /\ \A w \in Study!Windows :
                 Study!EventReturn(series, {x, y}, x, w) = Study!WindowedReturn(series, x, w)
           /\ Study!StackReturn(series, {x, y}, x)
                 = Study!WindowedReturn(series, x, [kind |-> "post", lo |-> 0, hi |-> Ahead])
<1> USE StudyBounds
<1>1. PICK lo, hi : lo = Study!Min({x, y}) /\ hi = Study!Max({x, y})
  OBVIOUS
<1>2. lo \in Nat /\ hi \in Nat /\ lo <= x /\ x <= hi /\ x \in Nat
  BY <1>1, ExtremesOfTwo DEF StudyInv
<1>3. \A n \in Nat : Study!Ago(lo, n) \in Nat /\ Study!Ago(lo, n) <= Study!Ago(x, n)
  BY <1>2 DEF Study!Ago
<1>4. ASSUME NEW w \in Study!Windows
      PROVE  Study!EventReturn(series, {x, y}, x, w) = Study!WindowedReturn(series, x, w)
  <2>1. w.lo \in Nat /\ w.hi \in Nat /\ w.lo <= Back /\ w.hi <= Ahead
    BY DEF Study!Windows
  <2>2. Study!Ago(lo, Back + Cushion) <= Study!Ago(x, w.lo + Cushion)
    BY <1>2, <2>1 DEF Study!Ago
  <2>3. x + w.hi + Cushion <= hi + Ahead + Cushion
    BY <1>2, <2>1
  <2>4. Study!Ago(lo, Back + Cushion) \in Nat /\ hi + Ahead + Cushion \in Nat
    BY <1>2, <1>3
  <2>5. Study!EventReturn(series, {x, y}, x, w)
          = Study!WindowedReturn(Study!Between(series, Study!Ago(lo, Back + Cushion), hi + Ahead + Cushion), x, w)
    BY <1>1 DEF Study!EventReturn, Study!EventPrices
  <2> QED BY <2>2, <2>3, <2>4, <2>5, StretchServes
<1>5. PICK w : w = [kind |-> "post", lo |-> 0, hi |-> Ahead]
  OBVIOUS
<1>6. w \in Study!Windows /\ w.lo = 0 /\ w.hi = Ahead
  BY <1>5 DEF Study!Windows
<1>7. Study!StackReturn(series, {x, y}, x) = Study!WindowedReturn(series, x, w)
  <2>1. Study!StackReturn(series, {x, y}, x)
          = Study!WindowedReturn(Study!Between(series, Study!Ago(lo, Cushion), hi + Ahead + Cushion), x, w)
    BY <1>1, <1>5 DEF Study!StackReturn, Study!StackPrices
  <2>2. Study!Ago(lo, Cushion) <= Study!Ago(x, w.lo + Cushion) /\ Study!Ago(lo, Cushion) \in Nat
    BY <1>3, <1>6
  <2>3. x + w.hi + Cushion <= hi + Ahead + Cushion /\ hi + Ahead + Cushion \in Nat
    BY <1>2, <1>6
  <2> QED BY <1>6, <2>1, <2>2, <2>3, StretchServes
<1> QED BY <1>4, <1>5, <1>7

LEMMA StacksShare ==
    ASSUME StudyInv, NEW s \in Study!WindowOf, NEW t \in Study!WindowOf
    PROVE  Study!StackContext(series, {s, t}, s) = Study!WindowReturn(series, s)
<1>1. PICK since, until : since = Study!Min({q.from : q \in {s, t}}) /\ until = Study!Max({q.to : q \in {s, t}})
  OBVIOUS
<1>2. s.from \in Nat /\ s.to \in Nat /\ t.from \in Nat /\ t.to \in Nat /\ s.from <= s.to /\ s.from # 0 /\ t.from # 0
  BY DEF Study!WindowOf, StudyInv
<1>3. {q.from : q \in {s, t}} = {s.from, t.from} /\ {q.to : q \in {s, t}} = {s.to, t.to}
  OBVIOUS
<1>4. since \in Nat /\ since <= s.from /\ until \in Nat /\ s.to <= until
  BY <1>1, <1>2, <1>3, ExtremesOfTwo
<1>5. since # 0
  BY <1>1, <1>2, <1>3, MinOf
<1>6. series \in Rows /\ \A r \in series : r \in Nat
  BY DEF StudyInv, Rows
<1>7. PICK Q : Q = {r \in series : (r >= since \/ r = Study!AtOrBefore(series, since - 1)) /\ r <= until}
  OBVIOUS
<1>8. ASSUME NEW x \in Nat, since <= x, x <= until
      PROVE  Study!AtOrBefore(Q, x) = Study!AtOrBefore(series, x)
  <2>1. PICK m : m = Study!AtOrBefore(series, x)
    OBVIOUS
  <2>2. IsBefore(m, series, x)
    BY <1>6, <2>1, BeforeIs
  <2>3. m \in Q \cup {0}
    <3>1. CASE m # 0 /\ m < since
      <4>1. IsBefore(m, series, since - 1)
        BY <1>4, <1>5, <1>6, <1>8, <2>2, <3>1 DEF IsBefore
      <4>2. since - 1 \in Nat
        BY <1>4, <1>5
      <4>3. m = Study!AtOrBefore(series, since - 1)
        BY <1>6, <4>1, <4>2, BeforeIs
      <4> QED BY <1>4, <1>6, <1>7, <1>8, <2>2, <3>1, <4>3 DEF IsBefore
    <3>2. CASE m # 0 /\ m >= since
      BY <1>4, <1>6, <1>7, <1>8, <2>2, <3>2 DEF IsBefore
    <3>3. CASE m = 0
      BY <3>3
    <3> QED BY <1>4, <1>6, <2>2, <3>1, <3>2, <3>3 DEF IsBefore
  <2>4. Q \in SUBSET series
    BY <1>7
  <2> QED BY <1>6, <2>1, <2>3, <2>4, LookupsServe
<1>9. Study!BenchmarkSeries(series, {s, t}) = Q
  BY <1>1, <1>7 DEF Study!BenchmarkSeries
<1>10. /\ Study!AtOrBefore(Q, s.from) = Study!AtOrBefore(series, s.from)
       /\ Study!AtOrBefore(Q, s.to) = Study!AtOrBefore(series, s.to)
  BY <1>2, <1>4, <1>8
<1> QED BY <1>9, <1>10 DEF Study!StackContext, Study!WindowReturn

-----------------------------------------------------------------------------
\* Calendars. A choice among days that one can be of.
LEMMA RollsTwoDays ==
    ASSUME NEW d \in Nat \ {0}
    PROVE  Study!RollToWeekday(d) \in Nat /\ Study!RollToWeekday(d) <= d + 2
<1>1. \E t \in d..(d + 2) : Study!Weekday(t) /\ \A s \in d..(t - 1) : ~Study!Weekday(s)
  <2>1. CASE (d - 1) % 7 < 5
    <3>1. d \in d..(d + 2) /\ Study!Weekday(d) /\ \A s \in d..(d - 1) : ~Study!Weekday(s)
      BY <2>1 DEF Study!Weekday
    <3> QED BY <3>1
  <2>2. CASE (d - 1) % 7 = 5
    <3>1. d + 2 \in d..(d + 2) /\ Study!Weekday(d + 2) /\ ~Study!Weekday(d) /\ ~Study!Weekday(d + 1)
      BY <2>2 DEF Study!Weekday
    <3>2. \A s \in d..(d + 2 - 1) : s = d \/ s = d + 1
      OBVIOUS
    <3> QED BY <3>1, <3>2
  <2>3. CASE (d - 1) % 7 = 6
    <3>1. d + 1 \in d..(d + 2) /\ Study!Weekday(d + 1) /\ ~Study!Weekday(d)
      BY <2>3 DEF Study!Weekday
    <3>2. \A s \in d..(d + 1 - 1) : s = d
      OBVIOUS
    <3> QED BY <3>1, <3>2
  <2> QED BY <2>1, <2>2, <2>3
<1>2. Study!RollToWeekday(d) \in d..(d + 2)
  BY <1>1 DEF Study!RollToWeekday
<1> QED BY <1>2

\* Two days p and q are the only weekdays after d up to q.
LEMMA TwoWeekdays ==
    ASSUME NEW d \in Nat, NEW p \in Nat, NEW q \in Nat, d < p, p < q,
           \A s \in (d + 1)..q : Study!Weekday(s) <=> s \in {p, q}
    PROVE  Study!Cardinality({s \in (d + 1)..q : Study!Weekday(s)}) = 2
<1>1. {s \in (d + 1)..q : Study!Weekday(s)} = {p, q}
  OBVIOUS
<1>2. Cardinality({p, q}) = 2
  <2>1. Cardinality({p}) = 1 /\ IsFiniteSet({p})
    BY FS_Singleton
  <2>2. {p, q} = {p} \cup {q} /\ q \notin {p}
    OBVIOUS
  <2> QED BY <2>1, <2>2, FS_AddElement
<1> QED BY <1>1, <1>2 DEF Study!Cardinality, Cardinality

LEMMA TwoWeekdaysTakeSix ==
    ASSUME NEW d \in Nat \ {0}
    PROVE  Study!AddWeekdays(d, 2) \in d..(d + 6)
<1> DEFINE Fit(p, q) == d < p /\ p < q /\ q <= d + 6
                        /\ \A s \in (d + 1)..q : Study!Weekday(s) <=> s \in {p, q}
<1>1. ASSUME NEW p \in Nat, NEW q \in Nat, Fit(p, q)
      PROVE  \E t \in d..(d + 2 * 2 + 2) : /\ Study!Weekday(t)
                                           /\ Study!Cardinality({s \in (d + 1)..t : Study!Weekday(s)}) = 2
  <2>1. Study!Cardinality({s \in (d + 1)..q : Study!Weekday(s)}) = 2
    BY <1>1, TwoWeekdays
  <2>2. Study!Weekday(q) /\ q \in d..(d + 2 * 2 + 2)
    BY <1>1
  <2> QED BY <2>1, <2>2
<1>2. PICK k : k = (d - 1) % 7
  OBVIOUS
<1>3. k \in 0..6
  BY <1>2
<1>4. \A j \in 1..6 : Study!Weekday(d + j) <=> (k + j) % 7 < 5
  BY <1>2 DEF Study!Weekday
<1>5. ASSUME k \in {0, 1, 2, 6} PROVE \E p, q \in Nat : Fit(p, q)
  <2>1. Study!Weekday(d + 1) /\ Study!Weekday(d + 2)
    BY <1>4, <1>5
  <2>2. Fit(d + 1, d + 2)
    BY <2>1
  <2> QED BY <2>2
<1>6. ASSUME k = 3 PROVE \E p, q \in Nat : Fit(p, q)
  <2>1. Study!Weekday(d + 1) /\ ~Study!Weekday(d + 2) /\ ~Study!Weekday(d + 3) /\ Study!Weekday(d + 4)
    BY <1>4, <1>6
  <2>2. Fit(d + 1, d + 4)
    BY <2>1
  <2> QED BY <2>2
<1>7. ASSUME k = 4 PROVE \E p, q \in Nat : Fit(p, q)
  <2>1. ~Study!Weekday(d + 1) /\ ~Study!Weekday(d + 2) /\ Study!Weekday(d + 3) /\ Study!Weekday(d + 4)
    BY <1>4, <1>7
  <2>2. Fit(d + 3, d + 4)
    BY <2>1
  <2> QED BY <2>2
<1>8. ASSUME k = 5 PROVE \E p, q \in Nat : Fit(p, q)
  <2>1. ~Study!Weekday(d + 1) /\ Study!Weekday(d + 2) /\ Study!Weekday(d + 3)
    BY <1>4, <1>8
  <2>2. Fit(d + 2, d + 3)
    BY <2>1
  <2> QED BY <2>2
<1> HIDE DEF Fit
<1>9. \E p, q \in Nat : Fit(p, q)
  BY <1>3, <1>5, <1>6, <1>7, <1>8
<1>10. Study!AddWeekdays(d, 2) \in d..(d + 2 * 2 + 2)
  BY <1>1, <1>9 DEF Study!AddWeekdays
<1> QED BY <1>10

LEMMA KnownInTime ==
    ASSUME NEW d \in Nat \ {0}, NEW from \in Study!Source
    PROVE  Study!Available(d, from) <= d + Study!AvailabilityLookback
<1>1. Study!AvailabilityLookback \in Nat /\ 47 <= Study!AvailabilityLookback
  <2>1. Study!AvailabilityLookback = Study!Max({47, 4})
    BY DEF Study!AvailabilityLookback
  <2> QED BY <2>1, ExtremesOfTwo
<1>2. CASE from = "insider_clusters"
  <2>1. PICK e : e = Study!AddWeekdays(d, 2)
    OBVIOUS
  <2>2. e \in Nat \ {0} /\ e <= d + 6
    BY <2>1, TwoWeekdaysTakeSix
  <2>3. Study!Available(d, from) = Study!RollToWeekday(e)
    BY <1>2, <2>1 DEF Study!Available
  <2> QED BY <1>1, <2>2, <2>3, RollsTwoDays
<1>3. CASE from = "crowding"
  <2>1. Study!Available(d, from) = Study!RollToWeekday(d + 45)
    BY <1>3 DEF Study!Available
  <2> QED BY <1>1, <2>1, RollsTwoDays
<1>4. CASE from = "other"
  <2>1. Study!Available(d, from) = Study!RollToWeekday(d)
    BY <1>4 DEF Study!Available
  <2> QED BY <1>1, <2>1, RollsTwoDays
<1> QED BY <1>2, <1>3, <1>4 DEF Study!Source

\* The exchange opens within a week, so an anchor is the first day that it does.
LEMMA AnchoredInTime ==
    ASSUME NEW d \in 1..StudyDays, NEW late \in BOOLEAN
    PROVE  Study!Anchor(d, late) <= d + 7
<1>1. PICK f : f = IF late THEN d + 1 ELSE d
  OBVIOUS
<1>2. f \in 1..(StudyDays + 1) /\ f <= d + 1
  BY <1>1, StudyBounds
<1> DEFINE Open == {t \in f..(f + 6) : Study!TradingDay(t)}
<1>3. Open # {}
  BY <1>2, StudyBounds DEF Study!TradingDay, Study!Weekday
<1>4. PICK m \in Open : \A t \in Open : m <= t
  <2>1. Open \in SUBSET Nat
    BY <1>2
  <2> HIDE DEF Open
  <2> QED BY <1>3, <2>1, LeastNat
<1>5. m \in f..(f + 6) /\ Study!TradingDay(m) /\ \A s \in f..(m - 1) : ~Study!TradingDay(s)
  BY <1>2, <1>4
<1>6. PICK t : t = Study!NextTradingDay(f)
  OBVIOUS
<1>7. t \in f..(f + 7) /\ Study!TradingDay(t) /\ \A s \in f..(t - 1) : ~Study!TradingDay(s)
  <2>1. \E n \in f..(f + 7) : Study!TradingDay(n) /\ \A s \in f..(n - 1) : ~Study!TradingDay(s)
    BY <1>2, <1>5
  <2> QED BY <1>6, <2>1 DEF Study!NextTradingDay
<1>8. t <= m
  BY <1>2, <1>5, <1>7
<1> QED BY <1>1, <1>2, <1>5, <1>6, <1>7, <1>8, StudyBounds DEF Study!Anchor

LEMMA BatchServes == StudyInv => Study!BatchDoesNotMatter
<1> SUFFICES ASSUME StudyInv PROVE Study!BatchDoesNotMatter
  OBVIOUS
<1>1. \A d \in 1..marketDay : d \in 1..StudyDays /\ d \in Nat \ {0}
  BY StudyBounds DEF StudyInv
<1> QED BY <1>1, EventsShare, StacksShare, KnownInTime, AnchoredInTime DEF Study!BatchDoesNotMatter

-----------------------------------------------------------------------------
\* What is known of the past.
LEMMA UpToIs ==
    ASSUME StudyInv, NEW d \in Nat
    PROVE  /\ series \in Rows /\ marketDay \in Nat /\ series \in SUBSET (1..marketDay)
           /\ Study!UpTo(d) \in Rows /\ Study!UpTo(d) \in SUBSET (1..d)
           /\ \A r \in series : r \in Nat /\ r # 0
           /\ \A r : r \in Study!UpTo(d) <=> r \in series /\ r <= d
<1>1. series \in Rows /\ marketDay \in Nat /\ series \in SUBSET (1..marketDay)
  BY DEF StudyInv, Rows
<1>2. \A r \in series : r \in Nat /\ r # 0
  BY <1>1
<1>3. \A r : r \in Study!UpTo(d) <=> r \in series /\ r <= d
  BY DEF Study!UpTo
<1>4. Study!UpTo(d) \in SUBSET (1..d)
  BY <1>2, <1>3
<1>5. Study!UpTo(d) \in Rows
  BY <1>2, <1>3 DEF Rows
<1> QED BY <1>1, <1>2, <1>3, <1>4, <1>5

\* A window's return, once both its rows are there.
LEMMA ReturnStays ==
    ASSUME StudyInv, NEW d \in 1..marketDay, NEW e \in 1..(d + 1), NEW w \in Study!Windows
    PROVE  Study!Stays(Study!WindowedReturn(Study!UpTo(d), e, w), Study!WindowedReturn(series, e, w))
<1> USE StudyBounds
<1>1. /\ d \in Nat /\ e \in Nat /\ e <= d + 1 /\ series \in Rows
  BY UpToIs DEF StudyInv
<1>2. /\ w.lo \in Nat /\ w.hi \in Nat
      /\ w.kind = "pre" => w.lo # 0 /\ w.hi # 0
      /\ w.kind # "pre" => w.lo # 0 \/ w.hi # 0
  BY DEF Study!Windows
<1>3. ASSUME NEW n \in Nat, n # 0 \/ e <= d
      PROVE  Study!AtOrBefore(Study!UpTo(d), Study!Ago(e, n)) = Study!AtOrBefore(series, Study!Ago(e, n))
  <2>1. Study!Ago(e, n) \in Nat /\ Study!Ago(e, n) <= d
    BY <1>1, <1>3 DEF Study!Ago
  <2> QED BY <1>1, <2>1, LookupsStay
<1>4. CASE w.kind = "pre"
  BY <1>2, <1>3, <1>4 DEF Study!Stays, Study!WindowedReturn
<1>5. CASE w.kind # "pre"
  <2>1. CASE Study!AtOrAfter(Study!UpTo(d), e + w.hi) = 0
    BY <1>5, <2>1 DEF Study!Stays, Study!WindowedReturn, Study!Return
  <2>2. CASE Study!AtOrAfter(Study!UpTo(d), e + w.hi) # 0
    <3>1. /\ e + w.hi <= d
          /\ Study!AtOrAfter(Study!UpTo(d), e + w.hi) = Study!AtOrAfter(series, e + w.hi)
      BY <1>1, <1>2, <2>2, LookupsStay
    <3>2. Study!AtOrBefore(Study!UpTo(d), Study!Ago(e, w.lo)) = Study!AtOrBefore(series, Study!Ago(e, w.lo))
      BY <1>1, <1>2, <1>3, <3>1
    <3> QED BY <1>5, <3>1, <3>2 DEF Study!Stays, Study!WindowedReturn
  <2> QED BY <2>1, <2>2
<1> QED BY <1>4, <1>5

\* A drawdown's label, once the stretch ahead of it is over.
LEMMA DrawdownStays ==
    ASSUME StudyInv, NEW d \in 1..marketDay, NEW e \in Study!UpTo(d)
    PROVE  Study!Stays(Study!Drawdown(Study!UpTo(d), e), Study!Drawdown(series, e))
<1> USE StudyBounds
<1>1. /\ d \in Nat /\ series \in SUBSET (1..marketDay) /\ marketDay \in Nat
      /\ Study!UpTo(d) \in SUBSET (1..d)
      /\ \A r : r \in Study!UpTo(d) <=> r \in series /\ r <= d
      /\ \A r \in series : r \in Nat
  BY UpToIs DEF StudyInv
<1>2. CASE Study!Max(Study!UpTo(d)) >= e + Ahead
  <2>1. PICK m, n : m = Study!Max(Study!UpTo(d)) /\ n = Study!Max(series)
    OBVIOUS
  <2>2. m \in Study!UpTo(d)
    BY <1>1, <2>1, MaxOf
  <2>3. n \in series /\ \A r \in series : r <= n
    <3>1. series # {}
      BY <1>1
    <3> QED BY <1>1, <2>1, <3>1, MaxOf
  <2>4. e \in Nat /\ e + Ahead <= d /\ n >= e + Ahead
    BY <1>1, <1>2, <2>1, <2>2, <2>3
  <2>5. Study!Between(Study!UpTo(d), e + 1, e + Ahead) = Study!Between(series, e + 1, e + Ahead)
    <3>1. \A r \in series : r <= e + Ahead => r \in Study!UpTo(d)
      BY <1>1, <2>4
    <3>2. \A r \in Study!UpTo(d) : r \in series
      BY <1>1
    <3> QED BY <3>1, <3>2 DEF Study!Between
  <2> QED BY <1>2, <2>1, <2>4, <2>5 DEF Study!Stays, Study!Drawdown
<1>3. CASE ~(Study!Max(Study!UpTo(d)) >= e + Ahead)
  BY <1>3 DEF Study!Stays, Study!Drawdown
<1> QED BY <1>2, <1>3

LEMMA LabelsStay == StudyInv => Study!LabelsAreFinal
<1> SUFFICES ASSUME StudyInv PROVE Study!LabelsAreFinal
  OBVIOUS
<1>1. ASSUME NEW d \in 1..marketDay, NEW e \in Study!UpTo(d)
      PROVE  Study!Stays(Study!Aligned(Study!UpTo(d), e), Study!Aligned(series, e))
  BY <1>1 DEF Study!Stays, Study!Aligned, Study!UpTo
<1>2. ASSUME NEW d \in 1..marketDay, NEW a \in 1..d, NEW b \in 1..d
      PROVE  Study!Stays(Study!WindowReturn(Study!UpTo(d), [from |-> a, to |-> b]),
                         Study!WindowReturn(series, [from |-> a, to |-> b]))
  <2>1. d \in Nat /\ a \in Nat /\ b \in Nat /\ a <= d /\ b <= d /\ series \in Rows
    BY UpToIs DEF StudyInv
  <2>2. /\ Study!AtOrBefore(Study!UpTo(d), a) = Study!AtOrBefore(series, a)
        /\ Study!AtOrBefore(Study!UpTo(d), b) = Study!AtOrBefore(series, b)
    BY <2>1, LookupsStay
  <2> QED BY <2>2 DEF Study!Stays, Study!WindowReturn
<1> QED BY <1>1, <1>2, ReturnStays, DrawdownStays DEF Study!LabelsAreFinal

LEMMA FeaturesStay == StudyInv => Study!FeaturesLookBack
<1> SUFFICES ASSUME StudyInv, NEW d \in series
             PROVE  /\ Study!Feature(series, d) = Study!Feature(Study!UpTo(d), d)
                    /\ Study!Strength(series, d) = Study!Strength(Study!UpTo(d), d)
                    /\ Study!AnomalyWindow(series, d) = Study!AnomalyWindow(Study!UpTo(d), d)
                    /\ Study!Snapshot(series, d) = Study!Snapshot(Study!UpTo(d), d)
                    /\ Study!MacroContext(series, [from |-> d, to |-> d])
                         = Study!MacroContext(Study!UpTo(d), [from |-> d, to |-> d])
  BY DEF Study!FeaturesLookBack
<1> USE StudyBounds
<1>1. /\ d \in Nat /\ series \in Rows
      /\ \A r : r \in Study!UpTo(d) <=> r \in series /\ r <= d
      /\ \A r \in series : r \in Nat
  BY UpToIs DEF StudyInv
<1>2. \A x \in Nat : x <= d => Study!AtOrBefore(Study!UpTo(d), x) = Study!AtOrBefore(series, x)
  BY <1>1, LookupsStay
<1>3. \A n \in Nat : Study!Ago(d, n) \in Nat /\ Study!Ago(d, n) <= d
  BY <1>1, AgoIs
<1>4. \A x : Study!Between(Study!UpTo(d), x, d) = Study!Between(series, x, d)
  BY <1>1 DEF Study!Between
<1>5. Study!Feature(series, d) = Study!Feature(Study!UpTo(d), d)
  <2>1. /\ Study!AtOrBefore(Study!UpTo(d), Study!Ago(d, Back)) = Study!AtOrBefore(series, Study!Ago(d, Back))
        /\ Study!AtOrBefore(Study!UpTo(d), Study!Ago(d, 1)) = Study!AtOrBefore(series, Study!Ago(d, 1))
    BY <1>2, <1>3
  <2> QED BY <1>4, <2>1 DEF Study!Feature
<1>6. Study!Strength(series, d) = Study!Strength(Study!UpTo(d), d)
  <2>1. {r \in Study!UpTo(d) : r <= d} = {r \in series : r <= d}
    BY <1>1
  <2> QED BY <2>1 DEF Study!Strength
<1>7. Study!AnomalyWindow(series, d) = Study!AnomalyWindow(Study!UpTo(d), d)
  <2>1. PICK m : m = Study!Min(series)
    OBVIOUS
  <2>2. m \in series /\ \A r \in series : m <= r
    <3>1. series \in SUBSET Nat /\ series # {}
      BY <1>1
    <3> QED BY <2>1, <3>1, MinOf
  <2>3. Study!Min(Study!UpTo(d)) = m
    <3>1. PICK n : n = Study!Min(Study!UpTo(d))
      OBVIOUS
    <3>2. Study!UpTo(d) \in SUBSET Nat /\ d \in Study!UpTo(d)
      <4>1. \A r \in Study!UpTo(d) : r \in Nat
        BY <1>1
      <4>2. d \in Study!UpTo(d)
        BY <1>1
      <4> QED BY <4>1, <4>2
    <3>3. n \in Study!UpTo(d) /\ \A r \in Study!UpTo(d) : n <= r
      BY <3>1, <3>2, MinOf
    <3>4. m <= d /\ m \in Study!UpTo(d)
      BY <1>1, <2>2
    <3>5. m <= n /\ n <= m /\ m \in Nat /\ n \in Nat
      BY <1>1, <2>2, <3>3, <3>4
    <3> QED BY <3>1, <3>5
  <2>4. PICK R, Q : R = series \ {m} /\ Q = Study!UpTo(d) \ {m}
    OBVIOUS
  <2>5. \A r : r \in Q <=> r \in R /\ r <= d
    BY <1>1, <2>4
  <2>6. \A r \in R : r \in Nat
    BY <1>1, <2>4
  <2>7. \A r : {q \in R : r <= q /\ q < d} = {q \in Q : r <= q /\ q < d}
    BY <1>1, <2>5, <2>6
  <2>8. {r \in R : r < d /\ Study!Cardinality({q \in R : r <= q /\ q < d}) <= Back}
          = {r \in Q : r < d /\ Study!Cardinality({q \in Q : r <= q /\ q < d}) <= Back}
    <3>1. \A r : Study!Cardinality({q \in R : r <= q /\ q < d}) = Study!Cardinality({q \in Q : r <= q /\ q < d})
      BY <2>7
    <3>2. PICK C : C = {r \in R : Study!Cardinality({q \in R : r <= q /\ q < d}) <= Back}
      OBVIOUS
    <3>3. \A r \in R : r \in C <=> Study!Cardinality({q \in R : r <= q /\ q < d}) <= Back
      BY <3>2
    <3>4. \A r \in R : r \in C <=> Study!Cardinality({q \in Q : r <= q /\ q < d}) <= Back
      BY <3>1, <3>3
    <3>5. {r \in R : r < d /\ Study!Cardinality({q \in R : r <= q /\ q < d}) <= Back} = {r \in R : r < d /\ r \in C}
      BY <3>3
    <3>6. {r \in Q : r < d /\ Study!Cardinality({q \in Q : r <= q /\ q < d}) <= Back} = {r \in Q : r < d /\ r \in C}
      BY <2>5, <3>4
    <3>7. {r \in R : r < d /\ r \in C} = {r \in Q : r < d /\ r \in C}
      BY <1>1, <2>5, <2>6
    <3> QED BY <3>5, <3>6, <3>7
  <2>9. d \in R <=> d \in Q
    BY <1>1, <2>5
  <2> QED BY <2>1, <2>3, <2>4, <2>8, <2>9 DEF Study!AnomalyWindow
<1>8. Study!Snapshot(series, d) = Study!Snapshot(Study!UpTo(d), d)
  BY <1>1, <1>4 DEF Study!Snapshot
<1>9. Study!MacroContext(series, [from |-> d, to |-> d]) = Study!MacroContext(Study!UpTo(d), [from |-> d, to |-> d])
  BY <1>1, <1>2 DEF Study!MacroContext
<1> QED BY <1>5, <1>6, <1>7, <1>8, <1>9

LEMMA TrainingIsBlind == StudyInv => Study!TrainingSeesNoTest
<1> SUFFICES ASSUME StudyInv, NEW split \in 1..marketDay, NEW d \in Study!Train(series, split)
             PROVE  (\A r \in Study!Drawdown(series, d) : r <= split) /\ d \notin Study!Test(series, split)
  BY DEF Study!TrainingSeesNoTest
<1>1. d \in series /\ d <= Study!Ago(split, Ahead)
  BY DEF Study!Train, Study!Evaluable
<1>2. d \in Nat /\ d # 0 /\ split \in Nat /\ \A r \in series : r \in Nat
  BY <1>1, UpToIs DEF StudyInv
<1>3. d + Ahead <= split
  BY <1>1, <1>2, StudyBounds DEF Study!Ago
<1>4. \A r \in Study!Drawdown(series, d) : r \in series /\ r <= d + Ahead
  BY DEF Study!Drawdown, Study!Between, Study!None
<1>5. d <= split
  BY <1>2, <1>3, StudyBounds
<1>6. d \notin Study!Test(series, split)
  BY <1>2, <1>5 DEF Study!Test
<1> QED BY <1>2, <1>3, <1>4, <1>6, StudyBounds

-----------------------------------------------------------------------------
\* Scoring. What the sizes and the ends of sets are.
LEMMA ScoreSize == \A S : Score!Cardinality(S) = Cardinality(S)
BY DEF Score!Cardinality, Cardinality

LEMMA ScoreNewest ==
    ASSUME NEW k \in Nat, NEW R \in SUBSET (1..k)
    PROVE  Score!Newest(R) \in {0} \cup R /\ \A r \in R : r <= Score!Newest(R)
<1>1. Score!Newest(R) = Llama!Max({0} \cup R)
  BY DEF Score!Newest, Score!None, Score!Max, Llama!Max
<1> QED BY <1>1, MaxIsLast DEF IsLast

LEMMA ScoreEnds ==
    ASSUME NEW k \in Nat, NEW R \in SUBSET (1..k), R # {}
    PROVE  /\ Score!Max(R) \in R /\ \A r \in R : r <= Score!Max(R)
           /\ Score!Min(R) \in R /\ \A r \in R : Score!Min(R) <= r
<1>1. Score!Max(R) = Study!Max(R) /\ Score!Min(R) = Study!Min(R)
  BY DEF Score!Max, Study!Max, Score!Min, Study!Min
<1>2. R \in SUBSET Nat
  OBVIOUS
<1> QED BY <1>1, <1>2, MaxOf, MinOf

\* What a run has computed is of its own beginning, one row to an asset, the assets in
\* order, once every macro series has been read; and so is what it wrote.
IsRowOf(s, n) ==
    /\ s.by = n /\ s.day = begun[n].day /\ s.macro = begun[n].macro
    /\ Len(begun[n].macro) = MacroSeries

Gathered(F, n) ==
    /\ n \in 1..Len(begun) /\ IsFiniteSet(F)
    /\ \A s \in F : IsRowOf(s, n) /\ s.asset \in Nat /\ s.asset <= Score!Cardinality(F)
    /\ \A s, t \in F : s.asset = t.asset => s = t

ComputingOf(n, F) == [step |-> "compute", n |-> n, found |-> F]

Beginning == [day : Nat, macro : {m \in Seq(0..1) : Len(m) <= MacroSeries}, filter : Score!Filters, persist : BOOLEAN]

ScoreInv ==
    /\ begun \in Seq(Beginning)
    /\ scoreDay \in Nat /\ macro \in [Score!Series -> 0..1]
    /\ scoring = [p \in Scorer |-> scoring[p]]
    /\ \A p \in Scorer : scoring[p] = Score!Idle \/ \E n, F : scoring[p] = ComputingOf(n, F) /\ Gathered(F, n)
    /\ \A s \in scores :
          /\ s.by \in 1..Len(begun) /\ IsRowOf(s, s.by)
          /\ s.asset \in begun[s.by].filter /\ begun[s.by].persist
    /\ \A s, t \in scores : s.asset = t.asset /\ s.day = t.day => s = t

LEMMA ScoreInit == Score!Init => ScoreInv
BY ScoreBounds DEF Score!Init, ScoreInv, Score!Idle

\* While runs begin, what the earlier ones began with stays.
LEMMA ScoresBegan ==
    ASSUME ScoreInv, NEW b \in Beginning, begun' = Append(begun, b)
    PROVE  /\ begun' \in Seq(Beginning)
           /\ Len(begun') = Len(begun) + 1 /\ Len(begun) \in Nat
           /\ \A n \in 1..Len(begun) : n \in 1..Len(begun') /\ begun'[n] = begun[n]
           /\ begun'[Len(begun) + 1] = b
BY DEF ScoreInv

\* A step that begins nothing and turns one process.
LEMMA OneScorerTurns ==
    ASSUME ScoreInv, NEW p \in Scorer, NEW r, scoring' = [scoring EXCEPT ![p] = r],
           r = Score!Idle \/ \E n, F : r = ComputingOf(n, F) /\ Gathered(F, n),
           UNCHANGED <<scoreDay, macro, begun>>,
           \A s \in scores' : s \in scores
              \/ /\ s.by \in 1..Len(begun) /\ IsRowOf(s, s.by)
                 /\ s.asset \in begun[s.by].filter /\ begun[s.by].persist,
           \A s, t \in scores' : s.asset = t.asset /\ s.day = t.day => s = t
    PROVE  ScoreInv'
<1>1. scoring' = [q \in Scorer |-> scoring'[q]] /\ \A q \in Scorer : scoring'[q] = IF q = p THEN r ELSE scoring[q]
  BY DEF ScoreInv
<1>2. /\ \A s, n : IsRowOf(s, n)' <=> IsRowOf(s, n)
      /\ \A F, n : Gathered(F, n)' <=> Gathered(F, n)
      /\ Score!Idle' = Score!Idle /\ \A n, F : ComputingOf(n, F)' = ComputingOf(n, F)
  BY DEF IsRowOf, Gathered, Score!Idle, ComputingOf
<1>3. \A q \in Scorer : scoring'[q] = Score!Idle \/ \E n, F : scoring'[q] = ComputingOf(n, F) /\ Gathered(F, n)
  BY <1>1 DEF ScoreInv
<1>4. \A s \in scores' :
         /\ s.by \in 1..Len(begun) /\ IsRowOf(s, s.by)
         /\ s.asset \in begun[s.by].filter /\ begun[s.by].persist
  BY DEF ScoreInv
<1> HIDE DEF Score!Idle
<1> QED BY <1>1, <1>2, <1>3, <1>4 DEF ScoreInv

LEMMA ScoreStays ==
    ASSUME ScoreInv, UNCHANGED <<scoring, begun, scores>>, scoreDay' \in Nat, macro' \in [Score!Series -> 0..1]
    PROVE  ScoreInv'
<1>1. /\ \A s, n : IsRowOf(s, n)' <=> IsRowOf(s, n)
      /\ \A F, n : Gathered(F, n)' <=> Gathered(F, n)
  BY DEF IsRowOf, Gathered
<1> QED BY <1>1 DEF ScoreInv, ComputingOf

LEMMA ScoreBeginInv ==
    ASSUME ScoreInv, NEW p \in Scorer, NEW persist \in BOOLEAN, NEW filter \in Score!Filters,
           Score!Begin(p, persist, filter)
    PROVE  ScoreInv'
<1> DEFINE b == [day |-> scoreDay, macro |-> <<>>, filter |-> filter, persist |-> persist]
<1>0. PICK m : m = Len(begun) + 1
  OBVIOUS
<1>1. /\ begun' = Append(begun, b) /\ scoring' = [scoring EXCEPT ![p] = ComputingOf(m, {})]
      /\ UNCHANGED <<scoreDay, macro, scores>>
  BY <1>0 DEF Score!Begin, ComputingOf
<1>2. b \in Beginning
  <2>1. <<>> \in Seq(0..1) /\ Len(<<>>) <= MacroSeries /\ scoreDay \in Nat
    BY ScoreBounds DEF ScoreInv
  <2> QED BY <2>1 DEF Beginning
<1>3. /\ begun' \in Seq(Beginning)
      /\ Len(begun') = m /\ m \in 1..m
      /\ \A n \in 1..Len(begun) : n \in 1..Len(begun') /\ begun'[n] = begun[n]
  <2> HIDE DEF b
  <2> QED BY <1>0, <1>1, <1>2, ScoresBegan
<1> HIDE DEF b
<1>4. \A s, n : n \in 1..Len(begun) /\ IsRowOf(s, n) => IsRowOf(s, n)'
  BY <1>3 DEF IsRowOf
<1>5. \A F, n : Gathered(F, n) => Gathered(F, n)'
  BY <1>3, <1>4 DEF Gathered
<1>6. Gathered({}, m)'
  BY <1>3, FS_EmptySet, ScoreSize DEF Gathered
<1>7. scoring' = [q \in Scorer |-> scoring'[q]] /\ \A q \in Scorer : scoring'[q] = IF q = p THEN ComputingOf(m, {}) ELSE scoring[q]
  <2>1. scoring = [q \in Scorer |-> scoring[q]]
    BY DEF ScoreInv
  <2>2. scoring' = [q \in Scorer |-> IF q = p THEN ComputingOf(m, {}) ELSE scoring[q]]
    BY <1>1, <2>1
  <2> QED BY <2>2
<1>8. \A q \in Scorer : scoring'[q] = Score!Idle \/ \E n, F : scoring'[q] = ComputingOf(n, F) /\ Gathered(F, n)'
  <2> TAKE q \in Scorer
  <2>1. CASE q = p
    BY <1>6, <1>7, <2>1
  <2>2. CASE q # p /\ scoring[q] = Score!Idle
    BY <1>7, <2>2
  <2>3. CASE q # p /\ \E n, F : scoring[q] = ComputingOf(n, F) /\ Gathered(F, n)
    BY <1>5, <1>7, <2>3
  <2> QED BY <2>1, <2>2, <2>3 DEF ScoreInv
<1>9. \A s \in scores :
        /\ s.by \in 1..Len(begun') /\ IsRowOf(s, s.by)'
        /\ s.asset \in begun'[s.by].filter /\ begun'[s.by].persist
  BY <1>3, <1>4 DEF ScoreInv
<1>10. scoreDay' \in Nat /\ macro' \in [Score!Series -> 0..1] /\ scores' = scores
  BY <1>1 DEF ScoreInv
<1>11. /\ Beginning' = Beginning /\ Score!Series' = Score!Series /\ Score!Idle' = Score!Idle
       /\ \A n, F : ComputingOf(n, F)' = ComputingOf(n, F)
  BY DEF Beginning, Score!Filters, Score!Asset, Score!Series, Score!Idle, ComputingOf
<1> QED BY <1>3, <1>7, <1>8, <1>9, <1>10, <1>11 DEF ScoreInv

\* Reading a series adds to a run that has no rows yet, since not every series is read.
LEMMA ScoreMacroInv ==
    ASSUME ScoreInv, NEW p \in Scorer, Score!LoadMacro(p)
    PROVE  ScoreInv'
<1>1. PICK m, G : scoring[p] = ComputingOf(m, G) /\ Gathered(G, m)
  BY DEF Score!LoadMacro, ScoreInv, Score!Idle
<1>2. /\ m \in 1..Len(begun) /\ Len(begun[m].macro) # MacroSeries
      /\ begun' = [begun EXCEPT ![m].macro = Append(@, macro[Len(@) + 1])]
      /\ UNCHANGED <<scoreDay, macro, scoring, scores>>
  BY <1>1 DEF Score!LoadMacro, Score!MacroLoaded, ComputingOf, Gathered
<1>3. G = {}
  BY <1>1, <1>2 DEF Gathered, IsRowOf
<1>4. /\ begun' \in Seq(Beginning) /\ Len(begun') = Len(begun)
      /\ \A n \in 1..Len(begun) :
            /\ begun'[n].day = begun[n].day /\ begun'[n].filter = begun[n].filter /\ begun'[n].persist = begun[n].persist
            /\ n # m => begun'[n] = begun[n]
  <2>1. PICK old : old = begun[m]
    OBVIOUS
  <2>2. old \in Beginning
    <3> HIDE DEF Beginning
    <3> QED BY <1>2, <2>1 DEF ScoreInv
  <2>3. /\ old.macro \in Seq(0..1) /\ Len(old.macro) \in Nat /\ Len(old.macro) < MacroSeries
        /\ MacroSeries \in Nat /\ macro[Len(old.macro) + 1] \in 0..1
    <3>1. old.macro \in Seq(0..1) /\ Len(old.macro) <= MacroSeries
      BY <2>2 DEF Beginning
    <3>2. Len(old.macro) \in Nat /\ Len(old.macro) < MacroSeries /\ MacroSeries \in Nat
      <4>1. Len(old.macro) # MacroSeries
        BY <1>2, <2>1
      <4>2. MacroSeries \in Nat
        BY ScoreBounds
      <4>3. Len(old.macro) \in Nat
        BY <3>1
      <4> QED BY <3>1, <4>1, <4>2, <4>3
    <3>3. Len(old.macro) + 1 \in Score!Series
      BY <3>2 DEF Score!Series
    <3>4. macro \in [Score!Series -> 0..1]
      BY DEF ScoreInv
    <3> QED BY <3>1, <3>2, <3>3, <3>4
  <2>4. /\ Append(old.macro, macro[Len(old.macro) + 1]) \in Seq(0..1)
        /\ Len(Append(old.macro, macro[Len(old.macro) + 1])) <= MacroSeries
    BY <2>3
  <2>5. [old EXCEPT !.macro = Append(@, macro[Len(@) + 1])] \in Beginning
    BY <2>2, <2>4 DEF Beginning
  <2>6. begun' = [begun EXCEPT ![m] = [old EXCEPT !.macro = Append(@, macro[Len(@) + 1])]]
    BY <1>2, <2>1
  <2>7. begun \in Seq(Beginning)
    BY DEF ScoreInv
  <2>8. /\ begun' \in Seq(Beginning) /\ Len(begun') = Len(begun)
        /\ \A n \in 1..Len(begun) : n # m => begun'[n] = begun[n]
        /\ begun'[m] = [old EXCEPT !.macro = Append(@, macro[Len(@) + 1])]
    <3>1. PICK new : new = [old EXCEPT !.macro = Append(@, macro[Len(@) + 1])]
      OBVIOUS
    <3> HIDE DEF Beginning
    <3>2. new \in Beginning /\ begun' = [begun EXCEPT ![m] = new]
      BY <2>5, <2>6, <3>1
    <3>3. m \in 1..Len(begun) /\ begun \in Seq(Beginning)
      BY <1>2, <2>7
    <3>4. begun' \in Seq(Beginning) /\ Len(begun') = Len(begun) /\ begun'[m] = new
      BY <3>2, <3>3
    <3>5. \A n \in 1..Len(begun) : n # m => begun'[n] = begun[n]
      BY <3>2, <3>3
    <3> QED BY <3>1, <3>4, <3>5
  <2>9. /\ begun'[m].day = begun[m].day /\ begun'[m].filter = begun[m].filter
        /\ begun'[m].persist = begun[m].persist
    BY <2>1, <2>2, <2>8 DEF Beginning
  <2> QED BY <2>8, <2>9
<1>5. \A s, n : n \in 1..Len(begun) /\ IsRowOf(s, n) => IsRowOf(s, n)'
  BY <1>2, <1>4 DEF IsRowOf
<1>6. \A F, n : Gathered(F, n) => Gathered(F, n)'
  BY <1>4, <1>5 DEF Gathered
<1>7. \A s \in scores :
        /\ s.by \in 1..Len(begun') /\ IsRowOf(s, s.by)'
        /\ s.asset \in begun'[s.by].filter /\ begun'[s.by].persist
  BY <1>4, <1>5 DEF ScoreInv
<1>8. /\ Beginning' = Beginning /\ Score!Series' = Score!Series /\ Score!Idle' = Score!Idle
      /\ \A n, F : ComputingOf(n, F)' = ComputingOf(n, F)
  BY DEF Beginning, Score!Filters, Score!Asset, Score!Series, Score!Idle, ComputingOf
<1> QED BY <1>2, <1>4, <1>6, <1>7, <1>8 DEF ScoreInv

LEMMA ScoreLoadInv ==
    ASSUME ScoreInv, NEW p \in Scorer, NEW a \in Score!Asset, Score!LoadAsset(p, a)
    PROVE  ScoreInv'
<1>1. PICK n, F : scoring[p] = ComputingOf(n, F) /\ Gathered(F, n)
  BY DEF Score!LoadAsset, ScoreInv, Score!Idle
<1> DEFINE x == [asset |-> a, day |-> begun[n].day, macro |-> begun[n].macro, by |-> n]
<1>a. /\ scoring[p].n = n /\ scoring[p].found = F
      /\ \A G : [scoring[p] EXCEPT !.found = G] = ComputingOf(n, G)
  BY <1>1 DEF ComputingOf
<1>2. /\ a = Score!Cardinality(F) + 1 /\ scoring' = [scoring EXCEPT ![p] = ComputingOf(n, F \cup {x})]
      /\ Len(begun[n].macro) = MacroSeries
      /\ UNCHANGED <<scoreDay, macro, begun, scores>>
  <2>1. /\ a = Score!NextAsset(p) /\ Score!MacroLoaded(p)
        /\ scoring' = [scoring EXCEPT ![p] = [scoring[p] EXCEPT !.found = scoring[p].found \cup
              {[asset |-> a, day |-> begun[scoring[p].n].day, macro |-> begun[scoring[p].n].macro, by |-> scoring[p].n]}]]
    BY DEF Score!LoadAsset
  <2> QED BY <1>a, <2>1 DEF Score!LoadAsset, Score!NextAsset, Score!MacroLoaded
<1>3. IsFiniteSet(F) /\ \A s \in F : s.asset \in Nat /\ s.asset <= Score!Cardinality(F)
  BY <1>1 DEF Gathered
<1>4. Score!Cardinality(F) \in Nat
  BY <1>3, FS_CardinalityType, ScoreSize
<1>5. x \notin F /\ x.asset = a /\ IsRowOf(x, n) /\ \A s \in F : s.asset # x.asset
  BY <1>2, <1>3, <1>4 DEF IsRowOf
<1> HIDE DEF x
<1>6. IsFiniteSet(F \cup {x}) /\ Score!Cardinality(F \cup {x}) = Score!Cardinality(F) + 1
  BY <1>3, <1>5, FS_AddElement, ScoreSize
<1>7. \A s \in F \cup {x} : s.asset \in Nat /\ s.asset <= Score!Cardinality(F \cup {x})
  BY <1>2, <1>3, <1>4, <1>5, <1>6
<1>8. Gathered(F \cup {x}, n)
  BY <1>1, <1>5, <1>6, <1>7 DEF Gathered
<1> QED BY <1>2, <1>8, OneScorerTurns DEF ScoreInv

LEMMA ScorePersistInv ==
    ASSUME ScoreInv, NEW p \in Scorer, Score!Persist(p)
    PROVE  ScoreInv'
<1>1. PICK n, F : scoring[p] = ComputingOf(n, F) /\ Gathered(F, n)
  BY DEF Score!Persist, Score!Computed, ScoreInv, Score!Idle
<1> DEFINE of == {s \in F : s.asset \in begun[n].filter}
<1>2. /\ begun[n].persist /\ scoring' = [scoring EXCEPT ![p] = Score!Idle]
      /\ scores' = {s \in scores : \A r \in of : <<r.asset, r.day>> # <<s.asset, s.day>>} \cup of
      /\ UNCHANGED <<scoreDay, macro, begun>>
  BY <1>1 DEF Score!Persist, ComputingOf
<1>3. \A s \in of : /\ s.by = n /\ n \in 1..Len(begun) /\ IsRowOf(s, n)
                      /\ s.asset \in begun[n].filter
  BY <1>1 DEF Gathered, IsRowOf
<1>4. \A s, t \in of : s.asset = t.asset => s = t
  BY <1>1 DEF Gathered
<1> HIDE DEF of
<1>5. \A s, t \in scores' : s.asset = t.asset /\ s.day = t.day => s = t
  BY <1>2, <1>4 DEF ScoreInv
<1>6. \A s \in scores' : s \in scores
         \/ /\ s.by \in 1..Len(begun) /\ IsRowOf(s, s.by)
            /\ s.asset \in begun[s.by].filter /\ begun[s.by].persist
  BY <1>2, <1>3
<1> QED BY <1>2, <1>5, <1>6, OneScorerTurns

LEMMA ScoreNextInv ==
    ASSUME ScoreInv, Score!Next
    PROVE  ScoreInv'
<1>1. ASSUME NEW i \in Score!Series, Score!MacroMoves(i) PROVE ScoreInv'
  BY <1>1, ScoreStays DEF Score!MacroMoves, ScoreInv
<1>2. CASE Score!NextDay
  BY <1>2, ScoreStays DEF Score!NextDay, ScoreInv
<1>4. ASSUME NEW p \in Scorer, Score!Show(p) \/ Score!Crash(p) PROVE ScoreInv'
  <2>1. scoring' = [scoring EXCEPT ![p] = Score!Idle] /\ UNCHANGED <<scoreDay, macro, begun, scores>>
    BY <1>4 DEF Score!Show, Score!Crash
  <2> QED BY <2>1, OneScorerTurns DEF ScoreInv
<1> QED BY <1>1, <1>2, <1>4, ScoreBeginInv, ScoreMacroInv, ScoreLoadInv, ScorePersistInv DEF Score!Next

LEMMA ScoresUniform == ScoreInv => Score!RunsAreUniform
<1> SUFFICES ASSUME ScoreInv PROVE Score!RunsAreUniform
  OBVIOUS
<1>1. \A s \in scores : s.day \in Nat
  <2> TAKE s \in scores
  <2>1. s.by \in 1..Len(begun) /\ s.day = begun[s.by].day
    BY DEF ScoreInv, IsRowOf
  <2>2. begun[s.by] \in Beginning
    <3> HIDE DEF Beginning
    <3> QED BY <2>1 DEF ScoreInv
  <2> QED BY <2>1, <2>2 DEF Beginning
<1>2. \A s, t \in Score!Latest : s.asset = t.asset => s = t
  <2> SUFFICES ASSUME NEW s \in Score!Latest, NEW t \in Score!Latest, s.asset = t.asset PROVE s = t
    OBVIOUS
  <2>1. s \in scores /\ t \in scores /\ s.day <= t.day /\ t.day <= s.day
    BY DEF Score!Latest
  <2>2. s.day = t.day
    BY <1>1, <2>1
  <2> QED BY <2>1, <2>2 DEF ScoreInv
<1>3. \A since \in 1..ScoreDays : \A s \in Score!Latest : s.day >= since => s \in Score!History(since)
  BY DEF Score!Latest, Score!History
<1> QED BY <1>2, <1>3 DEF Score!RunsAreUniform, ScoreInv, IsRowOf

\* More is never scored less by a component whose steps are in order.
LEMMA StepsRise ==
    ASSUME NEW a \in Int, NEW b \in Int, NEW c \in Int, NEW d \in Int, d <= c, c <= b + 1, b <= a, a < Score!Missing,
           NEW x \in Int, NEW y \in Int, x < y, y < Score!Missing
    PROVE  Score!Steps(x, a, b, c, d) <= Score!Steps(y, a, b, c, d)
BY DEF Score!Steps, Score!Missing

LEMMA ThreeComponentsRise ==
    ASSUME NEW x \in Score!Sample, NEW y \in Score!Sample, x < y
    PROVE  /\ Score!RevenueTrend(x) <= Score!RevenueTrend(y) /\ Score!TvlTrend(x) <= Score!TvlTrend(y)
           /\ Score!RelativeStrength(x) <= Score!RelativeStrength(y)
<1>1. x \in Int /\ y \in Int /\ y < 1000
  BY DEF Score!Sample
<1>2. Score!RevenueTrend(x) <= Score!RevenueTrend(y)
  BY <1>1, StepsRise DEF Score!RevenueTrend, Score!Missing
<1>3. Score!TvlTrend(x) <= Score!TvlTrend(y)
  BY <1>1, StepsRise DEF Score!TvlTrend, Score!Missing
<1>4. Score!RelativeStrength(x) <= Score!RelativeStrength(y)
  BY <1>1, StepsRise DEF Score!RelativeStrength, Score!Missing
<1> QED BY <1>2, <1>3, <1>4

LEMMA RubricRises == Score!RubricIsMonotone
<1>1. \A b, c, s, t \in 0..4 : \A recent \in BOOLEAN :
         b <= c /\ t <= s => Score!InsiderFlow(b, s, recent) <= Score!InsiderFlow(c, t, recent)
  BY DEF Score!InsiderFlow
<1>2. \A w, v, m, n \in 0..4 :
         /\ w <= v => Score!VolumeMomentum(w, m) <= Score!VolumeMomentum(v, m)
         /\ m <= n /\ m # 0 => Score!VolumeMomentum(w, n) <= Score!VolumeMomentum(w, m)
  BY DEF Score!VolumeMomentum, Score!Missing
<1>3. Score!RevenueTrend(Score!Missing) = 0 /\ Score!TvlTrend(Score!Missing) = 0 /\ Score!RelativeStrength(Score!Missing) = 0
  BY DEF Score!RevenueTrend, Score!TvlTrend, Score!RelativeStrength, Score!Steps, Score!Missing
<1>4. Score!Equity(Score!InsiderFlow(4, 0, TRUE), Score!RevenueTrend(31), Score!FilingsVelocity(1), 1) <= 8
  BY DEF Score!Equity, Score!InsiderFlow, Score!RevenueTrend, Score!FilingsVelocity, Score!Steps, Score!Missing
<1>5. Score!Crypto(Score!RelativeStrength(-40), Score!TvlTrend(-40), Score!VolumeMomentum(0, 1), -1) >= -8
  BY DEF Score!Crypto, Score!RelativeStrength, Score!TvlTrend, Score!VolumeMomentum, Score!Steps, Score!Missing
<1> QED BY ThreeComponentsRise, <1>1, <1>2, <1>3, <1>4, <1>5 DEF Score!RubricIsMonotone

\* One series moves the sum by two at most.
LEMMA SeriesDoNotDecide == Score!OneSeriesDoesNotDecide
<1> SUFFICES ASSUME NEW turns \in Score!Turns, NEW s \in DOMAIN turns, NEW v \in -1..1
             PROVE  Score!MacroRegime(turns) * Score!MacroRegime([turns EXCEPT ![s] = v]) # -1
  BY DEF Score!OneSeriesDoesNotDecide
<1> DEFINE w == [turns EXCEPT ![s] = v]
<1>1. /\ turns.DGS10 \in -1..1 /\ turns.HY \in -1..1 /\ turns.VIX \in -1..1 /\ turns.USD \in -1..1
      /\ s \in {"DGS10", "HY", "VIX", "USD"}
  BY DEF Score!Turns
<1>2. /\ w.DGS10 = (IF s = "DGS10" THEN v ELSE turns.DGS10) /\ w.HY = (IF s = "HY" THEN v ELSE turns.HY)
      /\ w.VIX = (IF s = "VIX" THEN v ELSE turns.VIX) /\ w.USD = (IF s = "USD" THEN v ELSE turns.USD)
  BY DEF Score!Turns
<1> HIDE DEF w
<1>3. PICK a, b : a = Score!Total(turns) /\ b = Score!Total(w)
  OBVIOUS
<1>a. a \in Int /\ b \in Int /\ a - b <= 2 /\ b - a <= 2
  <2>1. PICK d, h, x, u : d = turns.DGS10 /\ h = turns.HY /\ x = turns.VIX /\ u = turns.USD
    OBVIOUS
  <2>2. d \in -1..1 /\ h \in -1..1 /\ x \in -1..1 /\ u \in -1..1 /\ a = d + h + x + u
    BY <1>1, <1>3, <2>1 DEF Score!Total
  <2>3. \/ b = v + h + x + u \/ b = d + v + x + u \/ b = d + h + v + u \/ b = d + h + x + v
    <3>1. b = w.DGS10 + w.HY + w.VIX + w.USD
      BY <1>3 DEF Score!Total
    <3> QED BY <1>1, <1>2, <2>1, <3>1
  <2> QED BY <2>2, <2>3
<1>4. Score!MacroRegime(turns) = (IF a >= 2 THEN 1 ELSE IF a <= -2 THEN -1 ELSE 0)
  BY <1>3 DEF Score!MacroRegime
<1>5. Score!MacroRegime(w) = (IF b >= 2 THEN 1 ELSE IF b <= -2 THEN -1 ELSE 0)
  BY <1>3 DEF Score!MacroRegime
<1>6. Score!MacroRegime(turns) * Score!MacroRegime(w) # -1
  <2>1. CASE a >= 2
    BY <1>a, <1>4, <1>5, <2>1
  <2>2. CASE a <= -2
    BY <1>a, <1>4, <1>5, <2>2
  <2>3. CASE a > -2 /\ a < 2
    BY <1>a, <1>4, <1>5, <2>3
  <2> QED BY <1>a, <2>1, <2>2, <2>3
<1> QED BY <1>6 DEF w

LEMMA MacroInOrder ==
    ASSUME NEW of \in SUBSET (1..RowDays), NEW e \in 1..(RowDays + 1),
           Score!MacroPair(of, e).then # Score!None
    PROVE  LET pair == Score!MacroPair(of, e)
           IN  /\ e - MacroReach <= pair.then /\ pair.then <= pair.now
               /\ pair.then = pair.now => pair.now <= e - Month
               /\ e - Month \in of => pair.then = e - Month
<1> DEFINE loaded == {r \in of : r >= e - MacroReach}
           before == {r \in loaded : r <= e - Month}
<1>1. PICK p, q : /\ p = Score!Newest(loaded)
                  /\ q = IF Score!Cardinality(loaded) < 2 THEN Score!None ELSE IF before # {} THEN Score!Max(before) ELSE Score!Min(loaded)
                  /\ Score!MacroPair(of, e).now = p /\ Score!MacroPair(of, e).then = q
  BY DEF Score!MacroPair
<1>2. RowDays \in Nat /\ e \in Int /\ MacroReach \in Nat /\ Month \in Nat /\ Month <= MacroReach
  BY ScoreBounds
<1>3. loaded \in SUBSET (1..RowDays) /\ before \in SUBSET (1..RowDays)
  OBVIOUS
<1>4. ~(Score!Cardinality(loaded) < 2)
  BY <1>1
<1>5. ASSUME NEW m, loaded = {m} PROVE FALSE
  <2>1. Score!Cardinality(loaded) = 1
    BY <1>5, FS_Singleton, ScoreSize
  <2> HIDE DEF loaded
  <2> QED BY <1>4, <2>1
<1>6. loaded # {}
  <2>1. loaded = {} => Score!Cardinality(loaded) = 0
    BY FS_EmptySet, ScoreSize
  <2> HIDE DEF loaded
  <2> QED BY <1>4, <2>1
<1>7. /\ \A r : r \in loaded <=> r \in of /\ r >= e - MacroReach
      /\ \A r : r \in before <=> r \in loaded /\ r <= e - Month
      /\ \A r \in loaded : r \in Int
  <2>1. \A r : r \in loaded <=> r \in of /\ r >= e - MacroReach
    OBVIOUS
  <2>2. \A r : r \in before <=> r \in loaded /\ r <= e - Month
    OBVIOUS
  <2>3. \A r \in loaded : r \in Int
    BY <1>2, <1>3
  <2> HIDE DEF loaded, before
  <2> QED BY <2>1, <2>2, <2>3
<1>8. q = IF before # {} THEN Score!Max(before) ELSE Score!Min(loaded)
  BY <1>1, <1>4
<1> HIDE DEF loaded, before
<1>9. p \in {0} \cup loaded /\ \A r \in loaded : r <= p
  BY <1>1, <1>2, <1>3, ScoreNewest
<1>10. CASE before # {}
  <2>1. q \in before /\ \A r \in before : r <= q
    BY <1>2, <1>3, <1>8, <1>10, ScoreEnds
  <2>2. e - Month \in of => e - Month \in before
    BY <1>2, <1>7
  <2>3. e - Month \in of => q = e - Month
    BY <1>2, <1>7, <2>1, <2>2
  <2> QED BY <1>1, <1>2, <1>7, <1>9, <2>1, <2>3
<1>11. CASE before = {}
  <2>1. q \in loaded /\ \A r \in loaded : q <= r
    BY <1>2, <1>3, <1>6, <1>8, <1>11, ScoreEnds
  <2>2. p # q
    <3> SUFFICES ASSUME p = q PROVE FALSE
      OBVIOUS
    <3>1. \A r \in loaded : r = q
      BY <1>7, <1>9, <2>1
    <3> QED BY <1>5, <2>1, <3>1
  <2>3. ~(e - Month \in of)
    BY <1>2, <1>7, <1>11
  <2> QED BY <1>1, <1>2, <1>7, <1>9, <2>1, <2>2, <2>3
<1> QED BY <1>10, <1>11

LEMMA NewestAreWhole ==
    ASSUME NEW of \in SUBSET (1..RowDays), NEW e \in 1..(RowDays + 1),
           \A r \in of : r <= e, (e - TvlReach)..e \subseteq of,
           NEW recent, recent = {r \in of : r >= e - TvlReach}
    PROVE  /\ recent = (e - TvlReach)..e
           /\ {r \in recent : Score!Cardinality({q \in recent : q > r}) < TvlRows} = (e - TvlRows + 1)..e
<1>1. /\ e \in Nat /\ TvlReach \in Nat /\ TvlRows \in Nat /\ TvlRows >= 1 /\ TvlRows <= TvlReach + 1
      /\ RowDays \in Nat /\ e \in of
  BY ScoreBounds
<1>2. recent = (e - TvlReach)..e
  <2>1. \A r \in of : r \in Int /\ r <= e
    BY <1>1
  <2>2. \A r \in (e - TvlReach)..e : r \in of /\ r >= e - TvlReach
    BY <1>1
  <2>3. \A r \in of : r >= e - TvlReach => r \in (e - TvlReach)..e
    BY <1>1, <2>1
  <2> QED BY <2>2, <2>3
<1>5. ASSUME NEW r \in recent PROVE Score!Cardinality({q \in recent : q > r}) = e - r
  <2>1. r \in Int /\ r <= e
    BY <1>1, <1>2, <1>5
  <2>2. {q \in recent : q > r} = (r + 1)..e
    BY <1>1, <1>2, <1>5, <2>1
  <2>3. Score!Cardinality((r + 1)..e) = IF r + 1 > e THEN 0 ELSE e - (r + 1) + 1
    BY <1>1, <2>1, FS_Interval, ScoreSize
  <2>4. PICK c : c = Score!Cardinality({q \in recent : q > r})
    OBVIOUS
  <2>5. c = IF r + 1 > e THEN 0 ELSE e - (r + 1) + 1
    BY <2>2, <2>3, <2>4
  <2>6. c = e - r
    BY <1>1, <2>1, <2>5
  <2> QED BY <2>4, <2>6
<1> DEFINE loaded == {r \in recent : Score!Cardinality({q \in recent : q > r}) < TvlRows}
<1>6. \A r : r \in loaded <=> r \in recent /\ e - r < TvlRows
  BY <1>5
<1> HIDE DEF loaded
<1>7. \A r : r \in loaded <=> r \in (e - TvlRows + 1)..e
  BY <1>1, <1>2, <1>6
<1>8. loaded = (e - TvlRows + 1)..e
  BY <1>7
<1> QED BY <1>2, <1>8 DEF loaded

\* What ends are of days that are in order, and of a whole stretch its own.
LEMMA EndsInOrder ==
    ASSUME NEW k \in Nat, NEW L \in SUBSET (1..k), NEW Z, NEW pair \in Score!Ends(L, Z)
    PROVE  pair[1] \in L /\ pair[2] \in L /\ pair[1] <= pair[2]
<1>1. L # {} /\ pair = <<Score!Min(L), Score!Max(L)>>
  BY DEF Score!Ends
<1>2. Score!Min(L) \in L /\ Score!Max(L) \in L /\ Score!Min(L) <= Score!Max(L)
  BY <1>1, ScoreEnds
<1> QED BY <1>1, <1>2

LEMMA EndsOfStretch ==
    ASSUME NEW b \in Nat \ {0}, NEW e \in Nat, b <= e
    PROVE  \A Z : Score!Ends(b..e, Z) = IF b \in Z \/ e \in Z THEN {} ELSE {<<b, e>>}
<1>1. b \in Int /\ e \in Int /\ b <= e /\ b..e \in SUBSET (1..e) /\ b \in b..e /\ e \in b..e
  OBVIOUS
<1>2. /\ Score!Max(b..e) \in b..e /\ \A r \in b..e : r <= Score!Max(b..e)
      /\ Score!Min(b..e) \in b..e /\ \A r \in b..e : Score!Min(b..e) <= r
  BY <1>1, ScoreEnds
<1>3. Score!Max(b..e) = e /\ Score!Min(b..e) = b
  BY <1>1, <1>2
<1> QED BY <1>1, <1>3 DEF Score!Ends

\* What a change of the TVL is of, from each source: the newest rows of the chain, and
\* of the protocols all in reach.
LEMMA TvlInOrder ==
    ASSUME NEW of \in SUBSET (1..RowDays), NEW e \in 1..(RowDays + 1), \A r \in of : r <= e,
           NEW chain, NEW protocols, chain.rows \subseteq of, protocols.rows \subseteq of,
           NEW ends \in Score!TvlPairs(chain, protocols, e)
    PROVE  e - TvlReach <= ends[1] /\ ends[1] <= ends[2] /\ ends[2] <= e
<1> DEFINE recent(Q) == {r \in Q : r >= e - TvlReach}
           top == {r \in recent(chain.rows) : Score!Cardinality({q \in recent(chain.rows) : q > r}) < TvlRows}
<1>1. ends \in Score!Ends(top, chain.zero) \/ ends \in Score!Ends(recent(protocols.rows), protocols.zero)
  BY DEF Score!TvlPairs
<1>2. /\ top \in SUBSET (1..RowDays) /\ recent(protocols.rows) \in SUBSET (1..RowDays) /\ RowDays \in Nat
      /\ \A r \in top : e - TvlReach <= r /\ r <= e
      /\ \A r \in recent(protocols.rows) : e - TvlReach <= r /\ r <= e
  BY ScoreBounds
<1> HIDE DEF top, recent
<1>3. CASE ends \in Score!Ends(top, chain.zero)
  BY <1>2, <1>3, EndsInOrder
<1>4. CASE ends \in Score!Ends(recent(protocols.rows), protocols.zero)
  BY <1>2, <1>4, EndsInOrder
<1> QED BY <1>1, <1>3, <1>4

LEMMA TvlEndsInOrder ==
    ASSUME NEW of \in SUBSET (1..RowDays), NEW e \in 1..(RowDays + 1), \A r \in of : r <= e
    PROVE  Score!TvlIsInOrder(of, e)
<1> DEFINE whole == [rows |-> of, zero |-> {}]
           tvls == {[rows |-> r, zero |-> z] : r \in {{}, of}, z \in {{}, {e}}}
<1>1. ASSUME NEW chain \in tvls, NEW protocols \in tvls
      PROVE  /\ \A ends \in Score!TvlPairs(chain, protocols, e) :
                   e - TvlReach <= ends[1] /\ ends[1] <= ends[2] /\ ends[2] <= e
             /\ (e - TvlReach)..e \subseteq of =>
                   Score!TvlPairs(chain, protocols, e) =
                       CASE chain = whole -> {<<e - TvlRows + 1, e>>}
                         [] chain # whole /\ protocols = whole -> {<<e - TvlReach, e>>}
                         [] OTHER -> {}
  <2>1. PICK S \in {{}, of}, Z \in {{}, {e}} : chain = [rows |-> S, zero |-> Z]
    OBVIOUS
  <2>2. PICK P \in {{}, of}, Y \in {{}, {e}} : protocols = [rows |-> P, zero |-> Y]
    OBVIOUS
  <2>3. chain.rows \subseteq of /\ protocols.rows \subseteq of
    BY <2>1, <2>2
  <2>4. \A ends \in Score!TvlPairs(chain, protocols, e) :
            e - TvlReach <= ends[1] /\ ends[1] <= ends[2] /\ ends[2] <= e
    BY <2>3, TvlInOrder
  <2>5. ASSUME (e - TvlReach)..e \subseteq of
        PROVE  Score!TvlPairs([rows |-> S, zero |-> Z], [rows |-> P, zero |-> Y], e) =
                   CASE S = of /\ Z = {} -> {<<e - TvlRows + 1, e>>}
                     [] ~(S = of /\ Z = {}) /\ P = of /\ Y = {} -> {<<e - TvlReach, e>>}
                     [] OTHER -> {}
    <3> DEFINE recent(Q) == {r \in Q : r >= e - TvlReach}
               top(Q) == {r \in recent(Q) : Score!Cardinality({q \in recent(Q) : q > r}) < TvlRows}
    <3> HIDE DEF tvls, whole
    <3>1. /\ e \in Nat /\ TvlReach \in Nat /\ TvlRows \in Nat /\ TvlRows >= 1 /\ TvlRows <= TvlReach + 1
          /\ RowDays \in Nat /\ e \in of /\ e - TvlReach \in of
      BY <2>5, ScoreBounds
    <3>2. recent(of) = (e - TvlReach)..e /\ top(of) = (e - TvlRows + 1)..e
      BY <2>5, NewestAreWhole
    <3>3. recent({}) = {} /\ top({}) = {}
      OBVIOUS
    <3>4. Score!TvlPairs([rows |-> S, zero |-> Z], [rows |-> P, zero |-> Y], e) =
              IF Score!Ends(top(S), Z) # {} THEN Score!Ends(top(S), Z) ELSE Score!Ends(recent(P), Y)
      BY DEF Score!TvlPairs
    <3> HIDE DEF recent, top
    <3>5. /\ e - TvlReach \in 1..RowDays /\ e - TvlRows + 1 \in 1..RowDays /\ e \in 1..RowDays
          /\ e \in (e - TvlReach)..RowDays /\ e \in (e - TvlRows + 1)..RowDays
      BY <3>1
    <3>6. \A X : Score!Ends({}, X) = {}
      BY DEF Score!Ends
    <3>7. Score!Ends(top(of), {}) = {<<e - TvlRows + 1, e>>} /\ Score!Ends(top(of), {e}) = {}
      <4>1. \A X : Score!Ends((e - TvlRows + 1)..e, X) =
                  IF e - TvlRows + 1 \in X \/ e \in X THEN {} ELSE {<<e - TvlRows + 1, e>>}
        <5>1. PICK b : b = e - TvlRows + 1
          OBVIOUS
        <5>2. b \in Nat \ {0} /\ e \in Nat /\ b <= e
          BY <3>1, <3>5, <5>1
        <5>3. \A X : Score!Ends(b..e, X) = IF b \in X \/ e \in X THEN {} ELSE {<<b, e>>}
          BY <5>2, EndsOfStretch
        <5> QED BY <5>1, <5>3
      <4>2. e \in {e} /\ \A x : x \notin {}
        OBVIOUS
      <4> QED BY <3>2, <4>1, <4>2
    <3>8. Score!Ends(recent(of), {}) = {<<e - TvlReach, e>>} /\ Score!Ends(recent(of), {e}) = {}
      <4>1. \A X : Score!Ends((e - TvlReach)..e, X) =
                  IF e - TvlReach \in X \/ e \in X THEN {} ELSE {<<e - TvlReach, e>>}
        <5>1. PICK b : b = e - TvlReach
          OBVIOUS
        <5>2. b \in Nat \ {0} /\ e \in Nat /\ b <= e
          BY <3>1, <3>5, <5>1
        <5>3. \A X : Score!Ends(b..e, X) = IF b \in X \/ e \in X THEN {} ELSE {<<b, e>>}
          BY <5>2, EndsOfStretch
        <5> QED BY <5>1, <5>3
      <4>2. e \in {e} /\ \A x : x \notin {}
        OBVIOUS
      <4> QED BY <3>2, <4>1, <4>2
    <3>9. Score!Ends(top(S), Z) = IF S = of /\ Z = {} THEN {<<e - TvlRows + 1, e>>} ELSE {}
      BY <3>1, <3>3, <3>6, <3>7
    <3>10. Score!Ends(recent(P), Y) = IF P = of /\ Y = {} THEN {<<e - TvlReach, e>>} ELSE {}
      BY <3>1, <3>3, <3>6, <3>8
    <3>11. {<<e - TvlRows + 1, e>>} # {}
      OBVIOUS
    <3>12. CASE S = of /\ Z = {}
      BY <3>4, <3>9, <3>11, <3>12
    <3>13. CASE ~(S = of /\ Z = {}) /\ P = of /\ Y = {}
      BY <3>4, <3>9, <3>10, <3>13
    <3>14. CASE ~(S = of /\ Z = {}) /\ ~(P = of /\ Y = {})
      BY <3>4, <3>9, <3>10, <3>14
    <3> QED BY <3>12, <3>13, <3>14
  <2>6. (chain = whole <=> S = of /\ Z = {}) /\ (protocols = whole <=> P = of /\ Y = {})
    BY <2>1, <2>2
  <2>7. ASSUME (e - TvlReach)..e \subseteq of
        PROVE  Score!TvlPairs(chain, protocols, e) =
                   CASE chain = whole -> {<<e - TvlRows + 1, e>>}
                     [] chain # whole /\ protocols = whole -> {<<e - TvlReach, e>>}
                     [] OTHER -> {}
    <3> HIDE DEF whole
    <3> QED BY <2>1, <2>2, <2>5, <2>6, <2>7
  <2> HIDE DEF whole
  <2> QED BY <2>4, <2>7
<1> QED BY <1>1 DEF Score!TvlIsInOrder

LEMMA PairsInOrder == Score!PairsAreInOrder
<1> SUFFICES ASSUME NEW R \in SUBSET (1..RowDays), NEW e \in 1..(RowDays + 1)
             PROVE LET of == {r \in R : r <= e}
                   IN  /\ Score!MacroIsInOrder(of, e) /\ Score!TvlIsInOrder(of, e)
                       /\ Score!VolumeRows(of, e, 1) \subseteq Score!VolumeRows(of, e, 3)
  BY DEF Score!PairsAreInOrder
<1> DEFINE of == {r \in R : r <= e}
<1>1. of \in SUBSET (1..RowDays) /\ \A r \in of : r <= e
  OBVIOUS
<1> HIDE DEF of
<1>2. Score!VolumeRows(of, e, 1) \subseteq Score!VolumeRows(of, e, 3)
  <2> SUFFICES ASSUME NEW r \in Score!VolumeRows(of, e, 1) PROVE r \in Score!VolumeRows(of, e, 3)
    OBVIOUS
  <2> DEFINE later == {q \in of : q > r}
  <2>1. r \in of /\ r >= e - VolumeReach /\ Score!Cardinality(later) < 1
    BY DEF Score!VolumeRows
  <2>2. IsFiniteSet(1..RowDays) /\ later \in SUBSET (1..RowDays)
    <3>1. RowDays \in Int /\ 1 \in Int
      BY ScoreBounds
    <3>2. IsFiniteSet(1..RowDays)
      BY <3>1, FS_Interval, ScoreSize
    <3> QED BY <1>1, <3>2
  <2>3. Score!Cardinality(later) \in Nat
    <3>1. IsFiniteSet(later)
      BY <2>2, FS_Subset, ScoreSize
    <3> HIDE DEF later
    <3> QED BY <3>1, FS_CardinalityType, ScoreSize
  <2>4. Score!Cardinality(later) < 3
    BY <2>1, <2>3
  <2> QED BY <2>1, <2>4 DEF Score!VolumeRows
<1>3. Score!TvlIsInOrder(of, e)
  BY <1>1, TvlEndsInOrder
<1>4. Score!MacroIsInOrder(of, e)
  BY <1>1, MacroInOrder DEF Score!MacroIsInOrder
<1> QED BY <1>2, <1>3, <1>4 DEF of

LEMMA RevenueYearly == Score!RevenueIsYearly
<1> SUFFICES ASSUME NEW R \in SUBSET [end : 1..Quarters, filing : 1..2]
             PROVE LET rowsOf(e) == {r \in R : r.end = e}
                       top == Score!Newest({r.end : r \in R})
                   IN  /\ \A pair \in Score!RevenuePairs(R) : pair[1].end = pair[2].end - 4
                       /\ (\A e \in 1..Quarters : Score!Cardinality(rowsOf(e)) <= 1) =>
                          (Score!RevenuePairs(R) # {}) = (top > 4 /\ rowsOf(top - 4) # {})
  BY DEF Score!RevenueIsYearly
<1>0. Quarters \in Nat /\ RevenueRows \in Nat /\ RevenueRows > 4
  BY ScoreBounds
<1>1. \A r \in R : r.end \in 1..Quarters /\ r.end \in Int
  BY <1>0
<1> DEFINE ends == {r.end : r \in R}
           rowsOf(e) == {r \in R : r.end = e}
<1>2. PICK n : n = Score!Newest(ends)
  OBVIOUS
<1>3. ends \in SUBSET (1..Quarters)
  BY <1>1
<1>4. n \in {0} \cup ends /\ \A r \in R : r.end <= n
  <2>1. \A e \in ends : e <= n
    <3> HIDE DEF ends
    <3> QED BY <1>0, <1>2, <1>3, ScoreNewest
  <2>2. n \in {0} \cup ends
    <3> HIDE DEF ends
    <3> QED BY <1>0, <1>2, <1>3, ScoreNewest
  <2> QED BY <2>1, <2>2
<1>5. n \in Nat
  BY <1>0, <1>3, <1>4
<1> DEFINE above == {r \in R : r.end > n - 4}
<1>6. Score!RevenuePairs(R) = IF Score!Cardinality(above) >= RevenueRows THEN {} ELSE rowsOf(n - 4) \X rowsOf(n)
  BY <1>2 DEF Score!RevenuePairs
<1>7. \A pair \in Score!RevenuePairs(R) : pair[1].end = pair[2].end - 4
  <2>1. \A pair \in rowsOf(n - 4) \X rowsOf(n) : pair[1].end = n - 4 /\ pair[2].end = n
    OBVIOUS
  <2> HIDE DEF above, rowsOf
  <2> QED BY <1>5, <1>6, <2>1
<1>8. ASSUME \A e \in 1..Quarters : Score!Cardinality(rowsOf(e)) <= 1
      PROVE  (Score!RevenuePairs(R) # {}) = (n > 4 /\ rowsOf(n - 4) # {})
  <2>1. IsFiniteSet(R)
    <3> DEFINE f == [r \in R |-> <<r.end, r.filing>>]
    <3>1. f \in Injection(R, (1..Quarters) \X (1..2))
      BY <1>0 DEF Injection, IsInjective
    <3>2. IsFiniteSet((1..Quarters) \X (1..2))
      <4>1. IsFiniteSet(1..Quarters) /\ IsFiniteSet(1..2)
        <5>1. 1 \in Int /\ 2 \in Int /\ Quarters \in Int
          BY <1>0
        <5> QED BY <5>1, FS_Interval, ScoreSize
      <4> QED BY <4>1, FS_Product, ScoreSize
    <3> HIDE DEF f
    <3> QED BY <3>1, <3>2, FS_Injection, ScoreSize
  <2>2. ASSUME NEW r \in R, NEW s \in R, r.end = s.end PROVE r = s
    <3> SUFFICES ASSUME r # s PROVE FALSE
      OBVIOUS
    <3>1. {r, s} \subseteq rowsOf(r.end) /\ r.end \in 1..Quarters
      BY <1>1, <2>2
    <3>2. Score!Cardinality({r, s}) = 2
      <4>1. Score!Cardinality({r}) = 1 /\ IsFiniteSet({r})
        BY FS_Singleton, ScoreSize
      <4>2. {r, s} = {r} \cup {s} /\ s \notin {r}
        OBVIOUS
      <4>3. Score!Cardinality({r} \cup {s}) = Score!Cardinality({r}) + 1
        BY <4>1, <4>2, FS_AddElement, ScoreSize
      <4> QED BY <4>1, <4>2, <4>3
    <3>3. IsFiniteSet(rowsOf(r.end))
      BY <2>1, FS_Subset, ScoreSize
    <3>4. Score!Cardinality({r, s}) <= Score!Cardinality(rowsOf(r.end)) /\ Score!Cardinality(rowsOf(r.end)) \in Nat
      <4> HIDE DEF rowsOf
      <4> QED BY <3>1, <3>3, FS_Subset, FS_CardinalityType, ScoreSize
    <3> QED BY <1>8, <3>1, <3>2, <3>4
  <2>3. Score!Cardinality(above) <= 4 /\ Score!Cardinality(above) \in Nat
    <3> DEFINE f == [r \in above |-> r.end]
    <3>1. f \in Injection(above, (n - 3)..n)
      BY <1>1, <1>4, <1>5, <2>2 DEF Injection, IsInjective
    <3>2. IsFiniteSet((n - 3)..n) /\ Score!Cardinality((n - 3)..n) = 4
      BY <1>5, FS_Interval, ScoreSize
    <3>3. IsFiniteSet(above) /\ Score!Cardinality(above) <= 4
      <4> HIDE DEF f, above
      <4> QED BY <3>1, <3>2, FS_Injection, ScoreSize
    <3> HIDE DEF above
    <3> QED BY <3>3, FS_CardinalityType, ScoreSize
  <2>4. Score!RevenuePairs(R) = rowsOf(n - 4) \X rowsOf(n)
    <3> HIDE DEF above, rowsOf
    <3> QED BY <1>0, <1>6, <2>3
  <2>5. rowsOf(n - 4) # {} => n > 4 /\ rowsOf(n) # {}
    <3> SUFFICES ASSUME NEW r \in R, r.end = n - 4 PROVE n > 4 /\ \E s \in R : s.end = n
      OBVIOUS
    <3>1. n > 4
      BY <1>1, <1>5
    <3> QED BY <1>4, <3>1
  <2>6. Score!RevenuePairs(R) # {} <=> rowsOf(n - 4) # {} /\ rowsOf(n) # {}
    <3>1. \A S, T : S \X T # {} <=> S # {} /\ T # {}
      <4> SUFFICES ASSUME NEW S, NEW T, S # {}, T # {} PROVE S \X T # {}
        OBVIOUS
      <4>1. PICK x \in S, y \in T : TRUE
        OBVIOUS
      <4>2. <<x, y>> \in S \X T
        OBVIOUS
      <4> QED BY <4>2
    <3> HIDE DEF rowsOf
    <3> QED BY <2>4, <3>1
  <2> HIDE DEF rowsOf
  <2> QED BY <2>5, <2>6
<1> QED BY <1>2, <1>7, <1>8

\* As days with and without rows arrive, after whatever gaps and holidays, a label, a
\* feature or a return that has been computed stays what it is, no training day sees
\* the test days, and a batch loads what each of its members would have.  And of
\* watchlist_scoring: although a run reads its macro series one by one while others
\* are written, all its rows share one macro component and one day; its rubric is
\* monotone; and no change is of a newer row with an older, a chain's TVL over its
\* newest rows or its protocols' over the whole reach.
THEOREM StudiesAreFinal == MCSpec => []StudiesAreSound
<1> DEFINE Inv == StudyInv /\ (subject = "score" => ScoreInv)
<1>1. MCInit => Inv
  BY StudyInit, ScoreInit DEF MCInit
<1>2. Inv /\ [MCNext]_MCVars => Inv'
  <2> SUFFICES ASSUME Inv, [MCNext]_MCVars PROVE Inv'
    OBVIOUS
  <2>1. StudyInv'
    <3>1. CASE UNCHANGED studyVars
      BY <3>1 DEF studyVars, StudyInv
    <3> QED BY <3>1, StudyStepInv, OneSubject
  <2>2. ASSUME subject = "score" PROVE ScoreInv'
    <3>1. CASE UNCHANGED scoreVars
      BY <2>2, <3>1, ScoreStays DEF scoreVars, ScoreInv
    <3> QED BY <2>2, <3>1, ScoreNextInv, OneSubject
  <2> QED BY <2>1, <2>2, OneSubject
<1>3. Inv => StudiesAreSound
  BY LabelsStay, FeaturesStay, TrainingIsBlind, BatchServes, ScoresUniform,
     RubricRises, SeriesDoNotDecide, PairsInOrder, RevenueYearly
     DEF StudiesAreSound, Study!StatisticsAreFinal, Score!ScoresAreSound
<1> QED BY <1>1, <1>2, <1>3, PTL DEF MCSpec
=============================================================================
