------------------------------ MODULE SlotWindow ------------------------------
(***************************************************************************)
(* ingest.gdelt: GDELT publishes one file per 15-minute slot; a run asks   *)
(* for the slots of a window that ends at the latest one (or, as a         *)
(* backfill, of whole days), keeps each file as a raw blob, and upserts    *)
(* its matches.                                                            *)
(*                                                                         *)
(* Data.  Slots are numbered from 1.  A slot's file stands for its matched *)
(* articles: rows is the set of slots whose articles gdelt.gkg holds.      *)
(***************************************************************************)
EXTENDS Naturals

CONSTANTS
    Runner,      \* collector processes: the schedule, dispatches, retries
    Hours,       \* length of an incremental window, in slots
    DaySlots,    \* slots of a day
    MaxAdvance,  \* slots GDELT publishes at most after the last complete run's end
    MaxSlot      \* bound: last slot

ASSUME WindowIsNat == Hours \in Nat /\ DaySlots \in Nat \ {0}
ASSUME AdvanceIsNat == MaxAdvance \in Nat /\ MaxSlot \in Nat

Slot == 1..MaxSlot

VARIABLES
    latest,   \* the slot lastupdate.txt names
    skipped,  \* slots GDELT never published
    blobs,    \* slots with a gkg_ blob in meta.raw_blobs
    rows,     \* slots in gdelt.gkg
    reach,    \* the last slot of the latest incremental window walked to its end
    pc,       \* runner -> where its run is
    daily,    \* runner -> incremental
    at, last  \* runner -> the slot it is at, the last of its stamps

lake == <<blobs, rows>>
run  == <<daily, at, last>>
vars == <<latest, skipped, lake, reach, pc, run>>

\* Types, and that only what was fetched was parsed, of what was published.
TypeOK ==
    /\ latest \in 0..MaxSlot /\ reach \in 0..latest
    /\ skipped \subseteq 1..latest
    /\ blobs \subseteq (1..latest) \ skipped
    /\ rows  \subseteq blobs
    /\ pc    \in [Runner -> {"idle", "fetch", "upsert"}]
    /\ daily \in [Runner -> BOOLEAN]
    /\ at    \in [Runner -> Nat]
    /\ last  \in [Runner -> Nat]

Init ==
    /\ latest = 0 /\ skipped = {} /\ blobs = {} /\ rows = {} /\ reach = 0
    /\ pc    = [r \in Runner |-> "idle"]
    /\ daily = [r \in Runner |-> FALSE]
    /\ at    = [r \in Runner |-> 0]
    /\ last  = [r \in Runner |-> 0]

-----------------------------------------------------------------------------
\* GDELT: the next file, or a slot left out and the one after it.
Publish(skip) ==
    LET next == IF skip THEN latest + 2 ELSE latest + 1 IN
    /\ next <= MaxSlot /\ next <= reach + MaxAdvance
    /\ latest'  = next
    /\ skipped' = IF skip THEN skipped \cup {latest + 1} ELSE skipped
    /\ UNCHANGED <<lake, reach, pc, run>>

-----------------------------------------------------------------------------
Begin(r, first, end) ==
    /\ pc'   = [pc   EXCEPT ![r] = "fetch"]
    /\ at'   = [at   EXCEPT ![r] = first]
    /\ last' = [last EXCEPT ![r] = end]

\* file_timestamps_for_window: both ends belong to it.
WindowStart(end) == IF end <= Hours THEN 1 ELSE end - Hours

\* collect: latest_gkg_timestamp, then its window.
Collect(r) ==
    /\ pc[r] = "idle" /\ latest > 0
    /\ Begin(r, WindowStart(latest), latest)
    /\ daily' = [daily EXCEPT ![r] = TRUE]
    /\ UNCHANGED <<latest, skipped, lake, reach>>

\* collect_backfill: whole days up to today at most (the day of the next slot),
\* the hours of today still to come included.
DayOf(s)    == (s - 1) \div DaySlots
DayStart(d) == d * DaySlots + 1
DayEnd(d)   == (d + 1) * DaySlots

Backfill(r, since, until) ==
    /\ pc[r] = "idle"
    /\ since <= until /\ until <= DayOf(latest + 1)
    /\ Begin(r, DayStart(since), DayEnd(until))
    /\ daily' = [daily EXCEPT ![r] = FALSE]
    /\ UNCHANGED <<latest, skipped, lake, reach>>

Published(s) == s <= latest /\ s \notin skipped

\* Fault: a slot that has its blob is not parsed again.
FetchCachedSkips(r) ==
    /\ pc[r] = "fetch" /\ at[r] <= last[r]
    /\ IF Published(at[r]) /\ at[r] \notin blobs
       THEN /\ blobs' = blobs \cup {at[r]}
            /\ pc' = [pc EXCEPT ![r] = "upsert"]
            /\ UNCHANGED at
       ELSE /\ at' = [at EXCEPT ![r] = @ + 1]
            /\ UNCHANGED <<blobs, pc>>
    /\ UNCHANGED <<latest, skipped, rows, reach, daily, last>>

\* _fetch_and_parse: a cached file, or a new one that is stored first, goes on
\* to be upserted; a 404 is a slot without articles.
Fetch(r) ==
    /\ pc[r] = "fetch" /\ at[r] <= last[r]
    /\ IF at[r] \in blobs \/ Published(at[r])
       THEN /\ blobs' = blobs \cup {at[r]}
            /\ pc' = [pc EXCEPT ![r] = "upsert"]
            /\ UNCHANGED at
       ELSE /\ at' = [at EXCEPT ![r] = @ + 1]
            /\ UNCHANGED <<blobs, pc>>
    /\ UNCHANGED <<latest, skipped, rows, reach, daily, last>>

\* _upsert_rows, one commit per file.
Upsert(r) ==
    /\ pc[r] = "upsert"
    /\ rows' = rows \cup {at[r]}
    /\ at'   = [at EXCEPT ![r] = @ + 1]
    /\ pc'   = [pc EXCEPT ![r] = "fetch"]
    /\ UNCHANGED <<latest, skipped, blobs, reach, daily, last>>

Exit(r) ==
    /\ pc'    = [pc    EXCEPT ![r] = "idle"]
    /\ daily' = [daily EXCEPT ![r] = FALSE]
    /\ at'    = [at    EXCEPT ![r] = 0]
    /\ last'  = [last  EXCEPT ![r] = 0]
    /\ UNCHANGED <<latest, skipped, lake>>

\* The loop is over: the run is a success.
Finish(r) ==
    /\ pc[r] = "fetch" /\ at[r] > last[r]
    /\ reach' = IF daily[r] /\ last[r] > reach THEN last[r] ELSE reach
    /\ Exit(r)

\* A fetch or a database call raises, or the job is ended: what was stored stays.
Fail(r) == pc[r] # "idle" /\ Exit(r) /\ UNCHANGED reach

Step(r) ==
    \/ Collect(r)
    \/ \E since, until \in 0..DayOf(MaxSlot) : Backfill(r, since, until)
    \/ Fetch(r)
    \/ Upsert(r)
    \/ Finish(r)
    \/ Fail(r)

Next ==
    \/ \E skip \in BOOLEAN : Publish(skip)
    \/ \E r \in Runner : Step(r)

Spec == Init /\ [][Next]_vars

-----------------------------------------------------------------------------
\* Up to the end of the last complete incremental window no published slot is
\* missing, whatever runs overlapped, backfilled, or died with a file stored and
\* not parsed. gdelt.py:296 counts on it while the latest file advances between
\* complete runs by no more than the window and one slot; gdelt-daily.yml:11-12
\* says it of every drift: "The 24h window the collect grabs is anchored on
\* GDELT's lastupdate.txt, so cron drift doesn't double-fetch or miss slots".
NoSlotMissed == \A s \in 1..reach : s \notin skipped => s \in rows
=============================================================================
