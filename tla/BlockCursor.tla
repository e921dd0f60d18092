------------------------------- MODULE BlockCursor -------------------------------
(***************************************************************************)
(* ingest.onchain_staking: collector runs walk a chain's logs, pool by     *)
(* pool, in chunks of blocks, and resume where the stored events end.      *)
(*                                                                         *)
(* Data.  A block stands for the principal events a pool has in it: they   *)
(* are fetched in one chunk and inserted in one transaction.  The pages of *)
(* a chunk are one read, that of the last page: the log index only grows   *)
(* at its end.  Chain reorganisations are not modelled.                    *)
(***************************************************************************)
EXTENDS Naturals, FiniteSetsExt

CONSTANTS
    Runner,      \* collector processes: scheduled and dispatched by hand
    Pools,       \* number of pools, walked in order
    Deployment,  \* deployment block of each pool
    ChunkSize,   \* BLOCK_CHUNK_SIZE
    Lag,         \* blocks the provider's log index may be behind its head
    MaxBlock     \* bound: the last block mined

Pool  == 1..Pools
Block == 1..MaxBlock

ASSUME PoolsIsNat        == Pools \in Nat
ASSUME DeploymentIsBlock == Deployment \in [Pool -> Nat \ {0}]
ASSUME ChunkIsPositive   == ChunkSize \in Nat \ {0}
ASSUME LagIsAtMostOne    == Lag \in 0..1
ASSUME MaxBlockIsNat     == MaxBlock \in Nat

VARIABLES
    tip,      \* the chain's head
    indexed,  \* the last block whose logs the provider returns
    logs,     \* pool -> blocks with principal events
    stored,   \* onchain.staking_events: pool -> blocks whose events it holds
    pc,       \* runner -> where its run is
    backfill, \* runner -> --backfill
    pool,     \* runner -> the pool it is at
    head,     \* runner -> head_block
    cursor,   \* runner -> chunk_from
    rows      \* runner -> the parsed rows of the chunk

chain == <<tip, indexed, logs>>
vars  == <<chain, stored, pc, backfill, pool, head, cursor, rows>>

Stage == {"idle", "head", "resume", "fetch", "insert", "done"}

\* Types, and that rows only wait to be inserted inside their own chunk.
TypeOK ==
    /\ tip      \in 0..MaxBlock
    /\ indexed  \in 0..tip
    /\ logs     \in [Pool -> SUBSET (1..tip)]
    /\ stored   \in [Pool -> SUBSET (1..tip)]
    /\ pc       \in [Runner -> Stage]
    /\ backfill \in [Runner -> BOOLEAN]
    /\ pool     \in [Runner -> 1..(Pools + 1)]
    /\ head     \in [Runner -> 0..tip]
    /\ cursor   \in [Runner -> Nat]
    /\ rows     \in [Runner -> SUBSET (1..tip)]
    /\ \A r \in Runner : pc[r] \in {"resume", "fetch", "insert"} => pool[r] \in Pool
    /\ \A r \in Runner : pc[r] \in {"fetch", "insert"} => cursor[r] <= head[r]
    /\ \A r \in Runner : pc[r] # "insert" => rows[r] = {}
    /\ \A r \in Runner : pc[r] = "insert" => \A b \in rows[r] : cursor[r] <= b /\ b <= head[r]

Init ==
    /\ tip = 0 /\ indexed = 0
    /\ logs     = [p \in Pool |-> {}]
    /\ stored   = [p \in Pool |-> {}]
    /\ pc       = [r \in Runner |-> "idle"]
    /\ backfill = [r \in Runner |-> FALSE]
    /\ pool     = [r \in Runner |-> 1]
    /\ head     = [r \in Runner |-> 0]
    /\ cursor   = [r \in Runner |-> 0]
    /\ rows     = [r \in Runner |-> {}]

-----------------------------------------------------------------------------
\* The chain and the provider's log index.

Mine(active) ==
    /\ tip < MaxBlock
    /\ tip + 1 <= indexed + Lag
    /\ tip' = tip + 1
    /\ logs' = [p \in Pool |-> IF p \in active /\ tip + 1 >= Deployment[p]
                                THEN logs[p] \cup {tip + 1} ELSE logs[p]]
    /\ UNCHANGED <<indexed, stored, pc, backfill, pool, head, cursor, rows>>

Index ==
    /\ indexed < tip
    /\ indexed' = indexed + 1
    /\ UNCHANGED <<tip, logs, stored, pc, backfill, pool, head, cursor, rows>>

-----------------------------------------------------------------------------
\* A collector run.

Start(r, mode) ==
    /\ pc[r] = "idle"
    /\ pc'       = [pc EXCEPT ![r] = "head"]
    /\ backfill' = [backfill EXCEPT ![r] = mode]
    /\ UNCHANGED <<chain, stored, pool, head, cursor, rows>>

\* The loop over the pools ends, or asks for the head block first.
ReadHead(r) ==
    /\ pc[r] = "head"
    /\ IF pool[r] \in Pool
       THEN /\ pc'   = [pc EXCEPT ![r] = "resume"]
            /\ head' = [head EXCEPT ![r] = tip]
       ELSE /\ pc'   = [pc EXCEPT ![r] = "done"]
            /\ UNCHANGED head
    /\ UNCHANGED <<chain, stored, backfill, pool, cursor, rows>>

NextPool(r) ==
    /\ pc'   = [pc EXCEPT ![r] = "head"]
    /\ pool' = [pool EXCEPT ![r] = @ + 1]

\* Fault: a run goes on from the head it knows, not from what is stored.
ResumeBlockAtHead(r) ==
    IF backfill[r] \/ stored[pool[r]] = {} THEN Deployment[pool[r]] ELSE head[r]

\* latest_block_for_pool: start_block.
ResumeBlock(r) ==
    IF backfill[r] \/ stored[pool[r]] = {} THEN Deployment[pool[r]]
    ELSE Max(stored[pool[r]]) + 1

Resume(r) ==
    /\ pc[r] = "resume"
    /\ cursor' = [cursor EXCEPT ![r] = ResumeBlock(r)]
    /\ IF ResumeBlock(r) > head[r] THEN NextPool(r)
       ELSE pc' = [pc EXCEPT ![r] = "fetch"] /\ UNCHANGED pool
    /\ UNCHANGED <<chain, stored, backfill, head, rows>>

\* iter_block_chunks: the last block of the chunk at the cursor.
ChunkTo(r) == IF cursor[r] + ChunkSize - 1 < head[r] THEN cursor[r] + ChunkSize - 1 ELSE head[r]

\* Fault: a chunk whose fetch fails is skipped with a warning.
FetchOrSkip(r) ==
    /\ pc[r] = "fetch"
    /\ \/ rows' = [rows EXCEPT ![r] = {b \in logs[pool[r]] : cursor[r] <= b /\ b <= ChunkTo(r) /\ b <= indexed}]
       \/ rows' = rows
    /\ pc' = [pc EXCEPT ![r] = "insert"]
    /\ UNCHANGED <<chain, stored, backfill, pool, head, cursor>>

Fetch(r) ==
    /\ pc[r] = "fetch"
    /\ rows' = [rows EXCEPT ![r] = {b \in logs[pool[r]] : cursor[r] <= b /\ b <= ChunkTo(r) /\ b <= indexed}]
    /\ pc'   = [pc EXCEPT ![r] = "insert"]
    /\ UNCHANGED <<chain, stored, backfill, pool, head, cursor>>

\* _insert_rows commits the chunk; the walk goes on with the next.
Insert(r) ==
    /\ pc[r] = "insert"
    /\ stored' = [stored EXCEPT ![pool[r]] = @ \cup rows[r]]
    /\ rows'   = [rows EXCEPT ![r] = {}]
    /\ cursor' = [cursor EXCEPT ![r] = ChunkTo(r) + 1]
    /\ IF ChunkTo(r) + 1 > head[r] THEN NextPool(r)
       ELSE pc' = [pc EXCEPT ![r] = "fetch"] /\ UNCHANGED pool
    /\ UNCHANGED <<chain, backfill, head>>

\* The process is gone, and its variables with it.
Exit(r) ==
    /\ pc'       = [pc EXCEPT ![r] = "idle"]
    /\ backfill' = [backfill EXCEPT ![r] = FALSE]
    /\ pool'     = [pool EXCEPT ![r] = 1]
    /\ head'     = [head EXCEPT ![r] = 0]
    /\ cursor'   = [cursor EXCEPT ![r] = 0]
    /\ rows'     = [rows EXCEPT ![r] = {}]
    /\ UNCHANGED <<chain, stored>>

\* A fetch that raises, a database error, a timeout of the job: the run ends
\* where it is.  What its chunks committed stays.
Fail(r) == pc[r] \notin {"idle", "done"} /\ Exit(r)

End(r) == pc[r] = "done" /\ Exit(r)

Step(r) ==
    \/ \E mode \in BOOLEAN : Start(r, mode)
    \/ ReadHead(r)
    \/ Resume(r)
    \/ Fetch(r)
    \/ Insert(r)
    \/ Fail(r)
    \/ End(r)

Next ==
    \/ \E active \in SUBSET Pool : Mine(active)
    \/ Index
    \/ \E r \in Runner : Step(r)

Spec == Init /\ [][Next]_vars

\* The log index catches up, and the daily schedule keeps bringing runs that
\* walk to their end.
FairSpec ==
    /\ Spec
    /\ WF_vars(Index)
    /\ []<>(\A r \in Runner : pc[r] = "idle")
    /\ []<>(\E r \in Runner : pc[r] = "done")

-----------------------------------------------------------------------------
\* Properties.

\* The table has no hole an incremental run would step over: every event of a
\* pool up to its highest stored block is stored, whatever runs overlapped,
\* backfilled, or died between two chunks.
NoGap ==
    \A p \in Pool : \A s \in stored[p], b \in logs[p] : b <= s => b \in stored[p]

\* A run does not move past an event it was told about: what lies behind the
\* cursor of a run, as far as the index is known to have been, is stored,
\* although another run may have written it.
WalkedIsStored ==
    \A r \in Runner : pc[r] \in {"fetch", "insert"} =>
        \A b \in logs[pool[r]] : b < cursor[r] => b \in stored[pool[r]]

\* Every event is stored in the end.
EventsArrive ==
    \A p \in Pool, b \in Block : (b \in logs[p]) ~> (b \in stored[p])
=============================================================================
