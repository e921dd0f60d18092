---------------------------- MODULE BlockCursorProofs ----------------------------
(***************************************************************************)
(* BlockCursor for any number of runs, pools and blocks and any chunk      *)
(* size: what is stored has no hole, although a run keeps no record of     *)
(* what it walked.                                                         *)
(***************************************************************************)
EXTENDS BlockCursor, WellFoundedInduction, TLAPS

\* The table holds events of the chain, and a pool has none before it was
\* deployed, where a backfill starts.
ChainInv ==
    /\ tip <= indexed + Lag
    /\ \A p \in Pool : stored[p] \subseteq logs[p]
    /\ \A p \in Pool : \A b \in logs[p] : Deployment[p] <= b

\* The rows of a chunk are the first events of it: all those before the head,
\* and all those before any one of them.
Prefix(r) ==
    /\ rows[r] \subseteq logs[pool[r]]
    /\ \A b \in rows[r] : b <= ChunkTo(r)
    /\ \A b \in logs[pool[r]] :
          /\ cursor[r] <= b
          /\ b <= ChunkTo(r)
          /\ b < head[r] \/ \E s \in rows[r] : b <= s
          => b \in rows[r]

FetchedInv == \A r \in Runner : pc[r] = "insert" => Prefix(r)

CursorInv == TypeOK /\ ChainInv /\ FetchedInv /\ NoGap /\ WalkedIsStored

-----------------------------------------------------------------------------
\* The order of the naturals as the library's well-founded relation.
Less == {p \in Nat \X Nat : p[1] < p[2]}

LEMMA LessIsWellFounded == IsWellFoundedOn(Less, Nat)
BY NatLessThanWellFounded DEF Less, OpToRel

\* max(block_number) is the block of a row, and no row is above it.
LEMMA HighestBlock ==
    ASSUME NEW n \in Nat, NEW S \in SUBSET (1..n), S # {}
    PROVE  Max(S) \in S /\ \A b \in S : b <= Max(S)
<1> DEFINE below == {n - b : b \in S}
<1>1. below \subseteq Nat /\ below # {}
  OBVIOUS
<1>2. \E x \in below : \A y \in below : <<y, x>> \notin Less
  <2> HIDE DEF below
  <2> QED BY <1>1, LessIsWellFounded, WFMin
<1>3. PICK b \in S : \A y \in S : ~(n - y < n - b)
  BY <1>1, <1>2 DEF Less
<1>4. \A y \in S : b >= y
  BY <1>3
<1> QED
  BY <1>4 DEF Max

\* A run starts on a pool behind nothing that is not stored.
LEMMA ResumesBehindTheStored ==
    ASSUME TypeOK, ChainInv, NoGap, NEW r \in Runner, pool[r] \in Pool
    PROVE  /\ ResumeBlock(r) \in Nat
           /\ \A b \in logs[pool[r]] : b < ResumeBlock(r) => b \in stored[pool[r]]
<1> DEFINE p == pool[r]
<1>1. /\ tip \in Nat /\ stored[p] \subseteq 1..tip /\ logs[p] \subseteq 1..tip
      /\ Deployment[p] \in Nat
  BY MaxBlockIsNat, DeploymentIsBlock DEF TypeOK
<1>2. CASE backfill[r] \/ stored[p] = {}
  BY <1>1, <1>2 DEF ResumeBlock, ChainInv
<1>3. CASE ~backfill[r] /\ stored[p] # {}
  <2>1. Max(stored[p]) \in stored[p]
    BY <1>1, <1>3, HighestBlock
  <2>2. ResumeBlock(r) = Max(stored[p]) + 1
    BY <1>3 DEF ResumeBlock
  <2>3. \A b \in logs[p] : b < ResumeBlock(r) => b <= Max(stored[p])
    BY <1>1, <2>1, <2>2
  <2> QED
    BY <1>1, <2>1, <2>2, <2>3 DEF NoGap
<1> QED
  BY <1>2, <1>3

\* The end of a chunk is a block, no later than the head.
LEMMA ChunkEnds ==
    ASSUME TypeOK, NEW r \in Runner
    PROVE  /\ cursor[r] \in Nat /\ head[r] \in Nat
           /\ ChunkTo(r) \in Nat
           /\ ChunkTo(r) <= head[r]
BY ChunkIsPositive, MaxBlockIsNat DEF TypeOK, ChunkTo

-----------------------------------------------------------------------------
LEMMA StartsRight == Init => CursorInv
<1> SUFFICES ASSUME Init PROVE CursorInv
  OBVIOUS
<1> USE DEF Init
<1>1. TypeOK
  BY MaxBlockIsNat, PoolsIsNat DEF TypeOK, Stage, Pool
<1>2. ChainInv
  BY LagIsAtMostOne DEF ChainInv
<1>3. FetchedInv /\ NoGap /\ WalkedIsStored
  BY DEF FetchedInv, NoGap, WalkedIsStored
<1> QED
  BY <1>1, <1>2, <1>3 DEF CursorInv

\* The chain grows only above everything a run knows or has stored.
LEMMA MineKeeps ==
    ASSUME CursorInv, NEW active \in SUBSET Pool, Mine(active)
    PROVE  CursorInv'
<1> USE DEF CursorInv
<1>1. tip \in Nat /\ tip' = tip + 1 /\ indexed \in 0..tip
  BY MaxBlockIsNat DEF Mine, TypeOK
<1>2. UNCHANGED <<indexed, stored, pc, backfill, pool, head, cursor, rows>>
  BY DEF Mine
<1>3. /\ logs' \in [Pool -> SUBSET (1..tip')]
      /\ \A p \in Pool : logs[p] \subseteq logs'[p]
      /\ \A p \in Pool : \A b \in logs'[p] :
            b \in logs[p] \/ (b = tip + 1 /\ Deployment[p] <= b)
  BY <1>1, DeploymentIsBlock DEF Mine, TypeOK
<1>4. TypeOK'
  <2>1. tip' \in 0..MaxBlock /\ indexed' \in 0..tip'
    BY <1>1, <1>2, MaxBlockIsNat DEF Mine, TypeOK
  <2>2. 1..tip \subseteq 1..tip' /\ 0..tip \subseteq 0..tip'
    BY <1>1
  <2>3. /\ stored' \in [Pool -> SUBSET (1..tip')]
        /\ rows' \in [Runner -> SUBSET (1..tip')]
        /\ head' \in [Runner -> 0..tip']
    BY <1>2, <2>2 DEF TypeOK
  <2> QED BY <1>2, <1>3, <2>1, <2>3 DEF TypeOK
<1>5. ChainInv'
  BY <1>1, <1>2, <1>3, LagIsAtMostOne DEF ChainInv, Mine
<1>6. NoGap'
  BY <1>1, <1>2, <1>3 DEF NoGap, TypeOK
<1>7. WalkedIsStored'
  <2> SUFFICES ASSUME NEW r \in Runner, pc[r] \in {"fetch", "insert"},
                      NEW b \in logs'[pool[r]], b < cursor[r]
               PROVE  b \in stored[pool[r]]
    BY <1>2 DEF WalkedIsStored
  <2>1. pool[r] \in Pool
    BY DEF TypeOK
  <2>2. CASE b \in logs[pool[r]]
    BY <2>1, <2>2 DEF WalkedIsStored
  <2>3. CASE b = tip + 1  \* The cursor is not above the head it walks to.
    BY <1>1, <2>3 DEF TypeOK
  <2> QED BY <1>3, <2>1, <2>2, <2>3
<1>8. FetchedInv'
  <2> SUFFICES ASSUME NEW r \in Runner, pc[r] = "insert" PROVE Prefix(r)'
    BY <1>2 DEF FetchedInv
  <2>1. pool[r] \in Pool /\ Prefix(r)
    BY DEF TypeOK, FetchedInv
  <2>2. ChunkTo(r)' = ChunkTo(r) /\ ChunkTo(r) <= tip
    BY <1>1, <1>2, ChunkEnds DEF ChunkTo, TypeOK
  <2>3. \A b \in logs'[pool[r]] : b <= ChunkTo(r) => b \in logs[pool[r]]
    BY <1>1, <1>3, <2>1, <2>2, ChunkEnds
  <2> QED BY <1>2, <1>3, <2>1, <2>2, <2>3 DEF Prefix
<1> QED
  BY <1>4, <1>5, <1>6, <1>7, <1>8

LEMMA IndexKeeps ==
    ASSUME CursorInv, Index
    PROVE  CursorInv'
<1> USE DEF CursorInv, Index
<1>1. TypeOK'
  BY MaxBlockIsNat DEF TypeOK
<1>2. ChainInv'
  BY MaxBlockIsNat, LagIsAtMostOne DEF ChainInv, TypeOK
<1>3. NoGap' /\ WalkedIsStored'
  BY DEF NoGap, WalkedIsStored
<1>4. FetchedInv'
  BY DEF FetchedInv, Prefix, ChunkTo
<1> QED
  BY <1>1, <1>2, <1>3, <1>4

\* A step of run r leaves what the invariant says of the others' rows alone.
LEMMA OthersKeep ==
    ASSUME CursorInv, NEW r \in Runner, NEW q \in Runner, q # r,
           pc'[q] = pc[q], pool'[q] = pool[q], head'[q] = head[q],
           cursor'[q] = cursor[q], rows'[q] = rows[q], logs' = logs,
           pc[q] = "insert"
    PROVE  Prefix(q)'
BY DEF CursorInv, FetchedInv, Prefix, ChunkTo

LEMMA StartKeeps ==
    ASSUME CursorInv, NEW r \in Runner, NEW mode \in BOOLEAN, Start(r, mode)
    PROVE  CursorInv'
<1> USE DEF CursorInv, Start, chain
<1>1. \A q \in Runner : pc'[q] = "insert" => pc[q] = "insert" /\ q # r
  BY DEF TypeOK
<1>2. TypeOK'
  BY DEF TypeOK, Stage
<1>3. ChainInv' /\ NoGap'
  BY DEF ChainInv, NoGap
<1>4. WalkedIsStored'
  BY DEF WalkedIsStored, TypeOK
<1>5. FetchedInv'
  BY <1>1, OthersKeep DEF FetchedInv, TypeOK
<1> QED
  BY <1>2, <1>3, <1>4, <1>5

LEMMA ReadHeadKeeps ==
    ASSUME CursorInv, NEW r \in Runner, ReadHead(r)
    PROVE  CursorInv'
<1> USE DEF CursorInv, ReadHead, chain
<1>1. tip \in 0..tip
  BY MaxBlockIsNat DEF TypeOK
<1>2. TypeOK'
  BY <1>1 DEF TypeOK, Stage
<1>3. ChainInv' /\ NoGap'
  BY DEF ChainInv, NoGap
<1>4. WalkedIsStored'
  BY DEF WalkedIsStored, TypeOK
<1>5. \A q \in Runner : pc'[q] = "insert" =>
         pc[q] = "insert" /\ q # r /\ head'[q] = head[q]
  BY DEF TypeOK
<1>6. FetchedInv'
  BY <1>5, OthersKeep DEF FetchedInv, TypeOK
<1> QED
  BY <1>2, <1>3, <1>4, <1>6

LEMMA ResumeKeeps ==
    ASSUME CursorInv, NEW r \in Runner, Resume(r)
    PROVE  CursorInv'
<1> USE DEF CursorInv, Resume, NextPool, chain
<1>1. pool[r] \in Pool
  BY DEF TypeOK
<1>2. /\ ResumeBlock(r) \in Nat
      /\ \A b \in logs[pool[r]] : b < ResumeBlock(r) => b \in stored[pool[r]]
  BY <1>1, ResumesBehindTheStored
<1>3. head[r] \in Nat
  BY MaxBlockIsNat DEF TypeOK
<1>4. TypeOK'
  <2>1. pc' \in [Runner -> Stage] /\ cursor' \in [Runner -> Nat]
    BY <1>2 DEF TypeOK, Stage
  <2>2. pool' \in [Runner -> 1..(Pools + 1)]
    <3>1. pool[r] + 1 \in 1..(Pools + 1)
      BY <1>1, PoolsIsNat DEF Pool
    <3> QED BY <3>1 DEF TypeOK
  <2>3. \A q \in Runner : pc'[q] \in {"resume", "fetch", "insert"} => pool'[q] \in Pool
    BY <1>1 DEF TypeOK
  <2>4. \A q \in Runner : pc'[q] \in {"fetch", "insert"} => cursor'[q] <= head[q]
    BY <1>2, <1>3 DEF TypeOK
  <2>5. \A q \in Runner : pc'[q] # "insert" => rows[q] = {}
    BY DEF TypeOK
  <2>6. \A q \in Runner : pc'[q] = "insert" => \A b \in rows[q] : cursor'[q] <= b /\ b <= head[q]
    BY DEF TypeOK
  <2> QED BY <2>1, <2>2, <2>3, <2>4, <2>5, <2>6 DEF TypeOK
<1>5. ChainInv' /\ NoGap'
  BY DEF ChainInv, NoGap
<1>6. WalkedIsStored'
  BY <1>2 DEF WalkedIsStored, TypeOK
<1>7. \A q \in Runner : pc'[q] = "insert" =>
         /\ pc[q] = "insert" /\ q # r
         /\ pool'[q] = pool[q] /\ cursor'[q] = cursor[q]
  BY DEF TypeOK
<1>8. FetchedInv'
  BY <1>7, OthersKeep DEF FetchedInv, TypeOK
<1> QED
  BY <1>4, <1>5, <1>6, <1>8

\* What a run fetches is a prefix of its chunk, because the index is at most
\* one block behind and the chunk does not reach past the head.
LEMMA FetchKeeps ==
    ASSUME CursorInv, NEW r \in Runner, Fetch(r)
    PROVE  CursorInv'
<1> USE DEF CursorInv, Fetch, chain
<1>1. pool[r] \in Pool /\ logs[pool[r]] \subseteq 1..tip
  BY DEF TypeOK
<1>2. /\ tip \in Nat /\ indexed \in Nat /\ head[r] \in Nat /\ head[r] <= tip
      /\ cursor[r] \in Nat /\ ChunkTo(r) \in Nat /\ ChunkTo(r) <= head[r]
  BY ChunkEnds, MaxBlockIsNat DEF TypeOK
<1>3. head[r] <= indexed + 1
  BY <1>2, LagIsAtMostOne DEF ChainInv
<1>4. /\ rows'[r] = {b \in logs[pool[r]] : cursor[r] <= b /\ b <= ChunkTo(r) /\ b <= indexed}
      /\ \A q \in Runner \ {r} : rows'[q] = rows[q] /\ pc'[q] = pc[q]
      /\ pc'[r] = "insert"
  BY DEF TypeOK
<1>5. TypeOK'
  <2>1. pc' \in [Runner -> Stage] /\ rows' \in [Runner -> SUBSET (1..tip)]
    BY <1>1 DEF TypeOK, Stage
  <2>2. \A q \in Runner : pc'[q] = "insert" => \A b \in rows'[q] : cursor[q] <= b /\ b <= head[q]
    BY <1>1, <1>2, <1>4 DEF TypeOK
  <2>3. \A q \in Runner : pc'[q] \in {"resume", "fetch", "insert"} => pool[q] \in Pool
    BY <1>1, <1>4 DEF TypeOK
  <2>4. \A q \in Runner : pc'[q] \in {"fetch", "insert"} => cursor[q] <= head[q]
    BY <1>4 DEF TypeOK
  <2>5. \A q \in Runner : pc'[q] # "insert" => rows'[q] = {}
    BY <1>4 DEF TypeOK
  <2> QED BY <2>1, <2>2, <2>3, <2>4, <2>5 DEF TypeOK
<1>6. ChainInv' /\ NoGap'
  BY DEF ChainInv, NoGap
<1>7. WalkedIsStored'
  BY <1>4 DEF WalkedIsStored
<1>8. Prefix(r)'
  <2>1. ChunkTo(r)' = ChunkTo(r)
    BY DEF ChunkTo
  <2>2. \A b \in logs[pool[r]] : b < head[r] \/ (\E s \in rows'[r] : b <= s) => b <= indexed
    BY <1>1, <1>2, <1>3, <1>4
  <2> QED BY <1>4, <2>1, <2>2 DEF Prefix
<1>9. FetchedInv'
  BY <1>4, <1>8, OthersKeep DEF FetchedInv
<1> QED
  BY <1>5, <1>6, <1>7, <1>9

LEMMA InsertKeeps ==
    ASSUME CursorInv, NEW r \in Runner, Insert(r)
    PROVE  CursorInv'
<1> USE DEF CursorInv, Insert, NextPool, chain
<1> DEFINE p == pool[r]
<1>1. p \in Pool /\ Prefix(r)
  BY DEF TypeOK, FetchedInv
<1>2. /\ cursor[r] \in Nat /\ head[r] \in Nat /\ ChunkTo(r) \in Nat
      /\ ChunkTo(r) <= head[r]
      /\ tip \in Nat /\ logs[p] \subseteq 1..tip /\ rows[r] \subseteq 1..tip
  BY <1>1, ChunkEnds, MaxBlockIsNat DEF TypeOK
<1>3. /\ stored'[p] = stored[p] \cup rows[r]
      /\ \A q \in Pool \ {p} : stored'[q] = stored[q]
      /\ \A q \in Pool : stored[q] \subseteq stored'[q]
      /\ stored' \in [Pool -> SUBSET (1..tip)]
  BY <1>1, <1>2 DEF TypeOK
<1>4. /\ rows'[r] = {} /\ cursor'[r] = ChunkTo(r) + 1
      /\ pc'[r] = "fetch" => ChunkTo(r) + 1 <= head[r] /\ pool'[r] = p
      /\ pc'[r] \in {"head", "fetch"}
      /\ \A q \in Runner \ {r} : /\ rows'[q] = rows[q] /\ cursor'[q] = cursor[q]
                                 /\ pc'[q] = pc[q] /\ pool'[q] = pool[q]
  BY <1>2 DEF TypeOK
<1>5. TypeOK'
  <2>1. pc' \in [Runner -> Stage] /\ cursor' \in [Runner -> Nat] /\ rows' \in [Runner -> SUBSET (1..tip)]
    BY <1>2 DEF TypeOK, Stage
  <2>2. pool' \in [Runner -> 1..(Pools + 1)]
    <3>1. pool[r] + 1 \in 1..(Pools + 1)
      BY <1>1, PoolsIsNat DEF Pool
    <3> QED BY <3>1 DEF TypeOK
  <2>3. \A q \in Runner : pc'[q] \in {"resume", "fetch", "insert"} => pool'[q] \in Pool
    BY <1>1, <1>4 DEF TypeOK
  <2>4. \A q \in Runner : pc'[q] \in {"fetch", "insert"} => cursor'[q] <= head[q]
    BY <1>4 DEF TypeOK
  <2>5. \A q \in Runner : pc'[q] # "insert" => rows'[q] = {}
    BY <1>4 DEF TypeOK
  <2>6. \A q \in Runner : pc'[q] = "insert" => \A b \in rows'[q] : cursor'[q] <= b /\ b <= head[q]
    BY <1>4 DEF TypeOK
  <2> QED BY <1>3, <2>1, <2>2, <2>3, <2>4, <2>5, <2>6 DEF TypeOK
<1>6. ChainInv'
  BY <1>1, <1>3 DEF ChainInv, Prefix
\* Behind the cursor all is stored, and the chunk's rows are its first events.
<1>7. \A b \in logs[p] : b < cursor[r] => b \in stored[p]
  BY DEF WalkedIsStored
<1>8. \A b \in logs[p] : b < ChunkTo(r) + 1 /\ b < head[r] => b \in stored'[p]
  BY <1>1, <1>2, <1>3, <1>7 DEF Prefix
<1>9. \A s \in rows[r], b \in logs[p] : b <= s => b \in stored'[p]
  BY <1>1, <1>2, <1>3, <1>7 DEF Prefix
<1>10. NoGap'
  <2>1. \A s \in stored'[p], b \in logs[p] : b <= s => b \in stored'[p]
    BY <1>1, <1>3, <1>9 DEF NoGap
  <2> QED BY <1>3, <2>1 DEF NoGap
<1>11. WalkedIsStored'
  <2> SUFFICES ASSUME NEW q \in Runner, pc'[q] \in {"fetch", "insert"},
                      NEW b \in logs[pool'[q]], b < cursor'[q]
               PROVE  b \in stored'[pool'[q]]
    BY DEF WalkedIsStored
  <2>1. CASE q = r
    BY <1>2, <1>4, <1>8, <2>1
  <2>2. CASE q # r
    <3>1. pool[q] \in Pool /\ b \in stored[pool[q]]
      BY <1>4, <2>2 DEF WalkedIsStored, TypeOK
    <3> QED BY <1>3, <1>4, <2>2, <3>1
  <2> QED BY <2>1, <2>2
<1>12. FetchedInv'
  BY <1>4, OthersKeep DEF FetchedInv
<1> QED
  BY <1>5, <1>6, <1>10, <1>11, <1>12

\* A run that dies takes with it only what it had not stored.
LEMMA ExitKeeps ==
    ASSUME CursorInv, NEW r \in Runner, Exit(r)
    PROVE  CursorInv'
<1> USE DEF CursorInv, Exit, chain
<1>1. /\ pc'[r] = "idle"
      /\ \A q \in Runner \ {r} : /\ rows'[q] = rows[q] /\ cursor'[q] = cursor[q]
                                 /\ pc'[q] = pc[q] /\ pool'[q] = pool[q] /\ head'[q] = head[q]
  BY DEF TypeOK
<1>2. TypeOK'
  <2>1. /\ pc' \in [Runner -> Stage] /\ backfill' \in [Runner -> BOOLEAN]
        /\ pool' \in [Runner -> 1..(Pools + 1)] /\ head' \in [Runner -> 0..tip]
        /\ cursor' \in [Runner -> Nat] /\ rows' \in [Runner -> SUBSET (1..tip)]
    BY PoolsIsNat, MaxBlockIsNat DEF TypeOK, Stage
  <2> QED BY <1>1, <2>1 DEF TypeOK
<1>3. ChainInv' /\ NoGap'
  BY DEF ChainInv, NoGap
<1>4. WalkedIsStored'
  BY <1>1 DEF WalkedIsStored
<1>5. FetchedInv'
  BY <1>1, OthersKeep DEF FetchedInv
<1> QED
  BY <1>2, <1>3, <1>4, <1>5

LEMMA StutterKeeps ==
    ASSUME CursorInv, UNCHANGED vars
    PROVE  CursorInv'
BY DEF CursorInv, vars, chain, TypeOK, ChainInv, FetchedInv, Prefix, ChunkTo, NoGap, WalkedIsStored

-----------------------------------------------------------------------------
\* The invariant holds in every reachable state.
LEMMA CursorInvariant == Spec => []CursorInv
<1>1. Init => CursorInv
  BY StartsRight
<1>2. CursorInv /\ [Next]_vars => CursorInv'
  <2> SUFFICES ASSUME CursorInv, [Next]_vars PROVE CursorInv'
    OBVIOUS
  <2>1. CASE \E active \in SUBSET Pool : Mine(active)
    BY <2>1, MineKeeps
  <2>2. CASE Index
    BY <2>2, IndexKeeps
  <2>3. ASSUME NEW r \in Runner, Step(r) PROVE CursorInv'
    BY <2>3, StartKeeps, ReadHeadKeeps, ResumeKeeps, FetchKeeps, InsertKeeps, ExitKeeps
       DEF Step, Fail, End
  <2>4. CASE UNCHANGED vars
    BY <2>4, StutterKeeps
  <2> QED
    BY <2>1, <2>2, <2>3, <2>4 DEF Next
<1> QED
  BY <1>1, <1>2, PTL DEF Spec

\* The types, for every number of runs, pools and blocks.
THEOREM CursorTypes == Spec => []TypeOK
BY CursorInvariant, PTL DEF CursorInv

\* onchain.staking_events has no hole below its highest block, whatever runs
\* overlap, backfill or die: max(block_number) is a safe place to resume from.
THEOREM ResumingLeavesNoGap == Spec => []NoGap
BY CursorInvariant, PTL DEF CursorInv

\* No run is ever ahead of an event that is not stored.
THEOREM WalksOverTheStored == Spec => []WalkedIsStored
BY CursorInvariant, PTL DEF CursorInv
=============================================================================
