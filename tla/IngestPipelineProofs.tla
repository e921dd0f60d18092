------------------------ MODULE IngestPipelineProofs ------------------------
(***************************************************************************)
(* Proofs about IngestPipeline, for every number of jobs, targets,         *)
(* attempts and runs: the invariant IInv is inductive, one lemma per       *)
(* action, and what follows from it.                                       *)
(***************************************************************************)
EXTENDS IngestPipeline, Integers, TLAPS

\* Good source runs and the lake's provenance survive every step that only
\* adds rows and leaves the finished ones alone.
LEMMA LakeStable ==
    ASSUME LakeTraceable, UNCHANGED <<lake, lakeRun>>,
           \A n \in RunId : label[n] = "normalize" =>
               label'[n] = "normalize" /\ sourceOf'[n] = sourceOf[n],
           \A s \in RunId : GoodSource(s) => GoodSource(s)' /\ blob'[s] = blob[s]
    PROVE  LakeTraceable'
<1>1. \A s : GoodSource(s) => s \in RunId
  BY DEF GoodSource
<1> QED BY <1>1 DEF LakeTraceable

\* The same for the runs normalizers read.
LEMMA SourcesStable ==
    ASSUME SourcesAreGood,
           \A i \in Job : pc'[i] = "normalize" => pc[i] = "normalize" /\ out'[i] = out[i],
           \A n \in RunId : label'[n] = "normalize" =>
               label[n] = "normalize" /\ sourceOf'[n] = sourceOf[n],
           \A s \in RunId : GoodSource(s) => GoodSource(s)'
    PROVE  SourcesAreGood'
<1>1. \A s : GoodSource(s) => s \in RunId
  BY DEF GoodSource
<1> QED BY <1>1 DEF SourcesAreGood

\* The id the next row gets is in no process's hands.
LEMMA NewIdIsFree ==
    ASSUME IInv
    PROVE  \A i \in Job : cur[i] # nextId + 1
<1>1. \A i \in Job : cur[i] # 0 => cur[i] \in RunId /\ status[cur[i]] = "running"
  BY DEF IInv, OwnsRun
<1>2. ASSUME NEW i \in Job, cur[i] = nextId + 1 PROVE FALSE
  BY <1>1, <1>2, BoundsAreNat DEF IInv, TypeOK, TablesOK, RowsExist, RunId
<1> QED BY <1>2

\* Nor has it a status or a label.
LEMMA NewRow ==
    ASSUME IInv, NEW what, InsertRun(what)
    PROVE  /\ nextId \in Nat /\ nextId + 1 \in RunId
           /\ status[nextId + 1] = "none" /\ label[nextId + 1] = "none"
<1>1. nextId \in Nat /\ nextId + 1 \in RunId
  BY BoundsAreNat DEF InsertRun, IInv, TypeOK, TablesOK, RunId
<1> QED BY <1>1 DEF IInv, RowsExist

\* A row that is inserted changes no other, and is no source yet.
LEMMA InsertOnlyAdds ==
    ASSUME IInv, NEW what \in {"collect", "normalize"}, InsertRun(what)
    PROVE  /\ RowsExist'
           /\ \A n \in RunId : n # nextId + 1 => status'[n] = status[n] /\ label'[n] = label[n]
           /\ label'[nextId + 1] = what
           /\ \A s \in RunId : GoodSource(s) => GoodSource(s)'
<1>1. /\ nextId \in Nat /\ nextId' = nextId + 1 /\ nextId + 1 \in RunId
      /\ status' = [status EXCEPT ![nextId + 1] = "running"] /\ DOMAIN status = RunId
      /\ label' = [label EXCEPT ![nextId + 1] = what] /\ DOMAIN label = RunId
  BY BoundsAreNat DEF InsertRun, IInv, TypeOK, TablesOK, RunId
<1>2. status[nextId + 1] = "none"
  BY NewRow
<1>3. RowsExist'
  <2> SUFFICES ASSUME NEW r \in RunId
               PROVE  /\ status'[r] = "none" <=> r > nextId + 1
                      /\ label'[r] = "none" <=> r > nextId + 1
    BY <1>1 DEF RowsExist
  <2>1. r \in Nat
    BY DEF RunId
  <2>2. /\ status[r] = "none" <=> r > nextId
        /\ label[r] = "none" <=> r > nextId
    BY DEF IInv, RowsExist
  <2> QED BY <1>1, <2>1, <2>2
<1>4. \A s \in RunId : GoodSource(s) => GoodSource(s)'
  BY <1>1, <1>2 DEF GoodSource
<1> QED BY <1>1, <1>3, <1>4

\* A run that was not inserted after all, or was and belongs to nobody, is no
\* normalizer's source.
LEMMA OpenRunErrorRows ==
    ASSUME IInv, NEW j \in Job, OpenRunError(j)
    PROVE  RowsExist' /\ SourcesAreGood' /\ LakeTraceable'
<1>1. \A i \in Job : pc'[i] = "normalize" => pc[i] = "normalize" /\ out'[i] = out[i]
  BY DEF OpenRunError, Exit, Goto, IInv, TypeOK, ProcOK
<1>2. UNCHANGED <<sourceOf, blob, lake, lakeRun>> /\ SourcesAreGood /\ LakeTraceable
  BY DEF OpenRunError, IInv
<1>3. CASE UNCHANGED <<nextId, status, label>>
  <2>1. RowsExist'
    BY <1>3 DEF IInv, RowsExist
  <2>2. \A s \in RunId : GoodSource(s) => GoodSource(s)'
    BY <1>3 DEF GoodSource
  <2> QED BY <1>1, <1>2, <1>3, <2>1, <2>2, SourcesStable, LakeStable
<1>4. CASE InsertRun("collect")
  <2>1. \A n \in RunId : label[n] = "normalize" => label'[n] = "normalize"
    BY <1>4, NewRow, InsertOnlyAdds
  <2> QED BY <1>1, <1>2, <1>4, <2>1, InsertOnlyAdds, SourcesStable, LakeStable
<1> QED BY <1>3, <1>4 DEF OpenRunError

LEMMA OpenNormalizeErrorRows ==
    ASSUME IInv, NEW j \in Job, OpenNormalizeError(j)
    PROVE  RowsExist' /\ SourcesAreGood' /\ LakeTraceable'
<1>1. \A i \in Job : pc'[i] = "normalize" => pc[i] = "normalize" /\ out'[i] = out[i]
  BY DEF OpenNormalizeError, EndJob, Goto, IInv, TypeOK, ProcOK
<1>2. UNCHANGED <<blob, lake, lakeRun>> /\ SourcesAreGood /\ LakeTraceable
  BY DEF OpenNormalizeError, IInv
<1>3. CASE UNCHANGED <<nextId, status, label, sourceOf>>
  <2>1. RowsExist'
    BY <1>3 DEF IInv, RowsExist
  <2>2. \A s \in RunId : GoodSource(s) => GoodSource(s)'
    BY <1>3 DEF GoodSource
  <2> QED BY <1>1, <1>2, <1>3, <2>1, <2>2, SourcesStable, LakeStable
<1>4. ASSUME InsertRun("normalize"), NEW s \in Source(j), sourceOf' = [sourceOf EXCEPT ![nextId + 1] = s]
      PROVE  RowsExist' /\ SourcesAreGood' /\ LakeTraceable'
  <2>1. GoodSource(s)
    BY <1>2 DEF Source, LatestSuccess, OpenNormalizeError, At, SourcesAreGood, GoodSource
  <2>2. /\ nextId + 1 \in RunId /\ DOMAIN sourceOf = RunId
    BY <1>4, BoundsAreNat DEF InsertRun, IInv, TypeOK, TablesOK, RunId
  <2>3. \A n \in RunId : label'[n] = "normalize" => GoodSource(sourceOf'[n])
    BY <1>2, <1>4, <2>1, <2>2, InsertOnlyAdds DEF SourcesAreGood
  <2>4. \A r : GoodSource(r) => GoodSource(r)'
    BY <1>4, InsertOnlyAdds DEF GoodSource
  <2>5. SourcesAreGood'
    BY <1>1, <1>2, <2>3, <2>4 DEF SourcesAreGood
  <2>6. \A n \in RunId : label[n] = "normalize" => label'[n] = "normalize" /\ sourceOf'[n] = sourceOf[n]
    BY <1>4, <2>2, NewRow, InsertOnlyAdds
  <2> QED BY <1>2, <1>4, <2>5, <2>6, InsertOnlyAdds, LakeStable
<1> QED BY <1>3, <1>4 DEF OpenNormalizeError

\* StartJob keeps IInv.
LEMMA StartJobInv ==
    ASSUME IInv, NEW j \in Job, StartJob(j)
    PROVE  IInv'
<1> USE BoundsAreNat DEF RunId, At, IInv, TypeOK, TablesOK, LakeOK, ProcOK,
    StartJob, table, Goto
<1>1. TablesOK'
  BY DEF OwnsRun, Collecting, Normalizing, Version
<1>2. LakeOK'
  BY DEF OwnsRun, Collecting, Normalizing, SourcesAreGood, GoodSource, Version
<1>3. ProcOK'
  BY DEF PC, Live, Ended, Endpoint
<1>4. RowsExist'
  BY DEF RowsExist, OwnsRun, Collecting, Normalizing
<1>5. OwnsRun'
  BY DEF RowsExist, OwnsRun, OwnsAlone, Collecting, Normalizing, Live, Ended
<1>6. OwnsAlone'
  BY DEF RowsExist, OwnsRun, OwnsAlone, Collecting, Normalizing, Live, Ended
<1>7. LoopCovers'
  BY DEF Version, Endpoint, LoopCovers, Covered, OwnsRun, OwnsAlone,
      Collecting, Normalizing, Live, Ended
<1>8. SourcesAreGood'
  BY DEF RowsExist, SourcesAreGood, GoodSource, OwnsRun, Collecting,
      Normalizing, Live, Ended
<1>9. SuccessIsComplete'
  BY DEF RowsExist, SuccessIsComplete, LoopCovers, Covered, OwnsRun,
      Collecting, Normalizing, Live, Ended
<1>10. LakeTraceable'
  BY DEF RowsExist, LakeTraceable, SourcesAreGood, GoodSource, OwnsRun,
      Collecting, Normalizing, Live, Ended
<1>11. clock' > 0
  OBVIOUS
<1> QED BY <1>1, <1>2, <1>3, <1>4, <1>5, <1>6, <1>7, <1>8, <1>9, <1>10, <1>11

\* Kill keeps IInv.
LEMMA KillInv ==
    ASSUME IInv, NEW j \in Job, Kill(j)
    PROVE  IInv'
<1> USE BoundsAreNat DEF RunId, At, IInv, TypeOK, TablesOK, LakeOK, ProcOK,
    Kill, table, EndJob, Goto
<1>1. TablesOK'
  BY DEF OwnsRun, Collecting, Normalizing, Version
<1>2. LakeOK'
  BY DEF OwnsRun, Collecting, Normalizing, SourcesAreGood, GoodSource, Version
<1>3. ProcOK'
  BY DEF PC, Live, Ended, Endpoint
<1>4. RowsExist'
  BY DEF RowsExist, OwnsRun, Collecting, Normalizing
<1>5. OwnsRun'
  BY DEF RowsExist, OwnsRun, OwnsAlone, Collecting, Normalizing, Live, Ended
<1>6. OwnsAlone'
  BY DEF RowsExist, OwnsRun, OwnsAlone, Collecting, Normalizing, Live, Ended
<1>7. LoopCovers'
  BY DEF Version, Endpoint, LoopCovers, Covered, OwnsRun, OwnsAlone,
      Collecting, Normalizing, Live, Ended
<1>8. SourcesAreGood'
  BY DEF RowsExist, SourcesAreGood, GoodSource, OwnsRun, Collecting,
      Normalizing, Live, Ended
<1>9. SuccessIsComplete'
  BY DEF RowsExist, SuccessIsComplete, LoopCovers, Covered, OwnsRun,
      Collecting, Normalizing, Live, Ended
<1>10. LakeTraceable'
  BY DEF RowsExist, LakeTraceable, SourcesAreGood, GoodSource, OwnsRun,
      Collecting, Normalizing, Live, Ended
<1>11. clock' > 0
  OBVIOUS
<1> QED BY <1>1, <1>2, <1>3, <1>4, <1>5, <1>6, <1>7, <1>8, <1>9, <1>10, <1>11

\* OpenRun keeps IInv.
LEMMA OpenRunInv ==
    ASSUME IInv, NEW j \in Job, OpenRun(j)
    PROVE  IInv'
<1> USE BoundsAreNat DEF RunId, At, IInv, TypeOK, TablesOK, LakeOK, ProcOK,
    OpenRun, table, Goto, InsertRun
<1>1. TablesOK'
  BY DEF OwnsRun, Collecting, Normalizing, Version
<1>2. LakeOK'
  BY DEF OwnsRun, Collecting, Normalizing, SourcesAreGood, GoodSource, Version
<1>3. ProcOK'
  BY DEF PC, Live, Ended, Endpoint
<1>4. RowsExist'
  BY DEF RowsExist, OwnsRun, Collecting, Normalizing
<1>5. OwnsRun'
  BY DEF RowsExist, OwnsRun, OwnsAlone, Collecting, Normalizing, Live, Ended
<1>6. OwnsAlone'
  BY NewIdIsFree DEF OwnsAlone
<1>7. LoopCovers'
  BY DEF Version, Endpoint, LoopCovers, Covered, OwnsRun, OwnsAlone,
      Collecting, Normalizing, Live, Ended
<1>8. SourcesAreGood'
  BY DEF RowsExist, SourcesAreGood, GoodSource, OwnsRun, Collecting,
      Normalizing, Live, Ended
<1>9. SuccessIsComplete'
  BY DEF RowsExist, SuccessIsComplete, LoopCovers, Covered, OwnsRun,
      Collecting, Normalizing, Live, Ended
<1>10. LakeTraceable'
  BY DEF RowsExist, LakeTraceable, SourcesAreGood, GoodSource, OwnsRun,
      Collecting, Normalizing, Live, Ended
<1>11. clock' > 0
  OBVIOUS
<1> QED BY <1>1, <1>2, <1>3, <1>4, <1>5, <1>6, <1>7, <1>8, <1>9, <1>10, <1>11

\* OpenRunError keeps IInv.
LEMMA OpenRunErrorInv ==
    ASSUME IInv, NEW j \in Job, OpenRunError(j)
    PROVE  IInv'
<1> USE BoundsAreNat DEF RunId, At, IInv, TypeOK, TablesOK, LakeOK, ProcOK,
    OpenRunError, table, Exit, InsertRun, Goto
<1>1. TablesOK'
  <2>1. CASE UNCHANGED <<nextId, status, label>>
    BY <2>1 DEF OwnsRun, Collecting, Normalizing, Version
  <2>2. CASE InsertRun("collect")
    BY <2>2 DEF OwnsRun, Collecting, Normalizing, Version
  <2> QED BY <2>1, <2>2
<1>2. LakeOK'
  BY DEF OwnsRun, Collecting, Normalizing, SourcesAreGood, GoodSource, Version
<1>3. ProcOK'
  BY DEF PC, Live, Ended, Endpoint
<1>4. RowsExist'
  BY OpenRunErrorRows
<1>5. OwnsRun'
  <2>1. CASE UNCHANGED <<nextId, status, label>>
    BY <2>1 DEF RowsExist, OwnsRun, OwnsAlone, Collecting, Normalizing, Live,
        Ended
  <2>2. CASE InsertRun("collect")
    BY <2>2 DEF RowsExist, OwnsRun, OwnsAlone, Collecting, Normalizing, Live,
        Ended
  <2> QED BY <2>1, <2>2
<1>6. OwnsAlone'
  BY DEF RowsExist, OwnsRun, OwnsAlone, Collecting, Normalizing, Live, Ended
<1>7. LoopCovers'
  BY DEF Version, Endpoint, LoopCovers, Covered, OwnsRun, OwnsAlone,
      Collecting, Normalizing, Live, Ended
<1>8. SourcesAreGood'
  BY OpenRunErrorRows
<1>9. SuccessIsComplete'
  BY SMTT(30) DEF RowsExist, SuccessIsComplete, LoopCovers, Covered, OwnsRun,
      Collecting, Normalizing, Live, Ended
<1>10. LakeTraceable'
  BY OpenRunErrorRows
<1>11. clock' > 0
  OBVIOUS
<1> QED BY <1>1, <1>2, <1>3, <1>4, <1>5, <1>6, <1>7, <1>8, <1>9, <1>10, <1>11

\* FetchStore keeps IInv.
LEMMA FetchStoreInv ==
    ASSUME IInv, NEW j \in Job, NEW e \in Endpoint, FetchStore(j, e)
    PROVE  IInv'
<1> USE BoundsAreNat DEF RunId, At, IInv, TypeOK, TablesOK, LakeOK, ProcOK,
    FetchStore, table
<1>1. TablesOK'
  BY DEF OwnsRun, Collecting, Normalizing, Version
<1>2. LakeOK'
  BY DEF OwnsRun, Collecting, Normalizing, SourcesAreGood, GoodSource, Version
<1>3. ProcOK'
  BY DEF PC, Live, Ended, Endpoint
<1>4. RowsExist'
  BY DEF RowsExist, OwnsRun, Collecting, Normalizing
<1>5. OwnsRun'
  BY DEF RowsExist, OwnsRun, OwnsAlone, Collecting, Normalizing, Live, Ended
<1>6. OwnsAlone'
  BY DEF RowsExist, OwnsRun, OwnsAlone, Collecting, Normalizing, Live, Ended
<1>7. LoopCovers'
  <2>1. At(j, "fetch") /\ cur[j] \in RunId /\ clock # 0
    BY DEF OwnsRun, Collecting, Normalizing
  <2>2. \A i \in Job \ {j} : cur[i] # cur[j] \/ cur[i] = 0
    BY DEF OwnsAlone
  <2>3. Covered(j, lost[j])
    BY <2>1 DEF LoopCovers
  <2>4. /\ todo'[j] = todo[j] \ {e} /\ cur' = cur
        /\ e \in lost'[j] \/ (blob'[cur[j]])[e] # 0
        /\ lost[j] \subseteq lost'[j]
        /\ \A d \in Endpoint : blob[cur[j]][d] # 0 => (blob'[cur[j]])[d] # 0
    BY <2>1 DEF Endpoint
  <2>5. e \in Required => (blob'[cur[j]])[e] # 0
    BY <2>1, TargetsDisjoint DEF Endpoint
  <2>6. Covered(j, lost[j])'
    <3>1. ASSUME NEW d \in Required PROVE d \in todo'[j] \/ (blob'[cur[j]])[d] # 0
      BY <2>3, <2>4, <2>5, <3>1 DEF Covered, Endpoint
    <3>2. ASSUME NEW d \in Optional
          PROVE  d \in todo'[j] \/ (blob'[cur[j]])[d] # 0 \/ d \in lost'[j]
      BY <2>3, <2>4, <3>2 DEF Covered, Endpoint
    <3> QED BY <2>4, <3>1, <3>2 DEF Covered
  <2>7. ASSUME NEW i \in Job, i # j
        PROVE  /\ pc'[i] \in {"fetch", "record"} => Covered(i, lost[i])'
               /\ pc'[i] = "succeed" => Covered(i, partial[cur[i]])'
               /\ pc'[i] \in {"record", "succeed", "normalize"} => todo'[i] = {}
    BY <2>1, <2>2, <2>7 DEF OwnsRun, Collecting, Normalizing, LoopCovers,
        Covered, Endpoint
  <2>8. pc'[j] = "fetch"
    BY <2>1
  <2> QED BY <2>6, <2>7, <2>8 DEF LoopCovers
<1>8. SourcesAreGood'
  <2>1. cur[j] \in RunId /\ status[cur[j]] = "running"
    BY DEF OwnsRun, Collecting, Normalizing
  <2>2. \A s \in RunId : GoodSource(s) => GoodSource(s)' /\ blob'[s] = blob[s]
    BY <2>1 DEF GoodSource
  <2> QED BY <2>1, <2>2, SourcesStable
<1>9. SuccessIsComplete'
  BY DEF RowsExist, SuccessIsComplete, LoopCovers, Covered, OwnsRun,
      Collecting, Normalizing, Live, Ended
<1>10. LakeTraceable'
  <2>1. cur[j] \in RunId /\ status[cur[j]] = "running"
    BY DEF OwnsRun, Collecting, Normalizing
  <2>2. \A s \in RunId : GoodSource(s) => GoodSource(s)' /\ blob'[s] = blob[s]
    BY <2>1 DEF GoodSource
  <2> QED BY <2>1, <2>2, LakeStable
<1>11. clock' > 0
  OBVIOUS
<1> QED BY <1>1, <1>2, <1>3, <1>4, <1>5, <1>6, <1>7, <1>8, <1>9, <1>10, <1>11

\* FetchSoft keeps IInv.
LEMMA FetchSoftInv ==
    ASSUME IInv, NEW j \in Job, NEW e \in Endpoint, FetchSoft(j, e)
    PROVE  IInv'
<1> USE BoundsAreNat DEF RunId, At, IInv, TypeOK, TablesOK, LakeOK, ProcOK,
    FetchSoft, table
<1>1. TablesOK'
  BY DEF OwnsRun, Collecting, Normalizing, Version
<1>2. LakeOK'
  BY DEF OwnsRun, Collecting, Normalizing, SourcesAreGood, GoodSource, Version
<1>3. ProcOK'
  BY DEF PC, Live, Ended, Endpoint
<1>4. RowsExist'
  BY DEF RowsExist, OwnsRun, Collecting, Normalizing
<1>5. OwnsRun'
  BY DEF RowsExist, OwnsRun, OwnsAlone, Collecting, Normalizing, Live, Ended
<1>6. OwnsAlone'
  BY DEF RowsExist, OwnsRun, OwnsAlone, Collecting, Normalizing, Live, Ended
<1>7. LoopCovers'
  <2>1. At(j, "fetch") /\ cur[j] \in RunId /\ clock # 0
    BY DEF OwnsRun, Collecting, Normalizing
  <2>2. \A i \in Job \ {j} : cur[i] # cur[j] \/ cur[i] = 0
    BY DEF OwnsAlone
  <2>3. Covered(j, lost[j])
    BY <2>1 DEF LoopCovers
  <2>4. /\ todo'[j] = todo[j] \ {e} /\ cur' = cur
        /\ e \in lost'[j] \/ (blob'[cur[j]])[e] # 0
        /\ lost[j] \subseteq lost'[j]
        /\ \A d \in Endpoint : blob[cur[j]][d] # 0 => (blob'[cur[j]])[d] # 0
    BY <2>1 DEF Endpoint
  <2>5. e \in Required => (blob'[cur[j]])[e] # 0
    BY <2>1, TargetsDisjoint DEF Endpoint
  <2>6. Covered(j, lost[j])'
    <3>1. ASSUME NEW d \in Required PROVE d \in todo'[j] \/ (blob'[cur[j]])[d] # 0
      BY <2>3, <2>4, <2>5, <3>1 DEF Covered, Endpoint
    <3>2. ASSUME NEW d \in Optional
          PROVE  d \in todo'[j] \/ (blob'[cur[j]])[d] # 0 \/ d \in lost'[j]
      BY <2>3, <2>4, <3>2 DEF Covered, Endpoint
    <3> QED BY <2>4, <3>1, <3>2 DEF Covered
  <2>7. ASSUME NEW i \in Job, i # j
        PROVE  /\ pc'[i] \in {"fetch", "record"} => Covered(i, lost[i])'
               /\ pc'[i] = "succeed" => Covered(i, partial[cur[i]])'
               /\ pc'[i] \in {"record", "succeed", "normalize"} => todo'[i] = {}
    BY <2>1, <2>2, <2>7 DEF OwnsRun, Collecting, Normalizing, LoopCovers,
        Covered, Endpoint
  <2>8. pc'[j] = "fetch"
    BY <2>1
  <2> QED BY <2>6, <2>7, <2>8 DEF LoopCovers
<1>8. SourcesAreGood'
  BY DEF RowsExist, SourcesAreGood, GoodSource, OwnsRun, Collecting,
      Normalizing, Live, Ended
<1>9. SuccessIsComplete'
  BY DEF RowsExist, SuccessIsComplete, LoopCovers, Covered, OwnsRun,
      Collecting, Normalizing, Live, Ended
<1>10. LakeTraceable'
  BY DEF RowsExist, LakeTraceable, SourcesAreGood, GoodSource, OwnsRun,
      Collecting, Normalizing, Live, Ended
<1>11. clock' > 0
  OBVIOUS
<1> QED BY <1>1, <1>2, <1>3, <1>4, <1>5, <1>6, <1>7, <1>8, <1>9, <1>10, <1>11

\* FetchRaise keeps IInv.
LEMMA FetchRaiseInv ==
    ASSUME IInv, NEW j \in Job, NEW e \in Endpoint, FetchRaise(j, e)
    PROVE  IInv'
<1> USE BoundsAreNat DEF RunId, At, IInv, TypeOK, TablesOK, LakeOK, ProcOK,
    FetchRaise, table, Goto, proc
<1>1. TablesOK'
  BY DEF OwnsRun, Collecting, Normalizing, Version
<1>2. LakeOK'
  <2>1. CASE UNCHANGED blob
    BY <2>1 DEF OwnsRun, Collecting, Normalizing, SourcesAreGood, GoodSource,
        Version
  <2>2. CASE blob' = [blob EXCEPT ![cur[j]][e] = clock]
    BY <2>2 DEF OwnsRun, Collecting, Normalizing, SourcesAreGood, GoodSource,
        Version
  <2> QED BY <2>1, <2>2
<1>3. ProcOK'
  BY DEF PC, Live, Ended, Endpoint
<1>4. RowsExist'
  BY DEF RowsExist, OwnsRun, Collecting, Normalizing
<1>5. OwnsRun'
  BY DEF RowsExist, OwnsRun, OwnsAlone, Collecting, Normalizing, Live, Ended
<1>6. OwnsAlone'
  BY DEF RowsExist, OwnsRun, OwnsAlone, Collecting, Normalizing, Live, Ended
<1>7. LoopCovers'
  <2>1. CASE UNCHANGED blob
    BY <2>1 DEF Version, Endpoint, LoopCovers, Covered, OwnsRun, OwnsAlone,
        Collecting, Normalizing, Live, Ended
  <2>2. CASE blob' = [blob EXCEPT ![cur[j]][e] = clock]
    BY SMTT(30), <2>2 DEF Version, Endpoint, LoopCovers, Covered, OwnsRun, OwnsAlone,
        Collecting, Normalizing, Live, Ended
  <2> QED BY <2>1, <2>2
<1>8. SourcesAreGood'
  <2>1. cur[j] \in RunId /\ status[cur[j]] = "running"
    BY DEF OwnsRun, Collecting, Normalizing
  <2>2. \A s \in RunId : GoodSource(s) => GoodSource(s)' /\ blob'[s] = blob[s]
    BY <2>1 DEF GoodSource
  <2> QED BY <2>1, <2>2, SourcesStable
<1>9. SuccessIsComplete'
  <2>1. CASE UNCHANGED blob
    BY <2>1 DEF RowsExist, SuccessIsComplete, LoopCovers, Covered, OwnsRun,
        Collecting, Normalizing, Live, Ended
  <2>2. CASE blob' = [blob EXCEPT ![cur[j]][e] = clock]
    BY <2>2 DEF RowsExist, SuccessIsComplete, LoopCovers, Covered, OwnsRun,
        Collecting, Normalizing, Live, Ended
  <2> QED BY <2>1, <2>2
<1>10. LakeTraceable'
  <2>1. cur[j] \in RunId /\ status[cur[j]] = "running"
    BY DEF OwnsRun, Collecting, Normalizing
  <2>2. \A s \in RunId : GoodSource(s) => GoodSource(s)' /\ blob'[s] = blob[s]
    BY <2>1 DEF GoodSource
  <2> QED BY <2>1, <2>2, LakeStable
<1>11. clock' > 0
  OBVIOUS
<1> QED BY <1>1, <1>2, <1>3, <1>4, <1>5, <1>6, <1>7, <1>8, <1>9, <1>10, <1>11

\* LoopDone keeps IInv.
LEMMA LoopDoneInv ==
    ASSUME IInv, NEW j \in Job, LoopDone(j)
    PROVE  IInv'
<1> USE BoundsAreNat DEF RunId, At, IInv, TypeOK, TablesOK, LakeOK, ProcOK,
    LoopDone, table, Goto, proc
<1>1. TablesOK'
  BY DEF OwnsRun, Collecting, Normalizing, Version
<1>2. LakeOK'
  BY DEF OwnsRun, Collecting, Normalizing, SourcesAreGood, GoodSource, Version
<1>3. ProcOK'
  BY DEF PC, Live, Ended, Endpoint
<1>4. RowsExist'
  BY DEF RowsExist, OwnsRun, Collecting, Normalizing
<1>5. OwnsRun'
  BY DEF RowsExist, OwnsRun, OwnsAlone, Collecting, Normalizing, Live, Ended
<1>6. OwnsAlone'
  BY DEF RowsExist, OwnsRun, OwnsAlone, Collecting, Normalizing, Live, Ended
<1>7. LoopCovers'
  <2>1. At(j, "fetch") /\ cur[j] \in RunId
    BY DEF OwnsRun, Collecting, Normalizing
  <2>2. Covered(j, lost[j])
    BY <2>1 DEF LoopCovers
  <2>3. Covered(j, lost[j])'
    BY <2>1, <2>2 DEF Covered
  <2>4. ASSUME NEW i \in Job, i # j
        PROVE  /\ pc'[i] \in {"fetch", "record"} => Covered(i, lost[i])'
               /\ pc'[i] = "succeed" => Covered(i, partial[cur[i]])'
               /\ pc'[i] \in {"record", "succeed", "normalize"} => todo'[i] = {}
    BY <2>1, <2>4 DEF LoopCovers, Covered
  <2>5. /\ pc'[j] \in {"record", "succeed", "normalize"} => todo'[j] = {}
        /\ pc'[j] = "succeed" => Covered(j, partial[cur[j]])'
    BY <2>1, <2>2 DEF Covered
  <2> QED BY <2>3, <2>4, <2>5 DEF LoopCovers
<1>8. SourcesAreGood'
  BY DEF RowsExist, SourcesAreGood, GoodSource, OwnsRun, Collecting,
      Normalizing, Live, Ended
<1>9. SuccessIsComplete'
  BY DEF RowsExist, SuccessIsComplete, LoopCovers, Covered, OwnsRun,
      Collecting, Normalizing, Live, Ended
<1>10. LakeTraceable'
  BY DEF RowsExist, LakeTraceable, SourcesAreGood, GoodSource, OwnsRun,
      Collecting, Normalizing, Live, Ended
<1>11. clock' > 0
  OBVIOUS
<1> QED BY <1>1, <1>2, <1>3, <1>4, <1>5, <1>6, <1>7, <1>8, <1>9, <1>10, <1>11

\* RecordPartial keeps IInv.
LEMMA RecordPartialInv ==
    ASSUME IInv, NEW j \in Job, RecordPartial(j)
    PROVE  IInv'
<1> USE BoundsAreNat DEF RunId, At, IInv, TypeOK, TablesOK, LakeOK, ProcOK,
    RecordPartial, table, Goto, proc
<1>1. TablesOK'
  BY DEF OwnsRun, Collecting, Normalizing, Version
<1>2. LakeOK'
  BY DEF OwnsRun, Collecting, Normalizing, SourcesAreGood, GoodSource, Version
<1>3. ProcOK'
  BY DEF PC, Live, Ended, Endpoint
<1>4. RowsExist'
  BY DEF RowsExist, OwnsRun, Collecting, Normalizing
<1>5. OwnsRun'
  BY DEF RowsExist, OwnsRun, OwnsAlone, Collecting, Normalizing, Live, Ended
<1>6. OwnsAlone'
  BY DEF RowsExist, OwnsRun, OwnsAlone, Collecting, Normalizing, Live, Ended
<1>7. LoopCovers'
  BY DEF Version, Endpoint, LoopCovers, Covered, OwnsRun, OwnsAlone,
      Collecting, Normalizing, Live, Ended
<1>8. SourcesAreGood'
  BY DEF RowsExist, SourcesAreGood, GoodSource, OwnsRun, Collecting,
      Normalizing, Live, Ended
<1>9. SuccessIsComplete'
  BY DEF RowsExist, SuccessIsComplete, LoopCovers, Covered, OwnsRun,
      Collecting, Normalizing, Live, Ended
<1>10. LakeTraceable'
  BY DEF RowsExist, LakeTraceable, SourcesAreGood, GoodSource, OwnsRun,
      Collecting, Normalizing, Live, Ended
<1>11. clock' > 0
  OBVIOUS
<1> QED BY <1>1, <1>2, <1>3, <1>4, <1>5, <1>6, <1>7, <1>8, <1>9, <1>10, <1>11

\* RecordPartialError keeps IInv.
LEMMA RecordPartialErrorInv ==
    ASSUME IInv, NEW j \in Job, RecordPartialError(j)
    PROVE  IInv'
<1> USE BoundsAreNat DEF RunId, At, IInv, TypeOK, TablesOK, LakeOK, ProcOK,
    RecordPartialError, table, Goto, proc
<1>1. TablesOK'
  <2>1. CASE UNCHANGED partial
    BY <2>1 DEF OwnsRun, Collecting, Normalizing, Version
  <2>2. CASE partial' = [partial EXCEPT ![cur[j]] = lost[j]]
    BY <2>2 DEF OwnsRun, Collecting, Normalizing, Version
  <2> QED BY <2>1, <2>2
<1>2. LakeOK'
  BY DEF OwnsRun, Collecting, Normalizing, SourcesAreGood, GoodSource, Version
<1>3. ProcOK'
  BY DEF PC, Live, Ended, Endpoint
<1>4. RowsExist'
  BY DEF RowsExist, OwnsRun, Collecting, Normalizing
<1>5. OwnsRun'
  BY DEF RowsExist, OwnsRun, OwnsAlone, Collecting, Normalizing, Live, Ended
<1>6. OwnsAlone'
  BY DEF RowsExist, OwnsRun, OwnsAlone, Collecting, Normalizing, Live, Ended
<1>7. LoopCovers'
  <2>1. CASE UNCHANGED partial
    BY <2>1 DEF Version, Endpoint, LoopCovers, Covered, OwnsRun, OwnsAlone,
        Collecting, Normalizing, Live, Ended
  <2>2. CASE partial' = [partial EXCEPT ![cur[j]] = lost[j]]
    BY <2>2 DEF Version, Endpoint, LoopCovers, Covered, OwnsRun, OwnsAlone,
        Collecting, Normalizing, Live, Ended
  <2> QED BY <2>1, <2>2
<1>8. SourcesAreGood'
  BY DEF RowsExist, SourcesAreGood, GoodSource, OwnsRun, Collecting,
      Normalizing, Live, Ended
<1>9. SuccessIsComplete'
  <2>1. CASE UNCHANGED partial
    BY <2>1 DEF RowsExist, SuccessIsComplete, LoopCovers, Covered, OwnsRun,
        Collecting, Normalizing, Live, Ended
  <2>2. CASE partial' = [partial EXCEPT ![cur[j]] = lost[j]]
    BY <2>2 DEF RowsExist, SuccessIsComplete, LoopCovers, Covered, OwnsRun,
        Collecting, Normalizing, Live, Ended
  <2> QED BY <2>1, <2>2
<1>10. LakeTraceable'
  BY DEF RowsExist, LakeTraceable, SourcesAreGood, GoodSource, OwnsRun,
      Collecting, Normalizing, Live, Ended
<1>11. clock' > 0
  OBVIOUS
<1> QED BY <1>1, <1>2, <1>3, <1>4, <1>5, <1>6, <1>7, <1>8, <1>9, <1>10, <1>11

\* MarkSuccess keeps IInv.
LEMMA MarkSuccessInv ==
    ASSUME IInv, NEW j \in Job, MarkSuccess(j)
    PROVE  IInv'
<1> USE BoundsAreNat DEF RunId, At, IInv, TypeOK, TablesOK, LakeOK, ProcOK,
    MarkSuccess, table, Goto, SetStatus
<1>1. TablesOK'
  BY DEF OwnsRun, Collecting, Normalizing, Version
<1>2. LakeOK'
  BY DEF OwnsRun, Collecting, Normalizing, SourcesAreGood, GoodSource, Version
<1>3. ProcOK'
  BY DEF PC, Live, Ended, Endpoint
<1>4. RowsExist'
  BY DEF RowsExist, OwnsRun, Collecting, Normalizing
<1>5. OwnsRun'
  BY DEF RowsExist, OwnsRun, OwnsAlone, Collecting, Normalizing, Live, Ended
<1>6. OwnsAlone'
  BY DEF RowsExist, OwnsRun, OwnsAlone, Collecting, Normalizing, Live, Ended
<1>7. LoopCovers'
  BY DEF Version, Endpoint, LoopCovers, Covered, OwnsRun, OwnsAlone,
      Collecting, Normalizing, Live, Ended
<1>8. SourcesAreGood'
  BY DEF RowsExist, SourcesAreGood, GoodSource, OwnsRun, Collecting,
      Normalizing, Live, Ended
<1>9. SuccessIsComplete'
  BY DEF RowsExist, SuccessIsComplete, LoopCovers, Covered, OwnsRun,
      Collecting, Normalizing, Live, Ended
<1>10. LakeTraceable'
  BY DEF RowsExist, LakeTraceable, SourcesAreGood, GoodSource, OwnsRun,
      Collecting, Normalizing, Live, Ended
<1>11. clock' > 0
  OBVIOUS
<1> QED BY <1>1, <1>2, <1>3, <1>4, <1>5, <1>6, <1>7, <1>8, <1>9, <1>10, <1>11

\* MarkSuccessError keeps IInv.
LEMMA MarkSuccessErrorInv ==
    ASSUME IInv, NEW j \in Job, MarkSuccessError(j)
    PROVE  IInv'
<1> USE BoundsAreNat DEF RunId, At, IInv, TypeOK, TablesOK, LakeOK, ProcOK,
    MarkSuccessError, table, Exit, SetStatus, Goto
<1>1. TablesOK'
  BY DEF OwnsRun, Collecting, Normalizing, Version
<1>2. LakeOK'
  BY DEF OwnsRun, Collecting, Normalizing, SourcesAreGood, GoodSource, Version
<1>3. ProcOK'
  BY DEF PC, Live, Ended, Endpoint
<1>4. RowsExist'
  BY DEF RowsExist, OwnsRun, Collecting, Normalizing
<1>5. OwnsRun'
  BY DEF RowsExist, OwnsRun, OwnsAlone, Collecting, Normalizing, Live, Ended
<1>6. OwnsAlone'
  BY DEF RowsExist, OwnsRun, OwnsAlone, Collecting, Normalizing, Live, Ended
<1>7. LoopCovers'
  BY DEF Version, Endpoint, LoopCovers, Covered, OwnsRun, OwnsAlone,
      Collecting, Normalizing, Live, Ended
<1>8. SourcesAreGood'
  BY SMTT(30) DEF RowsExist, SourcesAreGood, GoodSource, OwnsRun, Collecting,
      Normalizing, Live, Ended
<1>9. SuccessIsComplete'
  BY DEF RowsExist, SuccessIsComplete, LoopCovers, Covered, OwnsRun,
      Collecting, Normalizing, Live, Ended
<1>10. LakeTraceable'
  BY DEF RowsExist, LakeTraceable, SourcesAreGood, GoodSource, OwnsRun,
      Collecting, Normalizing, Live, Ended
<1>11. clock' > 0
  OBVIOUS
<1> QED BY <1>1, <1>2, <1>3, <1>4, <1>5, <1>6, <1>7, <1>8, <1>9, <1>10, <1>11

\* MarkFailed keeps IInv.
LEMMA MarkFailedInv ==
    ASSUME IInv, NEW j \in Job, MarkFailed(j)
    PROVE  IInv'
<1> USE BoundsAreNat DEF RunId, At, IInv, TypeOK, TablesOK, LakeOK, ProcOK,
    MarkFailed, table, Exit, SetStatus, Goto
<1>1. TablesOK'
  BY ZenonT(30) DEF OwnsRun, Collecting, Normalizing, Version
<1>2. LakeOK'
  BY DEF OwnsRun, Collecting, Normalizing, SourcesAreGood, GoodSource, Version
<1>3. ProcOK'
  BY DEF PC, Live, Ended, Endpoint
<1>4. RowsExist'
  BY DEF RowsExist, OwnsRun, Collecting, Normalizing
<1>5. OwnsRun'
  BY DEF RowsExist, OwnsRun, OwnsAlone, Collecting, Normalizing, Live, Ended
<1>6. OwnsAlone'
  BY DEF RowsExist, OwnsRun, OwnsAlone, Collecting, Normalizing, Live, Ended
<1>7. LoopCovers'
  BY DEF Version, Endpoint, LoopCovers, Covered, OwnsRun, OwnsAlone,
      Collecting, Normalizing, Live, Ended
<1>8. SourcesAreGood'
  <2>1. cur[j] \in RunId /\ status[cur[j]] = "running"
    BY DEF OwnsRun, Collecting, Normalizing
  <2>2. \A s \in RunId : GoodSource(s) => GoodSource(s)' /\ blob'[s] = blob[s]
    BY <2>1 DEF GoodSource
  <2> QED BY <2>1, <2>2, SourcesStable
<1>9. SuccessIsComplete'
  BY DEF RowsExist, SuccessIsComplete, LoopCovers, Covered, OwnsRun,
      Collecting, Normalizing, Live, Ended
<1>10. LakeTraceable'
  <2>1. cur[j] \in RunId /\ status[cur[j]] = "running"
    BY DEF OwnsRun, Collecting, Normalizing
  <2>2. \A s \in RunId : GoodSource(s) => GoodSource(s)' /\ blob'[s] = blob[s]
    BY <2>1 DEF GoodSource
  <2> QED BY <2>1, <2>2, LakeStable
<1>11. clock' > 0
  OBVIOUS
<1> QED BY <1>1, <1>2, <1>3, <1>4, <1>5, <1>6, <1>7, <1>8, <1>9, <1>10, <1>11

\* Retry keeps IInv.
LEMMA RetryInv ==
    ASSUME IInv, NEW j \in Job, Retry(j)
    PROVE  IInv'
<1> USE BoundsAreNat DEF RunId, At, IInv, TypeOK, TablesOK, LakeOK, ProcOK,
    Retry, table, Goto
<1>1. TablesOK'
  BY DEF OwnsRun, Collecting, Normalizing, Version
<1>2. LakeOK'
  BY DEF OwnsRun, Collecting, Normalizing, SourcesAreGood, GoodSource, Version
<1>3. ProcOK'
  BY DEF PC, Live, Ended, Endpoint
<1>4. RowsExist'
  BY DEF RowsExist, OwnsRun, Collecting, Normalizing
<1>5. OwnsRun'
  BY DEF RowsExist, OwnsRun, OwnsAlone, Collecting, Normalizing, Live, Ended
<1>6. OwnsAlone'
  BY DEF RowsExist, OwnsRun, OwnsAlone, Collecting, Normalizing, Live, Ended
<1>7. LoopCovers'
  BY DEF Version, Endpoint, LoopCovers, Covered, OwnsRun, OwnsAlone,
      Collecting, Normalizing, Live, Ended
<1>8. SourcesAreGood'
  BY DEF RowsExist, SourcesAreGood, GoodSource, OwnsRun, Collecting,
      Normalizing, Live, Ended
<1>9. SuccessIsComplete'
  BY DEF RowsExist, SuccessIsComplete, LoopCovers, Covered, OwnsRun,
      Collecting, Normalizing, Live, Ended
<1>10. LakeTraceable'
  BY DEF RowsExist, LakeTraceable, SourcesAreGood, GoodSource, OwnsRun,
      Collecting, Normalizing, Live, Ended
<1>11. clock' > 0
  OBVIOUS
<1> QED BY <1>1, <1>2, <1>3, <1>4, <1>5, <1>6, <1>7, <1>8, <1>9, <1>10, <1>11

\* GiveUp keeps IInv.
LEMMA GiveUpInv ==
    ASSUME IInv, NEW j \in Job, GiveUp(j)
    PROVE  IInv'
<1> USE BoundsAreNat DEF RunId, At, IInv, TypeOK, TablesOK, LakeOK, ProcOK,
    GiveUp, table, EndJob, Goto
<1>1. TablesOK'
  BY DEF OwnsRun, Collecting, Normalizing, Version
<1>2. LakeOK'
  BY DEF OwnsRun, Collecting, Normalizing, SourcesAreGood, GoodSource, Version
<1>3. ProcOK'
  BY DEF PC, Live, Ended, Endpoint
<1>4. RowsExist'
  BY DEF RowsExist, OwnsRun, Collecting, Normalizing
<1>5. OwnsRun'
  BY DEF RowsExist, OwnsRun, OwnsAlone, Collecting, Normalizing, Live, Ended
<1>6. OwnsAlone'
  BY DEF RowsExist, OwnsRun, OwnsAlone, Collecting, Normalizing, Live, Ended
<1>7. LoopCovers'
  BY DEF Version, Endpoint, LoopCovers, Covered, OwnsRun, OwnsAlone,
      Collecting, Normalizing, Live, Ended
<1>8. SourcesAreGood'
  BY DEF RowsExist, SourcesAreGood, GoodSource, OwnsRun, Collecting,
      Normalizing, Live, Ended
<1>9. SuccessIsComplete'
  BY DEF RowsExist, SuccessIsComplete, LoopCovers, Covered, OwnsRun,
      Collecting, Normalizing, Live, Ended
<1>10. LakeTraceable'
  BY DEF RowsExist, LakeTraceable, SourcesAreGood, GoodSource, OwnsRun,
      Collecting, Normalizing, Live, Ended
<1>11. clock' > 0
  OBVIOUS
<1> QED BY <1>1, <1>2, <1>3, <1>4, <1>5, <1>6, <1>7, <1>8, <1>9, <1>10, <1>11

\* OpenNormalize keeps IInv.
LEMMA OpenNormalizeInv ==
    ASSUME IInv, NEW j \in Job, OpenNormalize(j)
    PROVE  IInv'
<1> USE BoundsAreNat DEF RunId, At, IInv, TypeOK, TablesOK, LakeOK, ProcOK,
    OpenNormalize, table, Goto, InsertRun, Source, LatestSuccess
<1>1. TablesOK'
  BY DEF OwnsRun, Collecting, Normalizing, Version
<1>2. LakeOK'
  BY DEF OwnsRun, Collecting, Normalizing, SourcesAreGood, GoodSource, Version
<1>3. ProcOK'
  BY DEF PC, Live, Ended, Endpoint
<1>4. RowsExist'
  BY DEF RowsExist, OwnsRun, Collecting, Normalizing
<1>5. OwnsRun'
  BY DEF RowsExist, OwnsRun, OwnsAlone, Collecting, Normalizing, Live, Ended
<1>6. OwnsAlone'
  BY NewIdIsFree DEF OwnsAlone
<1>7. LoopCovers'
  BY DEF Version, Endpoint, LoopCovers, Covered, OwnsRun, OwnsAlone,
      Collecting, Normalizing, Live, Ended
<1>8. SourcesAreGood'
  BY DEF RowsExist, SourcesAreGood, GoodSource, OwnsRun, Collecting,
      Normalizing, Live, Ended
<1>9. SuccessIsComplete'
  BY DEF RowsExist, SuccessIsComplete, LoopCovers, Covered, OwnsRun,
      Collecting, Normalizing, Live, Ended
<1>10. LakeTraceable'
  BY DEF RowsExist, LakeTraceable, SourcesAreGood, GoodSource, OwnsRun,
      Collecting, Normalizing, Live, Ended
<1>11. clock' > 0
  OBVIOUS
<1> QED BY <1>1, <1>2, <1>3, <1>4, <1>5, <1>6, <1>7, <1>8, <1>9, <1>10, <1>11

\* OpenNormalizeError keeps IInv.
LEMMA OpenNormalizeErrorInv ==
    ASSUME IInv, NEW j \in Job, OpenNormalizeError(j)
    PROVE  IInv'
<1> USE BoundsAreNat DEF RunId, At, IInv, TypeOK, TablesOK, LakeOK, ProcOK,
    OpenNormalizeError, table, EndJob, InsertRun, Source, LatestSuccess, Goto
<1>1. TablesOK'
  <2>1. CASE UNCHANGED <<nextId, status, label, sourceOf>>
    BY <2>1 DEF OwnsRun, Collecting, Normalizing, Version
  <2>2. CASE InsertRun("normalize") /\ (\E s \in Source(j) : sourceOf' = [sourceOf EXCEPT ![nextId + 1] = s])
    BY <2>2 DEF OwnsRun, Collecting, Normalizing, Version
  <2> QED BY <2>1, <2>2
<1>2. LakeOK'
  BY DEF OwnsRun, Collecting, Normalizing, SourcesAreGood, GoodSource, Version
<1>3. ProcOK'
  BY DEF PC, Live, Ended, Endpoint
<1>4. RowsExist'
  BY OpenNormalizeErrorRows
<1>5. OwnsRun'
  <2>1. CASE UNCHANGED <<nextId, status, label, sourceOf>>
    BY <2>1 DEF RowsExist, OwnsRun, OwnsAlone, Collecting, Normalizing, Live,
        Ended
  <2>2. CASE InsertRun("normalize") /\ (\E s \in Source(j) : sourceOf' = [sourceOf EXCEPT ![nextId + 1] = s])
    BY <2>2 DEF RowsExist, OwnsRun, OwnsAlone, Collecting, Normalizing, Live,
        Ended
  <2> QED BY <2>1, <2>2
<1>6. OwnsAlone'
  BY DEF RowsExist, OwnsRun, OwnsAlone, Collecting, Normalizing, Live, Ended
<1>7. LoopCovers'
  BY DEF Version, Endpoint, LoopCovers, Covered, OwnsRun, OwnsAlone,
      Collecting, Normalizing, Live, Ended
<1>8. SourcesAreGood'
  BY OpenNormalizeErrorRows
<1>9. SuccessIsComplete'
  BY SMTT(30) DEF RowsExist, SuccessIsComplete, LoopCovers, Covered, OwnsRun,
      Collecting, Normalizing, Live, Ended
<1>10. LakeTraceable'
  BY OpenNormalizeErrorRows
<1>11. clock' > 0
  OBVIOUS
<1> QED BY <1>1, <1>2, <1>3, <1>4, <1>5, <1>6, <1>7, <1>8, <1>9, <1>10, <1>11

\* What is laid over the lake has the types of a run and its payloads.
LEMMA LaidIsTyped ==
    ASSUME IInv, NEW j \in Job, pc[j] = "upsert", WriteLake(sourceOf[cur[j]], cur[j]), UNCHANGED blob
    PROVE  LakeOK'
<1>1. cur[j] \in RunId /\ sourceOf[cur[j]] \in RunId
  BY DEF IInv, OwnsRun, Normalizing, SourcesAreGood, GoodSource
<1>2. LakeOK /\ cur[j] \in 0..MaxRuns /\ blob[sourceOf[cur[j]]] \in [Endpoint -> Version]
  BY <1>1 DEF IInv, TypeOK, LakeOK, ProcOK
<1>3. lake' \in [Endpoint -> Version] /\ lakeRun' \in [Endpoint -> 0..MaxRuns]
  BY <1>2 DEF WriteLake, LakeOK
<1> QED BY <1>2, <1>3 DEF LakeOK

\* Upsert keeps IInv.
LEMMA UpsertInv ==
    ASSUME IInv, NEW j \in Job, Upsert(j)
    PROVE  IInv'
<1> USE BoundsAreNat DEF RunId, At, IInv, TypeOK, TablesOK, LakeOK, ProcOK,
    Upsert, table, Goto, proc, WriteLake
<1>1. TablesOK'
  BY DEF OwnsRun, Collecting, Normalizing, Version
<1>2. LakeOK'
  BY LaidIsTyped
<1>3. ProcOK'
  BY DEF PC, Live, Ended, Endpoint
<1>4. RowsExist'
  BY DEF RowsExist, OwnsRun, Collecting, Normalizing
<1>5. OwnsRun'
  BY DEF RowsExist, OwnsRun, OwnsAlone, Collecting, Normalizing, Live, Ended
<1>6. OwnsAlone'
  BY DEF RowsExist, OwnsRun, OwnsAlone, Collecting, Normalizing, Live, Ended
<1>7. LoopCovers'
  BY DEF Version, Endpoint, LoopCovers, Covered, OwnsRun, OwnsAlone,
      Collecting, Normalizing, Live, Ended
<1>8. SourcesAreGood'
  BY DEF RowsExist, SourcesAreGood, GoodSource, OwnsRun, Collecting,
      Normalizing, Live, Ended
<1>9. SuccessIsComplete'
  BY DEF RowsExist, SuccessIsComplete, LoopCovers, Covered, OwnsRun,
      Collecting, Normalizing, Live, Ended
<1>10. LakeTraceable'
  BY ZenonT(30) DEF RowsExist, LakeTraceable, SourcesAreGood, GoodSource, OwnsRun,
      Collecting, Normalizing, Live, Ended
<1>11. clock' > 0
  OBVIOUS
<1> QED BY <1>1, <1>2, <1>3, <1>4, <1>5, <1>6, <1>7, <1>8, <1>9, <1>10, <1>11

\* UpsertRaise keeps IInv.
LEMMA UpsertRaiseInv ==
    ASSUME IInv, NEW j \in Job, UpsertRaise(j)
    PROVE  IInv'
<1> USE BoundsAreNat DEF RunId, At, IInv, TypeOK, TablesOK, LakeOK, ProcOK,
    UpsertRaise, table, Goto, proc, WriteLake
<1>1. TablesOK'
  BY DEF OwnsRun, Collecting, Normalizing, Version
<1>2. LakeOK'
  <2>1. CASE UNCHANGED <<lake, lakeRun>>
    BY <2>1 DEF OwnsRun, Collecting, Normalizing, SourcesAreGood, GoodSource,
        Version
  <2>2. CASE WriteLake(sourceOf[cur[j]], cur[j])
    BY <2>2, LaidIsTyped
  <2> QED BY <2>1, <2>2
<1>3. ProcOK'
  BY DEF PC, Live, Ended, Endpoint
<1>4. RowsExist'
  BY DEF RowsExist, OwnsRun, Collecting, Normalizing
<1>5. OwnsRun'
  BY DEF RowsExist, OwnsRun, OwnsAlone, Collecting, Normalizing, Live, Ended
<1>6. OwnsAlone'
  BY DEF RowsExist, OwnsRun, OwnsAlone, Collecting, Normalizing, Live, Ended
<1>7. LoopCovers'
  BY DEF Version, Endpoint, LoopCovers, Covered, OwnsRun, OwnsAlone,
      Collecting, Normalizing, Live, Ended
<1>8. SourcesAreGood'
  BY DEF RowsExist, SourcesAreGood, GoodSource, OwnsRun, Collecting,
      Normalizing, Live, Ended
<1>9. SuccessIsComplete'
  BY DEF RowsExist, SuccessIsComplete, LoopCovers, Covered, OwnsRun,
      Collecting, Normalizing, Live, Ended
<1>10. LakeTraceable'
  BY DEF RowsExist, LakeTraceable, SourcesAreGood, GoodSource, OwnsRun,
      Collecting, Normalizing, Live, Ended
<1>11. clock' > 0
  OBVIOUS
<1> QED BY <1>1, <1>2, <1>3, <1>4, <1>5, <1>6, <1>7, <1>8, <1>9, <1>10, <1>11

\* MarkNormalized keeps IInv.
LEMMA MarkNormalizedInv ==
    ASSUME IInv, NEW j \in Job, MarkNormalized(j)
    PROVE  IInv'
<1> USE BoundsAreNat DEF RunId, At, IInv, TypeOK, TablesOK, LakeOK, ProcOK,
    MarkNormalized, table, EndJob, SetStatus, Goto
<1>1. TablesOK'
  BY DEF OwnsRun, Collecting, Normalizing, Version
<1>2. LakeOK'
  BY DEF OwnsRun, Collecting, Normalizing, SourcesAreGood, GoodSource, Version
<1>3. ProcOK'
  BY DEF PC, Live, Ended, Endpoint
<1>4. RowsExist'
  BY DEF RowsExist, OwnsRun, Collecting, Normalizing
<1>5. OwnsRun'
  BY DEF RowsExist, OwnsRun, OwnsAlone, Collecting, Normalizing, Live, Ended
<1>6. OwnsAlone'
  BY DEF RowsExist, OwnsRun, OwnsAlone, Collecting, Normalizing, Live, Ended
<1>7. LoopCovers'
  BY DEF Version, Endpoint, LoopCovers, Covered, OwnsRun, OwnsAlone,
      Collecting, Normalizing, Live, Ended
<1>8. SourcesAreGood'
  BY DEF RowsExist, SourcesAreGood, GoodSource, OwnsRun, Collecting,
      Normalizing, Live, Ended
<1>9. SuccessIsComplete'
  BY DEF RowsExist, SuccessIsComplete, LoopCovers, Covered, OwnsRun,
      Collecting, Normalizing, Live, Ended
<1>10. LakeTraceable'
  BY DEF RowsExist, LakeTraceable, SourcesAreGood, GoodSource, OwnsRun,
      Collecting, Normalizing, Live, Ended
<1>11. clock' > 0
  OBVIOUS
<1> QED BY <1>1, <1>2, <1>3, <1>4, <1>5, <1>6, <1>7, <1>8, <1>9, <1>10, <1>11

\* MarkNormalizedError keeps IInv.
LEMMA MarkNormalizedErrorInv ==
    ASSUME IInv, NEW j \in Job, MarkNormalizedError(j)
    PROVE  IInv'
<1> USE BoundsAreNat DEF RunId, At, IInv, TypeOK, TablesOK, LakeOK, ProcOK,
    MarkNormalizedError, table, EndJob, SetStatus, Goto
<1>1. TablesOK'
  BY DEF OwnsRun, Collecting, Normalizing, Version
<1>2. LakeOK'
  BY DEF OwnsRun, Collecting, Normalizing, SourcesAreGood, GoodSource, Version
<1>3. ProcOK'
  BY DEF PC, Live, Ended, Endpoint
<1>4. RowsExist'
  BY DEF RowsExist, OwnsRun, Collecting, Normalizing
<1>5. OwnsRun'
  BY DEF RowsExist, OwnsRun, OwnsAlone, Collecting, Normalizing, Live, Ended
<1>6. OwnsAlone'
  BY DEF RowsExist, OwnsRun, OwnsAlone, Collecting, Normalizing, Live, Ended
<1>7. LoopCovers'
  BY DEF Version, Endpoint, LoopCovers, Covered, OwnsRun, OwnsAlone,
      Collecting, Normalizing, Live, Ended
<1>8. SourcesAreGood'
  <2>1. cur[j] \in RunId /\ status[cur[j]] = "running"
    BY DEF OwnsRun, Collecting, Normalizing
  <2>2. \A s \in RunId : GoodSource(s) => GoodSource(s)' /\ blob'[s] = blob[s]
    BY <2>1 DEF GoodSource
  <2> QED BY <2>1, <2>2, SourcesStable
<1>9. SuccessIsComplete'
  BY DEF RowsExist, SuccessIsComplete, LoopCovers, Covered, OwnsRun,
      Collecting, Normalizing, Live, Ended
<1>10. LakeTraceable'
  <2>1. cur[j] \in RunId /\ status[cur[j]] = "running"
    BY DEF OwnsRun, Collecting, Normalizing
  <2>2. \A s \in RunId : GoodSource(s) => GoodSource(s)' /\ blob'[s] = blob[s]
    BY <2>1 DEF GoodSource
  <2> QED BY <2>1, <2>2, LakeStable
<1>11. clock' > 0
  OBVIOUS
<1> QED BY <1>1, <1>2, <1>3, <1>4, <1>5, <1>6, <1>7, <1>8, <1>9, <1>10, <1>11

\* MarkNormalizeFailed keeps IInv.
LEMMA MarkNormalizeFailedInv ==
    ASSUME IInv, NEW j \in Job, MarkNormalizeFailed(j)
    PROVE  IInv'
<1> USE BoundsAreNat DEF RunId, At, IInv, TypeOK, TablesOK, LakeOK, ProcOK,
    MarkNormalizeFailed, table, EndJob, SetStatus, Goto
<1>1. TablesOK'
  BY DEF OwnsRun, Collecting, Normalizing, Version
<1>2. LakeOK'
  BY DEF OwnsRun, Collecting, Normalizing, SourcesAreGood, GoodSource, Version
<1>3. ProcOK'
  BY DEF PC, Live, Ended, Endpoint
<1>4. RowsExist'
  BY DEF RowsExist, OwnsRun, Collecting, Normalizing
<1>5. OwnsRun'
  BY DEF RowsExist, OwnsRun, OwnsAlone, Collecting, Normalizing, Live, Ended
<1>6. OwnsAlone'
  BY DEF RowsExist, OwnsRun, OwnsAlone, Collecting, Normalizing, Live, Ended
<1>7. LoopCovers'
  BY DEF Version, Endpoint, LoopCovers, Covered, OwnsRun, OwnsAlone,
      Collecting, Normalizing, Live, Ended
<1>8. SourcesAreGood'
  <2>1. cur[j] \in RunId /\ status[cur[j]] = "running"
    BY DEF OwnsRun, Collecting, Normalizing
  <2>2. \A s \in RunId : GoodSource(s) => GoodSource(s)' /\ blob'[s] = blob[s]
    BY <2>1 DEF GoodSource
  <2> QED BY <2>1, <2>2, SourcesStable
<1>9. SuccessIsComplete'
  BY DEF RowsExist, SuccessIsComplete, LoopCovers, Covered, OwnsRun,
      Collecting, Normalizing, Live, Ended
<1>10. LakeTraceable'
  <2>1. cur[j] \in RunId /\ status[cur[j]] = "running"
    BY DEF OwnsRun, Collecting, Normalizing
  <2>2. \A s \in RunId : GoodSource(s) => GoodSource(s)' /\ blob'[s] = blob[s]
    BY <2>1 DEF GoodSource
  <2> QED BY <2>1, <2>2, LakeStable
<1>11. clock' > 0
  OBVIOUS
<1> QED BY <1>1, <1>2, <1>3, <1>4, <1>5, <1>6, <1>7, <1>8, <1>9, <1>10, <1>11

\* IInv holds in every reachable state.
LEMMA Inductive == Spec => []IInv
<1>1. Init => IInv
  BY BoundsAreNat DEF Init, IInv, TypeOK, TablesOK, LakeOK, ProcOK, PC, Ended,
      RunId, Version, RowsExist, OwnsRun, OwnsAlone, Collecting, Normalizing,
      LoopCovers, SourcesAreGood, SuccessIsComplete, LakeTraceable
<1>2. IInv /\ [Next]_vars => IInv'
  <2> SUFFICES ASSUME IInv, [Next]_vars PROVE IInv'
    OBVIOUS
  <2>1. CASE UNCHANGED vars
    <3> USE <2>1 DEF vars, table, proc
    <3>1. TypeOK' /\ clock' > 0
      BY DEF IInv, TypeOK, TablesOK, LakeOK, ProcOK
    <3>2. RowsExist' /\ OwnsRun' /\ OwnsAlone'
      BY DEF IInv, RowsExist, OwnsRun, OwnsAlone, Collecting, Normalizing
    <3>3. LoopCovers' /\ SourcesAreGood' /\ SuccessIsComplete' /\ LakeTraceable'
      BY DEF IInv, LoopCovers, Covered, SourcesAreGood, GoodSource,
          SuccessIsComplete, LakeTraceable
    <3> QED BY <3>1, <3>2, <3>3 DEF IInv
  <2>2. CASE Tick
    <3> USE <2>2 DEF Tick, table, proc
    <3>1. TypeOK' /\ clock' > 0
      BY BoundsAreNat DEF IInv, TypeOK, TablesOK, LakeOK, ProcOK, Version
    <3>2. RowsExist' /\ OwnsRun' /\ OwnsAlone'
      BY DEF IInv, RowsExist, OwnsRun, OwnsAlone, Collecting, Normalizing
    <3>3. LoopCovers' /\ SourcesAreGood' /\ SuccessIsComplete' /\ LakeTraceable'
      BY DEF IInv, LoopCovers, Covered, SourcesAreGood, GoodSource,
          SuccessIsComplete, LakeTraceable
    <3> QED BY <3>1, <3>2, <3>3 DEF IInv
  <2>3. CASE AllEnded
    BY <2>1, <2>3 DEF AllEnded
  <2>4. ASSUME NEW j \in Job, StartJob(j) PROVE IInv'
    BY <2>4, StartJobInv
  <2>5. ASSUME NEW j \in Job, Kill(j) PROVE IInv'
    BY <2>5, KillInv
  <2>6. ASSUME NEW j \in Job, CollectStep(j) PROVE IInv'
    <3>1. CASE OpenRun(j)
      BY <3>1, OpenRunInv
    <3>2. CASE OpenRunError(j)
      BY <3>2, OpenRunErrorInv
    <3>3. ASSUME NEW e \in Endpoint, FetchStore(j, e) PROVE IInv'
      BY <3>3, FetchStoreInv
    <3>4. ASSUME NEW e \in Endpoint, FetchSoft(j, e) PROVE IInv'
      BY <3>4, FetchSoftInv
    <3>5. ASSUME NEW e \in Endpoint, FetchRaise(j, e) PROVE IInv'
      BY <3>5, FetchRaiseInv
    <3>6. CASE LoopDone(j)
      BY <3>6, LoopDoneInv
    <3>7. CASE RecordPartial(j)
      BY <3>7, RecordPartialInv
    <3>8. CASE RecordPartialError(j)
      BY <3>8, RecordPartialErrorInv
    <3>9. CASE MarkSuccess(j)
      BY <3>9, MarkSuccessInv
    <3>10. CASE MarkSuccessError(j)
      BY <3>10, MarkSuccessErrorInv
    <3>11. CASE MarkFailed(j)
      BY <3>11, MarkFailedInv
    <3>12. CASE Retry(j)
      BY <3>12, RetryInv
    <3>13. CASE GiveUp(j)
      BY <3>13, GiveUpInv
    <3> QED BY <2>6, <3>1, <3>2, <3>3, <3>4, <3>5, <3>6, <3>7, <3>8, <3>9, <3>10, <3>11, <3>12, <3>13
        DEF CollectStep
  <2>7. ASSUME NEW j \in Job, NormalizeStep(j) PROVE IInv'
    <3>1. CASE OpenNormalize(j)
      BY <3>1, OpenNormalizeInv
    <3>2. CASE OpenNormalizeError(j)
      BY <3>2, OpenNormalizeErrorInv
    <3>3. CASE Upsert(j)
      BY <3>3, UpsertInv
    <3>4. CASE UpsertRaise(j)
      BY <3>4, UpsertRaiseInv
    <3>5. CASE MarkNormalized(j)
      BY <3>5, MarkNormalizedInv
    <3>6. CASE MarkNormalizedError(j)
      BY <3>6, MarkNormalizedErrorInv
    <3>7. CASE MarkNormalizeFailed(j)
      BY <3>7, MarkNormalizeFailedInv
    <3> QED BY <2>7, <3>1, <3>2, <3>3, <3>4, <3>5, <3>6, <3>7
        DEF NormalizeStep
  <2> QED BY <2>1, <2>2, <2>3, <2>4, <2>5, <2>6, <2>7 DEF Next, JobStep
<1> QED BY <1>1, <1>2, PTL DEF Spec

\* Every variable keeps its type, through every handler of db.ingest_run,
\* collect, normalize and retry.sh.
THEOREM TypeCorrect == Spec => []TypeOK
BY Inductive, PTL DEF IInv

\* A collector run marked success has a blob of every required target, and a
\* blob or a partial_endpoints entry of every other.
THEOREM SuccessComplete == Spec => []SuccessIsComplete
BY Inductive, PTL DEF IInv

\* Every lake row leads back to the blob of a successful collector run it was
\* written from, however many jobs overlap, fail or are killed.
THEOREM Traceable == Spec => []LakeTraceable
BY Inductive, PTL DEF IInv

\* What one step leaves alone: the row, the partial list and the blobs of every
\* run already finished.
Frame == \A r \in RunId : status[r] \in {"success", "failed"} =>
            /\ status'[r] = status[r] /\ label'[r] = label[r]
            /\ partial'[r] = partial[r] /\ blob'[r] = blob[r]

LEMMA StepFrame ==
    ASSUME IInv, [Next]_vars
    PROVE  Frame
<1> USE BoundsAreNat DEF At, Frame
<1>1. \A j \in Job : cur[j] # 0 => status[cur[j]] = "running"
  BY DEF IInv, OwnsRun
<1>2. \A r \in RunId : r = nextId + 1 => status[r] = "none"
  BY DEF IInv, TypeOK, TablesOK, RowsExist
<1>3. \A j \in Job : Collecting(j) \/ Normalizing(j) => cur[j] \in RunId /\ cur[j] # 0
  BY DEF IInv, OwnsRun, RunId
<1> USE <1>1, <1>2, <1>3 DEF IInv, TypeOK, TablesOK, LakeOK, Collecting, Normalizing
<1>4. CASE UNCHANGED vars
  BY <1>4 DEF vars, table
<1>5. CASE Tick
  BY <1>5 DEF Tick, table
<1>6. CASE AllEnded
  BY <1>4, <1>6 DEF AllEnded
<1>7. ASSUME NEW j \in Job, StartJob(j) \/ Kill(j) PROVE Frame
  BY <1>7 DEF StartJob, Kill, table
<1>8. ASSUME NEW j \in Job, JobStep(j) PROVE Frame
  <2>4. CASE CollectStep(j)
    <3>1. CASE OpenRun(j)
      BY <3>1 DEF OpenRun, table, Goto, InsertRun
    <3>2. CASE OpenRunError(j)
      BY <3>2 DEF OpenRunError, table, Exit, InsertRun, Goto
    <3>3. ASSUME NEW e \in Endpoint, FetchStore(j, e) PROVE Frame
      BY <3>3 DEF FetchStore, table
    <3>4. ASSUME NEW e \in Endpoint, FetchSoft(j, e) PROVE Frame
      BY <3>4 DEF FetchSoft, table
    <3>5. ASSUME NEW e \in Endpoint, FetchRaise(j, e) PROVE Frame
      BY <3>5 DEF FetchRaise, table, Goto, proc
    <3>6. CASE LoopDone(j)
      BY <3>6 DEF LoopDone, table, Goto, proc
    <3>7. CASE RecordPartial(j)
      BY <3>7 DEF RecordPartial, table, Goto, proc
    <3>8. CASE RecordPartialError(j)
      BY <3>8 DEF RecordPartialError, table, Goto, proc
    <3>9. CASE MarkSuccess(j)
      BY <3>9 DEF MarkSuccess, table, Goto, SetStatus
    <3>10. CASE MarkSuccessError(j)
      BY <3>10 DEF MarkSuccessError, table, Exit, SetStatus, Goto
    <3>11. CASE MarkFailed(j)
      BY <3>11 DEF MarkFailed, table, Exit, SetStatus, Goto
    <3>12. CASE Retry(j)
      BY <3>12 DEF Retry, table, Goto
    <3>13. CASE GiveUp(j)
      BY <3>13 DEF GiveUp, table, EndJob, Goto
    <3> QED BY <2>4, <3>1, <3>2, <3>3, <3>4, <3>5, <3>6, <3>7, <3>8, <3>9, <3>10, <3>11, <3>12, <3>13
        DEF CollectStep
  <2>5. CASE NormalizeStep(j)
    <3>1. CASE OpenNormalize(j)
      BY <3>1 DEF OpenNormalize, table, Goto, InsertRun, Source, LatestSuccess
    <3>2. CASE OpenNormalizeError(j)
      BY <3>2 DEF OpenNormalizeError, table, EndJob, InsertRun, Source,
          LatestSuccess, Goto
    <3>3. CASE Upsert(j)
      BY <3>3 DEF Upsert, table, Goto, proc, WriteLake
    <3>4. CASE UpsertRaise(j)
      BY <3>4 DEF UpsertRaise, table, Goto, proc, WriteLake
    <3>5. CASE MarkNormalized(j)
      BY <3>5 DEF MarkNormalized, table, EndJob, SetStatus, Goto
    <3>6. CASE MarkNormalizedError(j)
      BY <3>6 DEF MarkNormalizedError, table, EndJob, SetStatus, Goto
    <3>7. CASE MarkNormalizeFailed(j)
      BY <3>7 DEF MarkNormalizeFailed, table, EndJob, SetStatus, Goto
    <3> QED BY <2>5, <3>1, <3>2, <3>3, <3>4, <3>5, <3>6, <3>7
        DEF NormalizeStep
  <2> QED BY <1>8, <2>4, <2>5 DEF JobStep
<1> QED BY <1>4, <1>5, <1>6, <1>7, <1>8 DEF Next

\* No step changes the status, the partial list or a blob of a finished run.
THEOREM FinishedFinal == Spec => FinishedIsFinal
<1>1. IInv /\ [Next]_vars =>
        [\A r \in RunId : status[r] \in {"success", "failed"} =>
            /\ status'[r] = status[r]
            /\ partial'[r] = partial[r]
            /\ blob'[r] = blob[r]]_vars
  BY StepFrame DEF Frame
<1> QED BY <1>1, Inductive, PTL DEF Spec, FinishedIsFinal

Successful(r) == label[r] = "collect" /\ status[r] = "success"

\* Steps that finish no collector run and leave the lake alone are stutters of
\* LakePublication.
LEMMA QuietStep ==
    ASSUME IInv, Frame, lake' = lake,
           \A r \in RunId : Successful(r)' => Successful(r)
    PROVE  UNCHANGED <<PublishedRuns, lake>>
<1>1. \A r \in RunId : Successful(r) => Successful(r)' /\ blob'[r] = blob[r]
  BY DEF Frame, Successful
<1> QED BY <1>1 DEF PublishedRuns, Successful

\* A collector run turning success is a Publish.
LEMMA SuccessPublishes ==
    ASSUME IInv, Frame, NEW j \in Job, At(j, "succeed"),
           SetStatus(cur[j], "success"), UNCHANGED <<label, blob, lake>>
    PROVE  Publication!Next
<1> DEFINE r == cur[j]
<1>1. /\ r \in RunId /\ label[r] = "collect" /\ status[r] = "running"
  BY DEF IInv, OwnsRun, At, Collecting, RunId
<1>2. \A e \in Required : blob[r][e] # 0
  BY DEF IInv, LoopCovers, Covered, At
<1>3. blob[r] \in [Endpoint -> Version]
  BY <1>1 DEF IInv, TypeOK, LakeOK
<1>4. PublishedRuns' = PublishedRuns \cup {[run |-> r, payload |-> blob[r]]}
  <2>1. \A q \in RunId : status'[q] = IF q = r THEN "success" ELSE status[q]
    BY <1>1 DEF SetStatus, IInv, TypeOK, TablesOK
  <2>2. {q \in RunId : label'[q] = "collect" /\ status'[q] = "success"}
        = {q \in RunId : label[q] = "collect" /\ status[q] = "success"} \cup {r}
    BY <1>1, <2>1
  <2> QED BY <2>2 DEF PublishedRuns
<1>5. \A q \in PublishedRuns : q.run # r
  BY <1>1 DEF PublishedRuns
<1> HIDE DEF r
<1> QED BY <1>1, <1>2, <1>3, <1>4, <1>5
    DEF Publication!Next, Publication!Publish, Endpoint, Publication!Endpoint

\* A normalizer's commit lays one published run over the lake.
LEMMA WriteLays ==
    ASSUME IInv, NEW s, GoodSource(s), NEW n, WriteLake(s, n), UNCHANGED PublishedRuns
    PROVE  Publication!Next
<1>1. [run |-> s, payload |-> blob[s]] \in PublishedRuns
  BY DEF GoodSource, PublishedRuns
<1> QED BY <1>1 DEF WriteLake, Publication!Next, Publication!Lay, Endpoint,
    Publication!Endpoint

AbstractStep == Publication!Next \/ UNCHANGED <<PublishedRuns, lake>>

\* The pipeline implements LakePublication.
THEOREM Implements == Spec => ImplementsPublication
<1>1. Init => Publication!Init
  BY DEF Init, Publication!Init, PublishedRuns, Endpoint, Publication!Endpoint
<1>2. ASSUME IInv, [Next]_vars PROVE AbstractStep
  <2> USE BoundsAreNat DEF At, AbstractStep
  <2>0. Frame
    BY <1>2, StepFrame
  <2>1. IInv
    BY <1>2
  <2>2. /\ \A j \in Job : Collecting(j) \/ Normalizing(j) =>
                cur[j] \in RunId /\ status[cur[j]] = "running"
        /\ \A j \in Job : Normalizing(j) => label[cur[j]] = "normalize"
    BY <2>1 DEF IInv, OwnsRun, RunId
  <2>3. /\ status \in [RunId -> {"none", "running", "success", "failed"}]
        /\ label \in [RunId -> {"none", "collect", "normalize"}]
    BY <2>1 DEF IInv, TypeOK, TablesOK
  <2> USE <2>0, <2>1, <2>2, <2>3 DEF Collecting, Normalizing
  <2>6. ASSUME NEW j \in Job, CollectStep(j) PROVE AbstractStep
    <3>1. CASE OpenRun(j)
      <4>1. \A r \in RunId : Successful(r)' => Successful(r)
        BY <3>1 DEF OpenRun, table, Goto, InsertRun, Successful
      <4> QED BY <3>1, <4>1, QuietStep DEF OpenRun
    <3>2. CASE OpenRunError(j)
      <4>1. \A r \in RunId : Successful(r)' => Successful(r)
        BY <3>2 DEF OpenRunError, table, Exit, InsertRun, Goto, Successful
      <4> QED BY <3>2, <4>1, QuietStep DEF OpenRunError
    <3>3. ASSUME NEW e \in Endpoint, FetchStore(j, e) PROVE AbstractStep
      <4>1. \A r \in RunId : Successful(r)' => Successful(r)
        BY <3>3 DEF FetchStore, table, Successful
      <4> QED BY <3>3, <4>1, QuietStep DEF FetchStore
    <3>4. ASSUME NEW e \in Endpoint, FetchSoft(j, e) PROVE AbstractStep
      <4>1. \A r \in RunId : Successful(r)' => Successful(r)
        BY <3>4 DEF FetchSoft, table, Successful
      <4> QED BY <3>4, <4>1, QuietStep DEF FetchSoft
    <3>5. ASSUME NEW e \in Endpoint, FetchRaise(j, e) PROVE AbstractStep
      <4>1. \A r \in RunId : Successful(r)' => Successful(r)
        BY <3>5 DEF FetchRaise, table, Goto, proc, Successful
      <4> QED BY <3>5, <4>1, QuietStep DEF FetchRaise
    <3>6. CASE LoopDone(j)
      <4>1. \A r \in RunId : Successful(r)' => Successful(r)
        BY <3>6 DEF LoopDone, table, Goto, proc, Successful
      <4> QED BY <3>6, <4>1, QuietStep DEF LoopDone
    <3>7. CASE RecordPartial(j)
      <4>1. \A r \in RunId : Successful(r)' => Successful(r)
        BY <3>7 DEF RecordPartial, table, Goto, proc, Successful
      <4> QED BY <3>7, <4>1, QuietStep DEF RecordPartial
    <3>8. CASE RecordPartialError(j)
      <4>1. \A r \in RunId : Successful(r)' => Successful(r)
        BY <3>8 DEF RecordPartialError, table, Goto, proc, Successful
      <4> QED BY <3>8, <4>1, QuietStep DEF RecordPartialError
    <3>9. CASE MarkSuccess(j)
      <4>1. CASE SetStatus(cur[j], "success")
        BY <3>9, <4>1, SuccessPublishes DEF MarkSuccess
      <4>2. CASE UNCHANGED status
        BY <3>9, <4>2, QuietStep DEF MarkSuccess, Successful
      <4> QED BY <3>9, <4>1, <4>2 DEF MarkSuccess
    <3>10. CASE MarkSuccessError(j)
      <4>1. CASE SetStatus(cur[j], "success")
        BY <3>10, <4>1, SuccessPublishes DEF MarkSuccessError
      <4>2. CASE UNCHANGED status
        BY <3>10, <4>2, QuietStep DEF MarkSuccessError, Successful
      <4> QED BY <3>10, <4>1, <4>2 DEF MarkSuccessError
    <3>11. CASE MarkFailed(j)
      <4>1. \A r \in RunId : Successful(r)' => Successful(r)
        BY <3>11 DEF MarkFailed, table, Exit, SetStatus, Goto, Successful
      <4> QED BY <3>11, <4>1, QuietStep DEF MarkFailed
    <3>12. CASE Retry(j)
      <4>1. \A r \in RunId : Successful(r)' => Successful(r)
        BY <3>12 DEF Retry, table, Goto, Successful
      <4> QED BY <3>12, <4>1, QuietStep DEF Retry
    <3>13. CASE GiveUp(j)
      <4>1. \A r \in RunId : Successful(r)' => Successful(r)
        BY <3>13 DEF GiveUp, table, EndJob, Goto, Successful
      <4> QED BY <3>13, <4>1, QuietStep DEF GiveUp
    <3> QED BY <2>6, <3>1, <3>2, <3>3, <3>4, <3>5, <3>6, <3>7, <3>8, <3>9, <3>10, <3>11, <3>12, <3>13
        DEF CollectStep
  <2>7. ASSUME NEW j \in Job, NormalizeStep(j) PROVE AbstractStep
    <3>1. CASE OpenNormalize(j)
      <4>1. \A r \in RunId : Successful(r)' => Successful(r)
        BY <3>1 DEF OpenNormalize, table, Goto, InsertRun, Source,
            LatestSuccess, Successful
      <4> QED BY <3>1, <4>1, QuietStep DEF OpenNormalize
    <3>2. CASE OpenNormalizeError(j)
      <4>1. \A r \in RunId : Successful(r)' => Successful(r)
        BY <3>2 DEF OpenNormalizeError, table, EndJob, InsertRun, Source,
            LatestSuccess, Goto, Successful
      <4> QED BY <3>2, <4>1, QuietStep DEF OpenNormalizeError
    <3>3. CASE Upsert(j)
      <4>1. GoodSource(sourceOf[cur[j]])
        BY <3>3 DEF IInv, OwnsRun, Normalizing, SourcesAreGood, Upsert, At
      <4>2. UNCHANGED PublishedRuns
        BY <3>3 DEF Upsert, table, PublishedRuns
      <4>3. CASE WriteLake(sourceOf[cur[j]], cur[j])
        BY <4>1, <4>2, <4>3, WriteLays
      <4>4. CASE UNCHANGED <<lake, lakeRun>>
        BY <4>2, <4>4
      <4> QED BY <3>3, <4>3, <4>4 DEF Upsert
    <3>4. CASE UpsertRaise(j)
      <4>1. GoodSource(sourceOf[cur[j]])
        BY <3>4 DEF IInv, OwnsRun, Normalizing, SourcesAreGood, UpsertRaise, At
      <4>2. UNCHANGED PublishedRuns
        BY <3>4 DEF UpsertRaise, table, PublishedRuns
      <4>3. CASE WriteLake(sourceOf[cur[j]], cur[j])
        BY <4>1, <4>2, <4>3, WriteLays
      <4>4. CASE UNCHANGED <<lake, lakeRun>>
        BY <4>2, <4>4
      <4> QED BY <3>4, <4>3, <4>4 DEF UpsertRaise
    <3>5. CASE MarkNormalized(j)
      <4>1. \A r \in RunId : Successful(r)' => Successful(r)
        BY <3>5 DEF MarkNormalized, table, EndJob, SetStatus, Goto, Successful
      <4> QED BY <3>5, <4>1, QuietStep DEF MarkNormalized
    <3>6. CASE MarkNormalizedError(j)
      <4>1. \A r \in RunId : Successful(r)' => Successful(r)
        BY <3>6 DEF MarkNormalizedError, table, EndJob, SetStatus, Goto,
            Successful
      <4> QED BY <3>6, <4>1, QuietStep DEF MarkNormalizedError
    <3>7. CASE MarkNormalizeFailed(j)
      <4>1. \A r \in RunId : Successful(r)' => Successful(r)
        BY <3>7 DEF MarkNormalizeFailed, table, EndJob, SetStatus, Goto,
            Successful
      <4> QED BY <3>7, <4>1, QuietStep DEF MarkNormalizeFailed
    <3> QED BY <2>7, <3>1, <3>2, <3>3, <3>4, <3>5, <3>6, <3>7
        DEF NormalizeStep
  <2>8. CASE UNCHANGED vars
    BY <2>8 DEF vars, table, PublishedRuns
  <2>9. CASE Tick \/ AllEnded
    BY <2>8, <2>9 DEF Tick, AllEnded, table, PublishedRuns
  <2>10. ASSUME NEW j \in Job, StartJob(j) \/ Kill(j) PROVE AbstractStep
    BY <2>10 DEF StartJob, Kill, table, PublishedRuns
  <2> QED BY <1>2, <2>6, <2>7, <2>8, <2>9, <2>10 DEF Next, JobStep
<1>3. IInv /\ [Next]_vars => [Publication!Next]_<<PublishedRuns, lake>>
  BY <1>2 DEF AbstractStep
<1>4. IInv /\ [Next]_vars => [Publication!Next]_(Publication!pubvars)
  BY <1>3 DEF Publication!pubvars
<1> QED BY <1>1, <1>4, Inductive, PTL
    DEF Spec, ImplementsPublication, Publication!Spec

-----------------------------------------------------------------------------
\* One job runs at a time: the self-hosted runner takes the next when one has ended.
OneJob == \A i, j \in Job : i = j

\* While one job runs at a time, the run it is collecting, or has just
\* collected, is the last row of the table.
CollectsLastRow == \A j \in Job :
    /\ pc[j] \in {"fetch", "record", "succeed"} => cur[j] = nextId
    /\ pc[j] = "normalize" => out[j] = nextId

\* A normalizer's source is the run its job collected, pinned or not.
Pinned == ConsumesOwnRun /\ (OneJob => CollectsLastRow)

\* No payload is ahead of upstream, and a row not yet inserted has none.
PayloadsArePast ==
    /\ \A r \in RunId, e \in Endpoint : blob[r][e] <= clock /\ (r > nextId => blob[r][e] = 0)
    /\ \A e \in Endpoint : lake[e] <= clock

\* The lake is at most as new as what a run has stored.
NotOlder(s) == \A e \in Endpoint : blob[s][e] # 0 => lake[e] <= blob[s][e]

\* What one job at a time has collected is not older than the lake it is to be
\* laid over.
LakeCatchesUp == \A j \in Job :
    /\ pc[j] \in {"fetch", "record", "succeed"} => NotOlder(cur[j])
    /\ pc[j] \in {"normalize", "upsert"} => NotOlder(out[j])
    /\ pc[j] = "nsucceed" => \A e \in Endpoint : blob[out[j]][e] <= lake[e]

\* The row a normalizer opens names the run its own job collected.
LEMMA PinnedStep ==
    ASSUME IInv, Pinned, PinRun \/ OneJob, [Next]_vars
    PROVE  Pinned'
<1> USE BoundsAreNat DEF At, Pinned, ConsumesOwnRun, CollectsLastRow, OneJob
<1>1. \A i \in Job : cur[i] # nextId + 1
  BY NewIdIsFree
<1>2. /\ nextId \in Nat
      /\ sourceOf \in [RunId -> 0..MaxRuns] /\ pc \in [Job -> PC]
      /\ cur \in [Job -> 0..MaxRuns] /\ out \in [Job -> 0..MaxRuns]
  BY DEF IInv, TypeOK, TablesOK, ProcOK
<1>3. \A j \in Job : pc[j] \in {"upsert", "nsucceed", "nraise"} => cur[j] \in RunId
  BY DEF IInv, OwnsRun, Normalizing
<1> USE <1>1, <1>2, <1>3
<1>4. CASE UNCHANGED vars
  BY <1>4 DEF vars, table, proc
<1>5. CASE Tick
  BY <1>5 DEF Tick, table, proc
<1>6. CASE AllEnded
  BY <1>4, <1>6 DEF AllEnded
<1>7. ASSUME NEW j \in Job, StartJob(j) \/ Kill(j) PROVE Pinned'
  BY <1>7 DEF StartJob, Kill, EndJob, Goto, table
<1>8. ASSUME NEW j \in Job, CollectStep(j) PROVE Pinned'
  <2>1. CASE OpenRun(j)
    BY <2>1 DEF OpenRun, Goto, InsertRun
  <2>2. CASE OpenRunError(j)
    BY <2>2 DEF OpenRunError, Exit, InsertRun, Goto
  <2>3. ASSUME NEW e \in Endpoint, FetchStore(j, e) PROVE Pinned'
    BY <2>3 DEF FetchStore, table
  <2>4. ASSUME NEW e \in Endpoint, FetchSoft(j, e) PROVE Pinned'
    BY <2>4 DEF FetchSoft, table
  <2>5. ASSUME NEW e \in Endpoint, FetchRaise(j, e) PROVE Pinned'
    BY <2>5 DEF FetchRaise, table, Goto, proc
  <2>6. CASE LoopDone(j)
    BY <2>6 DEF LoopDone, table, Goto, proc
  <2>7. CASE RecordPartial(j)
    BY <2>7 DEF RecordPartial, Goto, proc
  <2>8. CASE RecordPartialError(j)
    BY <2>8 DEF RecordPartialError, Goto, proc
  <2>9. CASE MarkSuccess(j)
    BY <2>9 DEF MarkSuccess, Goto, SetStatus
  <2>10. CASE MarkSuccessError(j)
    BY <2>10 DEF MarkSuccessError, Exit, SetStatus, Goto
  <2>11. CASE MarkFailed(j)
    BY <2>11 DEF MarkFailed, Exit, SetStatus, Goto
  <2>12. CASE Retry(j)
    BY <2>12 DEF Retry, table, Goto
  <2>13. CASE GiveUp(j)
    BY <2>13 DEF GiveUp, table, EndJob, Goto
  <2> QED BY <1>8, <2>1, <2>2, <2>3, <2>4, <2>5, <2>6, <2>7, <2>8, <2>9, <2>10, <2>11, <2>12, <2>13
      DEF CollectStep
<1>9. ASSUME NEW j \in Job, NormalizeStep(j) PROVE Pinned'
  <2>1. CASE OpenNormalize(j)
    <3>1. \A s \in Source(j) : s = out[j]
      BY SMTT(30), <2>1 DEF Source, LatestSuccess, OpenNormalize, IInv, SourcesAreGood, GoodSource, RowsExist, RunId
    <3> QED BY <2>1, <3>1 DEF OpenNormalize, Goto, InsertRun, RunId
  <2>2. CASE OpenNormalizeError(j)
    BY <2>2 DEF OpenNormalizeError, EndJob, InsertRun, Goto
  <2>3. CASE Upsert(j)
    BY <2>3 DEF Upsert, table, Goto, proc, WriteLake
  <2>4. CASE UpsertRaise(j)
    BY <2>4 DEF UpsertRaise, table, Goto, proc, WriteLake
  <2>5. CASE MarkNormalized(j)
    BY <2>5 DEF MarkNormalized, EndJob, SetStatus, Goto
  <2>6. CASE MarkNormalizedError(j)
    BY <2>6 DEF MarkNormalizedError, EndJob, SetStatus, Goto
  <2>7. CASE MarkNormalizeFailed(j)
    BY <2>7 DEF MarkNormalizeFailed, EndJob, SetStatus, Goto
  <2> QED BY <1>9, <2>1, <2>2, <2>3, <2>4, <2>5, <2>6, <2>7
      DEF NormalizeStep
<1> QED BY <1>4, <1>5, <1>6, <1>7, <1>8, <1>9 DEF Next, JobStep

\* A payload is stored as upstream has it now.
LEMMA StoreKeepsPast ==
    ASSUME IInv, PayloadsArePast, NEW q \in RunId, q <= nextId, NEW e \in Endpoint,
           blob' = blob \/ blob' = [blob EXCEPT ![q][e] = clock], UNCHANGED <<clock, nextId, lake>>
    PROVE  PayloadsArePast'
<1>1. /\ nextId \in Nat /\ clock \in Nat
      /\ blob \in [RunId -> [Endpoint -> Version]]
  BY BoundsAreNat DEF IInv, TypeOK, TablesOK, LakeOK, Version
<1>2. \A r \in RunId, x \in Endpoint :
         blob'[r][x] = blob[r][x] \/ (r = q /\ x = e /\ blob'[r][x] = clock)
  BY <1>1
<1>3. q \in Nat
  BY BoundsAreNat DEF RunId
<1> QED BY <1>1, <1>2, <1>3 DEF PayloadsArePast

\* No step brings a payload from the future, or gives one to a row to come.
LEMMA PayloadsStep ==
    ASSUME IInv, PayloadsArePast, [Next]_vars
    PROVE  PayloadsArePast'
<1> USE BoundsAreNat DEF At, PayloadsArePast, Version, RunId
<1>1. /\ nextId \in Nat /\ clock \in Nat
      /\ blob \in [RunId -> [Endpoint -> Version]]
      /\ lake \in [Endpoint -> Version]
      /\ sourceOf \in [RunId -> 0..MaxRuns] /\ pc \in [Job -> PC]
      /\ cur \in [Job -> 0..MaxRuns] /\ out \in [Job -> 0..MaxRuns]
  BY DEF IInv, TypeOK, TablesOK, LakeOK, ProcOK, Version
<1>2. \A i \in Job : Collecting(i) \/ Normalizing(i) => cur[i] \in RunId /\ cur[i] <= nextId
  BY DEF IInv, OwnsRun, RowsExist, TypeOK, TablesOK
<1>3. \A n \in RunId : label[n] = "normalize" => sourceOf[n] \in RunId
  BY DEF IInv, SourcesAreGood, GoodSource
<1>4. \A i \in Job : Normalizing(i) => label[cur[i]] = "normalize"
  BY DEF IInv, OwnsRun
<1> USE <1>1, <1>2, <1>3, <1>4 DEF Collecting, Normalizing
<1>5. CASE UNCHANGED vars
  BY <1>5 DEF vars, table, proc
<1>6. CASE Tick
  BY SMTT(30), <1>6 DEF Tick, table, proc
<1>7. CASE AllEnded
  BY <1>5, <1>7 DEF AllEnded
<1>8. ASSUME NEW j \in Job, StartJob(j) \/ Kill(j) PROVE PayloadsArePast'
  BY SMTT(30), <1>8 DEF StartJob, Kill, EndJob, Goto, table
<1>9. ASSUME NEW j \in Job, CollectStep(j) PROVE PayloadsArePast'
  <2>1. CASE OpenRun(j)
    BY <2>1 DEF OpenRun, Goto, InsertRun
  <2>2. CASE OpenRunError(j)
    BY <2>2 DEF OpenRunError, Exit, InsertRun, Goto
  <2>3. ASSUME NEW e \in Endpoint, FetchStore(j, e) PROVE PayloadsArePast'
    <3>1. cur[j] \in RunId /\ cur[j] <= nextId /\ UNCHANGED <<clock, nextId, lake>>
      BY <2>3 DEF FetchStore, table
    <3> QED BY <2>3, <3>1, StoreKeepsPast DEF FetchStore
  <2>4. ASSUME NEW e \in Endpoint, FetchSoft(j, e) PROVE PayloadsArePast'
    BY <2>4 DEF FetchSoft, table
  <2>5. ASSUME NEW e \in Endpoint, FetchRaise(j, e) PROVE PayloadsArePast'
    <3>1. cur[j] \in RunId /\ cur[j] <= nextId /\ UNCHANGED <<clock, nextId, lake>>
      BY <2>5 DEF FetchRaise, table
    <3> QED BY <2>5, <3>1, StoreKeepsPast DEF FetchRaise
  <2>6. CASE LoopDone(j)
    BY <2>6 DEF LoopDone, table, Goto, proc
  <2>7. CASE RecordPartial(j)
    BY <2>7 DEF RecordPartial, Goto, proc
  <2>8. CASE RecordPartialError(j)
    BY <2>8 DEF RecordPartialError, Goto, proc
  <2>9. CASE MarkSuccess(j)
    BY <2>9 DEF MarkSuccess, Goto, SetStatus
  <2>10. CASE MarkSuccessError(j)
    BY <2>10 DEF MarkSuccessError, Exit, SetStatus, Goto
  <2>11. CASE MarkFailed(j)
    BY <2>11 DEF MarkFailed, Exit, SetStatus, Goto
  <2>12. CASE Retry(j)
    BY <2>12 DEF Retry, table, Goto
  <2>13. CASE GiveUp(j)
    BY <2>13 DEF GiveUp, table, EndJob, Goto
  <2> QED BY <1>9, <2>1, <2>2, <2>3, <2>4, <2>5, <2>6, <2>7, <2>8, <2>9, <2>10, <2>11, <2>12, <2>13
      DEF CollectStep
<1>10. ASSUME NEW j \in Job, NormalizeStep(j) PROVE PayloadsArePast'
  <2>1. CASE OpenNormalize(j)
    BY <2>1 DEF OpenNormalize, Goto, InsertRun
  <2>2. CASE OpenNormalizeError(j)
    BY <2>2 DEF OpenNormalizeError, EndJob, InsertRun, Goto
  <2>3. CASE Upsert(j)
    BY <2>3 DEF Upsert, table, Goto, proc, WriteLake
  <2>4. CASE UpsertRaise(j)
    BY <2>4 DEF UpsertRaise, table, Goto, proc, WriteLake
  <2>5. CASE MarkNormalized(j)
    BY <2>5 DEF MarkNormalized, EndJob, SetStatus, Goto
  <2>6. CASE MarkNormalizedError(j)
    BY <2>6 DEF MarkNormalizedError, EndJob, SetStatus, Goto
  <2>7. CASE MarkNormalizeFailed(j)
    BY <2>7 DEF MarkNormalizeFailed, EndJob, SetStatus, Goto
  <2> QED BY <1>10, <2>1, <2>2, <2>3, <2>4, <2>5, <2>6, <2>7
      DEF NormalizeStep
<1> QED BY <1>5, <1>6, <1>7, <1>8, <1>9, <1>10 DEF Next, JobStep

\* Of one job at a time, every step keeps the lake no newer than what is to be
\* laid over it, and takes no row of it back.
LEMMA VisibleStep ==
    ASSUME IInv, OneJob, Pinned, PayloadsArePast, LakeCatchesUp, [Next]_vars
    PROVE  LakeCatchesUp' /\ \A e \in Endpoint : lake[e] <= lake'[e]
<1> DEFINE Goal == LakeCatchesUp' /\ \A e \in Endpoint : lake[e] <= lake'[e]
<1> USE BoundsAreNat DEF At, Version, RunId, OneJob, LakeCatchesUp, NotOlder, PayloadsArePast
<1>1. /\ nextId \in Nat /\ clock \in Nat
      /\ blob \in [RunId -> [Endpoint -> Version]]
      /\ lake \in [Endpoint -> Version]
      /\ sourceOf \in [RunId -> 0..MaxRuns] /\ pc \in [Job -> PC]
      /\ cur \in [Job -> 0..MaxRuns] /\ out \in [Job -> 0..MaxRuns]
  BY DEF IInv, TypeOK, TablesOK, LakeOK, ProcOK, Version
<1>2. \A i \in Job : Collecting(i) \/ Normalizing(i) => cur[i] \in RunId /\ cur[i] <= nextId
  BY DEF IInv, OwnsRun, RowsExist, TypeOK, TablesOK
<1>3. \A i \in Job : Normalizing(i) => sourceOf[cur[i]] = out[i]
  BY DEF Pinned, ConsumesOwnRun, Normalizing
<1>4. \A i \in Job : pc[i] = "normalize" \/ Normalizing(i) => out[i] \in RunId
  BY <1>3 DEF IInv, OwnsRun, SourcesAreGood, GoodSource
<1> USE <1>1, <1>2, <1>3, <1>4 DEF Collecting, Normalizing
<1>5. CASE UNCHANGED vars
  BY <1>5 DEF vars, table, proc
<1>6. CASE Tick
  BY <1>6 DEF Tick, table, proc
<1>7. CASE AllEnded
  BY <1>5, <1>7 DEF AllEnded
<1>8. ASSUME NEW j \in Job, StartJob(j) \/ Kill(j) PROVE Goal
  BY <1>8 DEF StartJob, Kill, EndJob, Goto, table
<1>9. ASSUME NEW j \in Job, CollectStep(j) PROVE Goal
  <2>1. CASE OpenRun(j)
    BY <2>1 DEF OpenRun, Goto, InsertRun
  <2>2. CASE OpenRunError(j)
    BY <2>2 DEF OpenRunError, Exit, InsertRun, Goto
  <2>3. ASSUME NEW e \in Endpoint, FetchStore(j, e) PROVE Goal
    <3>1. cur[j] \in RunId
      BY <2>3 DEF FetchStore
    <3>2. \A r \in RunId, x \in Endpoint :
             blob'[r][x] = blob[r][x] \/ (r = cur[j] /\ x = e /\ blob'[r][x] = clock)
      BY <2>3, <3>1 DEF FetchStore
    <3> QED BY SMTT(30), <2>3, <3>1, <3>2 DEF FetchStore, table
  <2>4. ASSUME NEW e \in Endpoint, FetchSoft(j, e) PROVE Goal
    BY <2>4 DEF FetchSoft, table
  <2>5. ASSUME NEW e \in Endpoint, FetchRaise(j, e) PROVE Goal
    BY SMTT(30), <2>5 DEF FetchRaise, table, Goto, proc
  <2>6. CASE LoopDone(j)
    BY <2>6 DEF LoopDone, table, Goto, proc
  <2>7. CASE RecordPartial(j)
    BY <2>7 DEF RecordPartial, Goto, proc
  <2>8. CASE RecordPartialError(j)
    BY <2>8 DEF RecordPartialError, Goto, proc
  <2>9. CASE MarkSuccess(j)
    BY <2>9 DEF MarkSuccess, Goto, SetStatus
  <2>10. CASE MarkSuccessError(j)
    BY <2>10 DEF MarkSuccessError, Exit, SetStatus, Goto
  <2>11. CASE MarkFailed(j)
    BY <2>11 DEF MarkFailed, Exit, SetStatus, Goto
  <2>12. CASE Retry(j)
    BY <2>12 DEF Retry, table, Goto
  <2>13. CASE GiveUp(j)
    BY <2>13 DEF GiveUp, table, EndJob, Goto
  <2> QED BY <1>9, <2>1, <2>2, <2>3, <2>4, <2>5, <2>6, <2>7, <2>8, <2>9, <2>10, <2>11, <2>12, <2>13
      DEF CollectStep
<1>10. ASSUME NEW j \in Job, NormalizeStep(j) PROVE Goal
  <2>1. CASE OpenNormalize(j)
    BY <2>1 DEF OpenNormalize, Goto, InsertRun
  <2>2. CASE OpenNormalizeError(j)
    BY <2>2 DEF OpenNormalizeError, EndJob, InsertRun, Goto
  <2>3. CASE Upsert(j)
    BY SMTT(30), <2>3 DEF Upsert, table, Goto, proc, WriteLake
  <2>4. CASE UpsertRaise(j)
    BY SMTT(30), <2>4 DEF UpsertRaise, table, Goto, proc, WriteLake
  <2>5. CASE MarkNormalized(j)
    BY <2>5 DEF MarkNormalized, EndJob, SetStatus, Goto
  <2>6. CASE MarkNormalizedError(j)
    BY <2>6 DEF MarkNormalizedError, EndJob, SetStatus, Goto
  <2>7. CASE MarkNormalizeFailed(j)
    BY <2>7 DEF MarkNormalizeFailed, EndJob, SetStatus, Goto
  <2> QED BY <1>10, <2>1, <2>2, <2>3, <2>4, <2>5, <2>6, <2>7
      DEF NormalizeStep
<1> QED BY <1>5, <1>6, <1>7, <1>8, <1>9, <1>10 DEF Next, JobStep

\* Where a successful normalizer run comes from in one step.
NormalizedFrom ==
    \A n \in RunId : status'[n] = "success" /\ label'[n] = "normalize" =>
        \/ status[n] = "success" /\ label[n] = "normalize" /\ sourceOf'[n] = sourceOf[n]
        \/ \E j \in Job : At(j, "nsucceed") /\ n = cur[j] /\ UNCHANGED <<blob, lake, sourceOf>>

\* Only the success UPDATE of a normalizer makes one.
LEMMA NormalizedFromWhere ==
    ASSUME IInv, [Next]_vars
    PROVE  NormalizedFrom
<1> USE BoundsAreNat DEF At, RunId, NormalizedFrom
<1>1. /\ nextId \in Nat
      /\ status \in [RunId -> {"none", "running", "success", "failed"}]
      /\ label \in [RunId -> {"none", "collect", "normalize"}]
      /\ sourceOf \in [RunId -> 0..MaxRuns]
  BY DEF IInv, TypeOK, TablesOK
<1>2. status[nextId + 1] # "success" \/ nextId + 1 \notin RunId
  BY <1>1 DEF IInv, RowsExist
<1>3. \A i \in Job : Collecting(i) => cur[i] \in RunId /\ label[cur[i]] = "collect"
  BY DEF IInv, OwnsRun
<1> USE <1>1, <1>2, <1>3 DEF Collecting
<1>4. CASE UNCHANGED vars
  BY <1>4 DEF vars, table, proc
<1>5. CASE Tick
  BY <1>5 DEF Tick, table, proc
<1>6. CASE AllEnded
  BY <1>4, <1>6 DEF AllEnded
<1>7. ASSUME NEW j \in Job, StartJob(j) \/ Kill(j) PROVE NormalizedFrom
  BY <1>7 DEF StartJob, Kill, EndJob, Goto, table
<1>8. ASSUME NEW j \in Job, CollectStep(j) PROVE NormalizedFrom
  <2>1. CASE OpenRun(j)
    BY <2>1 DEF OpenRun, Goto, InsertRun
  <2>2. CASE OpenRunError(j)
    BY <2>2 DEF OpenRunError, Exit, InsertRun, Goto
  <2>3. ASSUME NEW e \in Endpoint, FetchStore(j, e) PROVE NormalizedFrom
    BY <2>3 DEF FetchStore, table
  <2>4. ASSUME NEW e \in Endpoint, FetchSoft(j, e) PROVE NormalizedFrom
    BY <2>4 DEF FetchSoft, table
  <2>5. ASSUME NEW e \in Endpoint, FetchRaise(j, e) PROVE NormalizedFrom
    BY <2>5 DEF FetchRaise, table, Goto, proc
  <2>6. CASE LoopDone(j)
    BY <2>6 DEF LoopDone, table, Goto, proc
  <2>7. CASE RecordPartial(j)
    BY <2>7 DEF RecordPartial, Goto, proc
  <2>8. CASE RecordPartialError(j)
    BY <2>8 DEF RecordPartialError, Goto, proc
  <2>9. CASE MarkSuccess(j)
    BY <2>9 DEF MarkSuccess, Goto, SetStatus
  <2>10. CASE MarkSuccessError(j)
    BY <2>10 DEF MarkSuccessError, Exit, SetStatus, Goto
  <2>11. CASE MarkFailed(j)
    BY <2>11 DEF MarkFailed, Exit, SetStatus, Goto
  <2>12. CASE Retry(j)
    BY <2>12 DEF Retry, table, Goto
  <2>13. CASE GiveUp(j)
    BY <2>13 DEF GiveUp, table, EndJob, Goto
  <2> QED BY <1>8, <2>1, <2>2, <2>3, <2>4, <2>5, <2>6, <2>7, <2>8, <2>9, <2>10, <2>11, <2>12, <2>13
      DEF CollectStep
<1>9. ASSUME NEW j \in Job, NormalizeStep(j) PROVE NormalizedFrom
  <2>1. CASE OpenNormalize(j)
    BY <2>1 DEF OpenNormalize, Goto, InsertRun
  <2>2. CASE OpenNormalizeError(j)
    BY <2>2 DEF OpenNormalizeError, EndJob, InsertRun, Goto
  <2>3. CASE Upsert(j)
    BY <2>3 DEF Upsert, table, Goto, proc, WriteLake
  <2>4. CASE UpsertRaise(j)
    BY <2>4 DEF UpsertRaise, table, Goto, proc, WriteLake
  <2>5. CASE MarkNormalized(j)
    BY <2>5 DEF MarkNormalized, EndJob, SetStatus, Goto
  <2>6. CASE MarkNormalizedError(j)
    BY <2>6 DEF MarkNormalizedError, EndJob, SetStatus, Goto
  <2>7. CASE MarkNormalizeFailed(j)
    BY <2>7 DEF MarkNormalizeFailed, EndJob, SetStatus, Goto
  <2> QED BY <1>9, <2>1, <2>2, <2>3, <2>4, <2>5, <2>6, <2>7
      DEF NormalizeStep
<1> QED BY <1>4, <1>5, <1>6, <1>7, <1>8, <1>9 DEF Next, JobStep

\* A run that is normalized stays so: its payloads are final, and the lake does
\* not go back.
LEMMA NormalizedStep ==
    ASSUME IInv, IInv', OneJob, Pinned, PayloadsArePast, LakeCatchesUp, NormalizedIsVisible,
           [Next]_vars
    PROVE  NormalizedIsVisible'
<1>1. /\ blob' \in [RunId -> [Endpoint -> Version]]
      /\ lake \in [Endpoint -> Version] /\ lake' \in [Endpoint -> Version]
  BY DEF IInv, TypeOK, LakeOK
<1>2. Frame /\ NormalizedFrom /\ \A e \in Endpoint : lake[e] <= lake'[e]
  BY StepFrame, NormalizedFromWhere, VisibleStep
<1>3. ASSUME NEW n \in RunId, status[n] = "success", label[n] = "normalize",
             sourceOf'[n] = sourceOf[n], NEW e \in Endpoint
      PROVE  blob'[sourceOf'[n]][e] <= lake'[e]
  <2>1. GoodSource(sourceOf[n])
    BY <1>3 DEF IInv, SourcesAreGood
  <2>2. sourceOf[n] \in RunId /\ blob'[sourceOf[n]] = blob[sourceOf[n]]
    BY <1>2, <2>1 DEF Frame, GoodSource
  <2>3. blob'[sourceOf'[n]][e] <= lake[e] /\ lake[e] <= lake'[e]
    BY <1>2, <1>3, <2>2 DEF NormalizedIsVisible
  <2>4. blob'[sourceOf'[n]][e] \in Nat /\ lake[e] \in Nat /\ lake'[e] \in Nat
    BY <1>1, <1>3, <2>2 DEF Version
  <2> QED BY <2>3, <2>4
<1>4. ASSUME NEW j \in Job, At(j, "nsucceed"), UNCHANGED <<blob, lake, sourceOf>>, NEW e \in Endpoint
      PROVE  blob'[sourceOf'[cur[j]]][e] <= lake'[e]
  BY <1>4 DEF At, LakeCatchesUp, Pinned, ConsumesOwnRun
<1>5. ASSUME NEW n \in RunId, label'[n] = "normalize", status'[n] = "success"
      PROVE  \A e \in Endpoint : blob'[sourceOf'[n]][e] <= lake'[e]
  BY <1>2, <1>3, <1>4, <1>5 DEF NormalizedFrom
<1> QED BY <1>5 DEF NormalizedIsVisible

\* The run a job's normalizer reads is the one its own collector printed: by the
\* pin, or because nothing else runs meanwhile.
THEOREM ConsumesOwn == PinRun \/ OneJob => (Spec => []ConsumesOwnRun)
<1> SUFFICES ASSUME PinRun \/ OneJob PROVE Spec => []ConsumesOwnRun
  OBVIOUS
<1>1. Init => Pinned
  BY DEF Init, Pinned, ConsumesOwnRun, CollectsLastRow
<1>2. IInv /\ Pinned /\ [Next]_vars => Pinned'
  BY PinnedStep
<1>3. Pinned => ConsumesOwnRun
  BY DEF Pinned
<1> QED BY <1>1, <1>2, <1>3, Inductive, PTL DEF Spec

\* All of it together, for one job at a time.
LEMMA OneJobInductive ==
    OneJob => (Spec => [](Pinned /\ PayloadsArePast /\ LakeCatchesUp /\ NormalizedIsVisible))
<1> SUFFICES ASSUME OneJob
             PROVE  Spec => [](Pinned /\ PayloadsArePast /\ LakeCatchesUp /\ NormalizedIsVisible)
  OBVIOUS
<1>1. Init => Pinned /\ PayloadsArePast /\ LakeCatchesUp /\ NormalizedIsVisible
  BY DEF Init, Pinned, ConsumesOwnRun, CollectsLastRow, PayloadsArePast, LakeCatchesUp,
      NormalizedIsVisible, RunId
<1>2. IInv /\ IInv' /\ (Pinned /\ PayloadsArePast /\ LakeCatchesUp /\ NormalizedIsVisible) /\ [Next]_vars
      => (Pinned /\ PayloadsArePast /\ LakeCatchesUp /\ NormalizedIsVisible)'
  BY PinnedStep, PayloadsStep, VisibleStep, NormalizedStep
<1> QED BY <1>1, <1>2, Inductive, PTL DEF Spec

\* While one job runs at a time, whatever fails in it, a normalizer run that is a
\* success leaves the lake at least as new as the payloads it was given.
THEOREM NormalizedVisible == OneJob => (Spec => []NormalizedIsVisible)
<1> SUFFICES ASSUME OneJob PROVE Spec => []NormalizedIsVisible
  OBVIOUS
<1> QED BY OneJobInductive, PTL

\* And no row goes back to an older payload.
THEOREM NeverRegresses == OneJob => (Spec => NoRegress)
<1> SUFFICES ASSUME OneJob PROVE Spec => NoRegress
  OBVIOUS
<1>1. IInv /\ (Pinned /\ PayloadsArePast /\ LakeCatchesUp /\ NormalizedIsVisible) /\ [Next]_vars
      => [\A e \in Endpoint : lake[e] <= lake'[e]]_vars
  BY VisibleStep
<1> QED BY <1>1, Inductive, OneJobInductive, PTL DEF Spec, NoRegress
=============================================================================
