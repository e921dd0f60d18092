--------------------------- MODULE LakePublication ---------------------------
(***************************************************************************)
(* What a source's pipeline promises its readers, without processes,       *)
(* retries or bookkeeping: a collector run is published whole or not at    *)
(* all, a published run never changes, and the lake only ever moves by     *)
(* laying one published run over it in one step.                           *)
(***************************************************************************)
EXTENDS Naturals

CONSTANTS Required, Optional, Runs, Version

Endpoint == Required \cup Optional

VARIABLES published,   \* set of [run, payload] records
          lake         \* endpoint -> payload, 0 is none

pubvars == <<published, lake>>

Init ==
    /\ published = {}
    /\ lake = [e \in Endpoint |-> 0]

\* A run not published before appears with all its required payloads.
Publish(r, p) ==
    /\ \A q \in published : q.run # r
    /\ \A e \in Required : p[e] # 0
    /\ published' = published \cup {[run |-> r, payload |-> p]}
    /\ UNCHANGED lake

\* All payloads of one published run replace the lake's, the rest stays.
Lay(q) ==
    /\ lake' = [e \in Endpoint |-> IF q.payload[e] # 0 THEN q.payload[e] ELSE lake[e]]
    /\ UNCHANGED published

Next ==
    \/ \E r \in Runs : \E p \in [Endpoint -> Version] : Publish(r, p)
    \/ \E q \in published : Lay(q)

Spec == Init /\ [][Next]_pubvars
=============================================================================
