------------------------------ MODULE AlertReplay ------------------------------
(***************************************************************************)
(* AlertEngine with a history: the events that runs which persisted have   *)
(* read.                                                                   *)
(***************************************************************************)
EXTENDS MCAlertEngine

VARIABLE seen

InitReplay == Init /\ seen = {}

NextReplay ==
    /\ Next
    /\ seen' = seen \cup UNION {read[r] : r \in {q \in Runner : At(q, "persist") /\ pc'[q] = "query"}}

SpecReplay == InitReplay /\ [][NextReplay]_<<vars, seen>>

\* alerts-daily.yml: "a re-run over the trailing window inserts nothing and
\* notifies nothing for stacks already seen": a run whose events had all been
\* read by runs that persisted before it, none of them changed or withdrawn
\* since, inserts no alert.
ReplayIsQuiet ==
    [][\A r \in Runner : At(r, "persist") /\ read[r] \subseteq seen /\ seen \subseteq events =>
          open' \subseteq open]_<<vars, seen>>
=============================================================================
