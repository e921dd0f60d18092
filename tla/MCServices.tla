------------------------------ MODULE MCServices ------------------------------
(***************************************************************************)
(* The HTTP client and the backlogs of filings, which share nothing,       *)
(* checked side by side: a behaviour is one of the module that subject     *)
(* names, and in the other's state no step with a fairness condition is    *)
(* enabled.                                                                *)
(***************************************************************************)
EXTENDS HttpClient

CONSTANTS
    Filings, Limit, MaxDeaths, Kinds    \* FilingBacklog's

VARIABLES
    subject,
    pipeline, fate, filed, listed, pending, stage, documents, marks, holdings, deaths

Backlog == INSTANCE FilingBacklog

backlogVars == <<pipeline, fate, filed, listed, pending, stage, documents, marks, holdings, deaths>>
MCVars      == <<subject, vars, backlogVars>>

NoBacklog ==
    /\ pipeline = "none" /\ fate = [f \in 1..Filings |-> "gone"] /\ filed = {} /\ listed = {}
    /\ pending = {} /\ stage = "idle" /\ documents = {} /\ marks = {} /\ holdings = {} /\ deaths = 0

MCInit ==
    /\ subject \in {"http", "backlog"}
    /\ Init
    /\ IF subject = "backlog" THEN Backlog!Init ELSE NoBacklog

MCNext ==
    /\ UNCHANGED subject
    /\ \/ subject = "http" /\ Next /\ UNCHANGED backlogVars
       \/ subject = "backlog" /\ Backlog!Next /\ UNCHANGED vars

MCSpec ==
    /\ MCInit /\ [][MCNext]_MCVars
    /\ WF_vars(Tick) /\ \A t \in Thread : WF_vars(Step(t))
    /\ Backlog!Fairness

-----------------------------------------------------------------------------
\* FilingBacklog: every document that can be had and read reaches its table.
FilingsArrive == Backlog!FilingsArrive

\* FilingBacklog: what carries a mark is stored, or has nothing to store.
MarkedIsStored == Backlog!MarkedIsStored
=============================================================================
