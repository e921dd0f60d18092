---------------------------- MODULE FilingBacklog ----------------------------
(***************************************************************************)
(* The two collectors of SEC documents that work off a backlog, Form 4     *)
(* (ingest.sec_form4, normalize.sec_form4) and 13F (ingest.sec_form13f,    *)
(* normalize.sec_form13f): each run fetches the newest filings that carry  *)
(* no mark, at most Limit of them, and the normalizer marks what it has    *)
(* dealt with.                                                             *)
(*                                                                         *)
(* Data.  A filing is its place in time; its fate is what becomes of its   *)
(* document: it has rows, it parses but has none, it does not parse, or it *)
(* is never to be had; and of a 13F, that its filing has no period of      *)
(* report, or that it is a notice, which has no document to ask for.       *)
(***************************************************************************)
EXTENDS Naturals, FiniteSets

CONSTANTS
    Filings,    \* number of filings
    Limit,      \* documents fetched per incremental run
    MaxDeaths,  \* bound: jobs that die half way
    Kinds       \* of the two pipelines, those of this instance

Filing == 1..Filings
Fate   == {"good", "empty", "unparsable", "gone", "undated", "notice"}

VARIABLES
    pipeline,   \* "form4" or "form13f"
    fate,
    filed,      \* filings upstream lists
    listed,     \* those the lake knows: sec.filings, or the latest submissions blobs
    pending,    \* documents the current run has still to ask for
    stage,      \* "idle" or "collecting"
    documents,  \* filings with a raw blob
    marks,      \* *_normalized_filings
    holdings,   \* filings with rows
    deaths

filingVars == <<pipeline, fate, filed, listed, pending, stage, documents, marks, holdings, deaths>>

\* Those that never get a mark, and are asked for in every run.
Hopeless == {f \in Filing : \/ fate[f] \in {"gone", "undated"}
                            \/ fate[f] = "unparsable" /\ pipeline = "form4"}

Init ==
    /\ pipeline \in Kinds
    /\ fate \in [Filing -> IF pipeline = "form4" THEN Fate \ {"undated", "notice"} ELSE Fate]
    /\ Cardinality(Hopeless) < Limit
    /\ filed = {} /\ listed = {} /\ pending = {} /\ stage = "idle"
    /\ documents = {} /\ marks = {} /\ holdings = {} /\ deaths = 0

\* A filing is published, in order of time.
File ==
    /\ filed # Filing
    /\ filed' = filed \cup {Cardinality(filed) + 1}
    /\ UNCHANGED <<pipeline, fate, listed, pending, stage, documents, marks, holdings, deaths>>

\* The daily SEC collector and normalizer bring sec.filings up to date.
List4 ==
    /\ pipeline = "form4" /\ listed # filed
    /\ listed' = filed
    /\ UNCHANGED <<pipeline, fate, filed, pending, stage, documents, marks, holdings, deaths>>

Newest(set) == {f \in set : Cardinality({g \in set : g > f}) < Limit}

\* Fault: the newest filings are taken before the marked ones are left out.
SelectAllForm4s(backfill) == {f \in IF backfill THEN listed ELSE Newest(listed) : f \notin marks}

\* select_uncached_form4s: LIMIT applies to what has no mark.
SelectUncachedForm4s(backfill) ==
    LET uncached == listed \ marks IN IF backfill THEN uncached ELSE Newest(uncached)

\* _select_phase_b_candidates.
SelectPhaseB(known, backfill) ==
    LET uncached == {f \in known \ marks : fate[f] # "notice"}
    IN  IF backfill THEN uncached ELSE Newest(uncached)

\* sec_form4 collect.
Collect4(backfill) ==
    /\ pipeline = "form4" /\ stage = "idle"
    /\ pending' = SelectUncachedForm4s(backfill)
    /\ stage' = "collecting"
    /\ UNCHANGED <<pipeline, fate, filed, listed, documents, marks, holdings, deaths>>

\* sec_form13f collect, phase A: the submissions of every filer.
Collect13F(backfill) ==
    /\ pipeline = "form13f" /\ stage = "idle"
    /\ listed' = filed
    /\ pending' = SelectPhaseB(filed, backfill)
    /\ stage' = "collecting"
    /\ UNCHANGED <<pipeline, fate, filed, documents, marks, holdings, deaths>>

\* One filer's submissions fail: those of the others are stored, the run raises
\* before phase B, and the job ends without a normalizer.
PhaseAFails ==
    /\ pipeline = "form13f" /\ stage = "idle"
    /\ \E others \in SUBSET filed : listed' = listed \cup others
    /\ UNCHANGED <<pipeline, fate, filed, pending, stage, documents, marks, holdings, deaths>>

\* _fetch_one, _fetch_info_table: the document is stored, or named as failed.
FetchOne(f) ==
    /\ f \in pending /\ fate[f] # "gone"
    /\ pending' = pending \ {f} /\ documents' = documents \cup {f}
    /\ UNCHANGED <<pipeline, fate, filed, listed, stage, marks, holdings, deaths>>

FetchFails(f) ==
    /\ f \in pending
    /\ pending' = pending \ {f}
    /\ UNCHANGED <<pipeline, fate, filed, listed, stage, documents, marks, holdings, deaths>>

\* fetch_unnormalized_form4_blobs, fetch_unnormalized_form13f_blobs.
Unnormalized == documents \ marks

\* Fault: every document the normalizer has looked at gets a mark.
Normalize4MarksAll ==
    /\ pipeline = "form4" /\ stage = "collecting" /\ pending = {}
    /\ holdings' = holdings \cup {f \in Unnormalized : fate[f] = "good"}
    /\ marks' = marks \cup Unnormalized
    /\ stage' = "idle"
    /\ UNCHANGED <<pipeline, fate, filed, listed, pending, documents, deaths>>

\* normalize.sec_form4 normalize: rows and marks in one transaction; a document
\* that names insiders but no transaction gets a mark, one that did not parse none.
Normalize4 ==
    /\ pipeline = "form4" /\ stage = "collecting" /\ pending = {}
    /\ holdings' = holdings \cup {f \in Unnormalized : fate[f] = "good"}
    /\ marks' = marks \cup {f \in Unnormalized : fate[f] \in {"good", "empty"}}
    /\ stage' = "idle"
    /\ UNCHANGED <<pipeline, fate, filed, listed, pending, documents, deaths>>

\* normalize.sec_form13f normalize: every document whose filing is known, with a
\* period of report, is marked, with or without a row.
Normalize13F ==
    /\ pipeline = "form13f" /\ stage = "collecting" /\ pending = {}
    /\ LET done == {f \in Unnormalized \cap listed : fate[f] # "undated"} IN
       /\ holdings' = holdings \cup {f \in done : fate[f] = "good"}
       /\ marks' = marks \cup done
    /\ stage' = "idle"
    /\ UNCHANGED <<pipeline, fate, filed, listed, pending, documents, deaths>>

\* The job dies: what was fetched stays, and the next run's normalizer finds it.
JobDies ==
    /\ stage = "collecting" /\ deaths < MaxDeaths
    /\ deaths' = deaths + 1
    /\ stage' = "idle" /\ pending' = {}
    /\ UNCHANGED <<pipeline, fate, filed, listed, documents, marks, holdings>>

Normalize == Normalize4 \/ Normalize13F

Next ==
    \/ File \/ List4
    \/ \E backfill \in BOOLEAN : Collect4(backfill) \/ Collect13F(backfill)
    \/ PhaseAFails
    \/ \E f \in Filing : FetchOne(f) \/ FetchFails(f)
    \/ Normalize \/ JobDies

Spec == Init /\ [][Next]_filingVars

\* The daily job runs; a document that can be had and is asked for again and
\* again comes in the end, and so do all submissions in one run (phase A).
\* Nobody needs to run a backfill.
Fairness ==
    /\ WF_filingVars(List4)
    /\ SF_filingVars(Collect4(FALSE)) /\ SF_filingVars(Collect13F(FALSE))
    /\ \A f \in Filing : SF_filingVars(FetchOne(f)) /\ WF_filingVars(FetchFails(f))
    /\ SF_filingVars(Normalize)

FairSpec == Spec /\ Fairness

-----------------------------------------------------------------------------
\* Every document that can be had and read reaches its table, newest first or
\* not, although those that never will are asked for in every run: they are
\* fewer than the run's limit.
FilingsArrive ==
    \A f \in Filing : (f \in filed /\ fate[f] = "good") ~> f \in holdings

\* A mark is never a lie: rows and marks come together, and a filing is marked
\* without rows only if its document has none, or is a 13F that did not parse.
\* What carries a mark is not looked at again.
MarkedIsStored ==
    /\ holdings \subseteq marks
    /\ \A f \in marks : \/ f \in holdings
                        \/ fate[f] = "empty"
                        \/ pipeline = "form13f" /\ fate[f] = "unparsable"
=============================================================================
