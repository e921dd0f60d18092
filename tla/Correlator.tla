------------------------------ MODULE Correlator ------------------------------
(***************************************************************************)
(* signal_store.detect_stacks for the events of one (asset, asset class):  *)
(* which windows of events make a stack under a correlation rule.          *)
(*                                                                         *)
(* Data.  Timestamps are days.  An event is [ts, source, ref, strength],   *)
(* already matching the rule's components and direction.  A rule is        *)
(* [window, minScore, minSources, decay]; a decaying rule's half-life is   *)
(* one day and its scores are scaled by 2^window to stay whole.            *)
(***************************************************************************)
EXTENDS Naturals, FiniteSetsExt

CONSTANT Weight   \* source -> the weight of the component it matches

Days(E) == {e.ts : e \in E}

-----------------------------------------------------------------------------
\* _decay_factor, scaled.
Fade(k, age) == IF k.decay THEN 2^(k.window - age) ELSE 1

\* _score_window: per natural event (source, source_ref) the strongest
\* contribution counts, its age measured back from the window's last event.
Score(W, k) ==
    LET last        == Max(Days(W))
        worth(e)    == Weight[e.source] * e.strength * Fade(k, last - e.ts)
        natural     == {<<e.source, e.ref>> : e \in W}
        best(n)     == Max({worth(e) : e \in {f \in W : <<f.source, f.ref>> = n}})
    IN  MapThenSumSet(best, natural)

Sources(W) == Cardinality({e.source : e \in W})

Qualifies(W, k) == Score(W, k) >= k.minScore /\ Sources(W) >= k.minSources

\* The window anchored at day a.
Window(E, a, k) == {e \in E : a <= e.ts /\ e.ts <= a + k.window}

Upto(W, d) == {e \in W : e.ts <= d}

\* The days on which an anchor's window may be cut and scored: with decay
\* after every day's events, without it only at its end.
Cuts(W, k) == IF k.decay THEN Days(W) ELSE {Max(Days(W))}

\* _stack_from_window for the first cut that qualifies.
StackOf(W, k) ==
    LET cut == Min({d \in Cuts(W, k) : Qualifies(Upto(W, d), k)})
        S   == Upto(W, cut)
    IN  [start |-> Min(Days(S)), end |-> cut, score |-> Score(S, k), sources |-> Sources(S)]

Emits(W, k) == \E d \in Cuts(W, k) : Qualifies(Upto(W, d), k)

\* Fault: a window that does not qualify is skipped like one that does.
ScanHasty(E, k) ==
    LET scan[R \in SUBSET E] ==
          IF R = {} THEN {}
          ELSE LET W == Window(R, Min(Days(R)), k)
               IN  (IF Emits(W, k) THEN {StackOf(W, k)} ELSE {}) \cup scan[R \ W]
    IN  scan[E]

\* _scan_asset_events: R is what is left from index i on.  A window that makes
\* a stack is skipped whole; else the anchor alone is dropped.
Scan(E, k) ==
    LET scan[R \in SUBSET E] ==
          IF R = {} THEN {}
          ELSE LET a == Min(Days(R))
                   W == Window(R, a, k)
               IN  IF Emits(W, k)
                   THEN {StackOf(W, k)} \cup scan[R \ W]
                   ELSE scan[R \ {CHOOSE e \in R : e.ts = a}]
    IN  scan[E]

-----------------------------------------------------------------------------
\* What a scan owes its reader, said without scanning: no anchor with a window
\* that makes a stack goes by without a stack whose window holds the anchor.
Covers(E, S, k) ==
    \A e \in E : Emits(Window(E, e.ts, k), k) =>
        \E s \in S : s.start <= e.ts /\ e.ts <= s.start + k.window

\* A burst makes one stack per window: no two stacks start within one.
Apart(S, k) == \A s, t \in S : s # t => s.start + k.window < t.start \/ t.start + k.window < s.start

\* A stack is what its own events say: they span at most the window, and they
\* qualify on the day it ends.
Real(E, s, k) ==
    /\ s.end <= s.start + k.window
    /\ \E W \in SUBSET E : /\ W # {} /\ Min(Days(W)) = s.start /\ Max(Days(W)) = s.end
                           /\ Qualifies(W, k) /\ Score(W, k) = s.score
=============================================================================
