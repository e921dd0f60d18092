----------------------------- MODULE MCAlertEngine -----------------------------
(***************************************************************************)
(* AlertEngine with two sources, a flat and a decaying correlation rule    *)
(* and two alert rules.                                                    *)
(***************************************************************************)
EXTENDS AlertEngine

Ev(t, s, n, w) == [ts |-> t, source |-> s, ref |-> n, strength |-> w]

MCWeight == [insiders |-> 1, crowding |-> 1]

\* Events on three days, the first too weak for the fading rule, and on the
\* middle day a filing under the first one's source_ref.
MCEvent == {Ev(0, "insiders", 1, 1), Ev(1, "crowding", 1, 2), Ev(1, "insiders", 1, 1),
            Ev(2, "insiders", 2, 2)}

MCRule == [flat   |-> [window |-> 1, minScore |-> 3, minSources |-> 2, decay |-> FALSE],
           fading |-> [window |-> 1, minScore |-> 6, minSources |-> 2, decay |-> TRUE]]

MCPager == [warning  |-> [minScore |-> 3, minSources |-> 2, match |-> {"flat"}],
            critical |-> [minScore |-> 6, minSources |-> 2, match |-> {"fading"}]]

\* Three events a rolling window tiles differently once the first has left it.
ThreeEvents == {Ev(1, "insiders", 1, 2), Ev(2, "crowding", 1, 2), Ev(4, "insiders", 2, 2)}
OneRule  == [flat |-> [window |-> 2, minScore |-> 3, minSources |-> 2, decay |-> FALSE]]
OnePager == [warning |-> [minScore |-> 3, minSources |-> 2, match |-> {"flat"}]]

=============================================================================
