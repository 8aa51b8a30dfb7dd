----------------------------- MODULE MCEvidence -----------------------------
(***************************************************************************)
(* TLC instance of Evidence.                                               *)
(***************************************************************************)
EXTENDS Evidence, TLC

CONSTANTS s1, s2, c1, c2, note, sessions, web

TwoSessions == {s1, s2}
OneSession == {s1}
TwoContents == {c1, c2}
OneName == {note}
TwoBuckets == {sessions, web}

\* Sessions, contents and buckets are interchangeable.
Symmetry == Permutations(TwoSessions) \cup Permutations(TwoContents)
              \cup Permutations(TwoBuckets)
=============================================================================
