------------------------- MODULE MCCandidateReview -------------------------
(***************************************************************************)
(* TLC instance of CandidateReview, with the mapping under which it        *)
(* implements CandidateGate.                                               *)
(***************************************************************************)
EXTENDS CandidateRefinement, TLC

CONSTANTS s1, s2, c1, k1, k2

MCSessions == {s1, s2}
MCClaims == {k1, k2}
OneCandidate == {c1}
=============================================================================
