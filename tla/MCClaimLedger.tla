--------------------------- MODULE MCClaimLedger ---------------------------
(***************************************************************************)
(* TLC instance of ClaimLedger: one fact, which sources assert or deny.    *)
(* It is played in two scenes: one session alone with both sources and     *)
(* both polarities, and two sessions together over the clip.  A third      *)
(* scene is about the pages of an entity's claims: module Pages, with a    *)
(* claim from a source and one from a candidate.                           *)
(***************************************************************************)
EXTENDS ClaimsAndPages

CONSTANTS s1, s2, clip, web, asserts, denies,
          p1, k1, e1                \* pages

VARIABLE scene

TwoSessions == {s1, s2}
ClipAndWeb == {clip, web}
OnlyClip == {clip}

\* The texts share their words, so each is similar to the other and to itself;
\* one of them is negated.
Polarities == {asserts, denies}
AllPairs == Polarities \X Polarities
OppositePairs == {<<asserts, denies>>, <<denies, asserts>>}

Alone == local[s2] = Idle
Together ==
    /\ \A k \in Ids : row[k] # NoRow => row[k].source = clip /\ row[k].text = asserts
    /\ \A s \in Sessions : local[s].op = "file" => local[s].source = clip
Staged == IF scene = "alone" THEN Alone ELSE Together

ClipAndCandidate == {p1, k1}
OneEntity == {e1}
AboutIt == [c \in ClipAndCandidate |-> IF c = k1 THEN {} ELSE {e1}]
FromWeb == [c \in ClipAndCandidate |-> web]
OnePair == {ClipAndCandidate}

MCInit == LedgerInit /\ scene \in {"alone", "together", "pages"}
MCNext ==
    /\ UNCHANGED scene
    /\ \/ scene # "pages" /\ LedgerStep /\ Staged'
       \/ scene = "pages" /\ WikiStep
MCSpec == MCInit /\ [][MCNext]_<<ledgerVars, scene>>
=============================================================================
