------------------------------ MODULE MCSkills ------------------------------
(***************************************************************************)
(* TLC instance of Skills, in two scenes: one command at a time over two   *)
(* skills, none of them installed, and an id that two claims have in turn; *)
(* and two sessions together over one skill and one claim.                 *)
(***************************************************************************)
EXTENDS SkillsInTurn, FiniteSets, TLC

CONSTANTS s1, s2, one, other, first

VARIABLE scene

TwoSessions == {s1, s2}
TwoSkills == {one, other}
OneBody == {first}

Alone == ~overlapped' /\ UNCHANGED globalDir /\ \A k \in Skills : Len(history'[k]) <= 1
Together == filed' <= 1 /\ Cardinality({k \in Skills : Exists(k)'}) <= 1
Staged == IF scene = "alone" THEN Alone ELSE Together

MCInit == SkillsInit /\ scene \in {"alone", "together"}
MCNext == UNCHANGED scene /\ SkillsNext /\ Staged
MCSpec == MCInit /\ [][MCNext]_<<skillVars, scene>>

\* Sessions and skills are interchangeable.
Symmetry == Permutations(TwoSessions) \cup Permutations(TwoSkills)

=============================================================================
