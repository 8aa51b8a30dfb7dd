---------------------------- MODULE SkillsInTurn ----------------------------
(***************************************************************************)
(* Skills (module Skills), and whether one command came between the steps  *)
(* of another: what approve() validates before its transaction is true of  *)
(* the version it writes, as long as none did.                             *)
(***************************************************************************)
EXTENDS Skills

VARIABLE overlapped   \* history: a step was taken while another's command was under way

skillVars == <<vars, overlapped>>

\* The command of s is where it was: the step was another's.
Interrupts == \E s \in Sessions : job[s] # Idle /\ job'[s] = job[s]

SkillsInit == Init /\ overlapped = FALSE
SkillsNext == Next /\ overlapped' = (overlapped \/ Interrupts)

SkillsSpec == SkillsInit /\ [][SkillsNext]_skillVars

-----------------------------------------------------------------------------
\* skills.py, _validate: skills are authored from promoted truth only.  As long as no
\* other command runs beside it, whatever becomes a version is linked to no other
\* claim when it does, whichever claims were reviewed, dropped and filed before.
OnlyTruthIsApproved ==
    [][~overlapped =>
          \A k \in Skills : history'[k] # history[k] => skill'[k].links \subseteq Promoted']_skillVars
=============================================================================
