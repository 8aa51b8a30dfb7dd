------------------------------ MODULE Profiles ------------------------------
(***************************************************************************)
(* Who sees what: recall profiles (profiles.py), confidence labels         *)
(* (confidence.py), scopes (scopes.py) and trust (trust.py).               *)
(***************************************************************************)
EXTENDS Naturals, Sequences

Labels == <<"low", "medium", "high", "verified">>

\* In hundredths.  A claim without a label of its own gets one from its number.
ToNumeric == [low |-> 30, medium |-> 60, high |-> 85, verified |-> 95]

FromNumeric(n) == IF n >= 95 THEN "verified" ELSE IF n >= 85 THEN "high"
                  ELSE IF n >= 50 THEN "medium" ELSE "low"

LabelOf(row) == IF row.label \in DOMAIN ToNumeric THEN row.label ELSE FromNumeric(row.confidence)

ConfidenceAtLeast(label, least) ==
    \E m, n \in DOMAIN Labels : Labels[m] = label /\ Labels[n] = least /\ m >= n

ScopeTypes == {"global", "user", "project", "repo", "task", "manager", "worker",
               "model", "tool", "external"}

Profile(least, tags, excluded, only) ==
    [least |-> least, tags |-> tags, excluded |-> excluded, only |-> only]

Profiles ==
    [manager_brief |-> Profile("medium", {}, {"worker"}, ScopeTypes),
     worker_brief |-> Profile("medium", {"constraint", "known-failure", "gotcha", "interface",
                                         "output-requirement"}, {"manager"}, ScopeTypes),
     reviewer_brief |-> Profile("medium", {"decision", "constraint", "known-failure", "risk",
                                           "criteria"}, {}, ScopeTypes),
     implementation_constraints |-> Profile("high", {"constraint", "decision"}, {}, ScopeTypes),
     user_preferences |-> Profile("medium", {"preference"}, {}, {"global", "user"}),
     known_failures |-> Profile("low", {"known-failure", "failure", "gotcha"}, {}, ScopeTypes),
     model_performance |-> Profile("low", {"model-performance"}, {},
                                   {"global", "model", "worker"})]

\* Profile.accepts: any one of the tags will do, and no tags means no such filter.
Accepts(profile, row) ==
    /\ ConfidenceAtLeast(LabelOf(row), profile.least)
    /\ row.scope[1] \in profile.only \ profile.excluded
    /\ profile.tags = {} \/ row.tags \cap profile.tags # {}

\* scopes.matches; a request names scopes as pairs <<type, id>>.
\* Mutant of Matches: a recall that names no scope sees everything.
MatchesAll(scope, requested) ==
    scope[1] = "global" \/ requested = {} \/ scope \in requested

Matches(scope, requested) == scope[1] = "global" \/ scope \in requested

External == <<"external", "decima">>

\* trust.is_trusted
IsTrusted(status, disputed) == status = "promoted" /\ ~disputed
=============================================================================
