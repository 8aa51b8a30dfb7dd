---------------------------- MODULE MCLibrarian -----------------------------
\* Instances of Librarian.
EXTENDS Librarian

CONSTANTS cron, hand, pair, doubt

Commands == cron :> {"maintain"} @@ hand :> {"watch", "triage", "adjudicate"}
CronAndWatch == cron :> {"maintain"} @@ hand :> {"watch"}
Grades == 1 :> "near" @@ 2 :> "doubtful"
Kinds == pair :> "contradiction" @@ doubt :> "escalation"
Sides == pair :> 2 @@ doubt :> 2

\* The first source is added, the second is dropped.
OneDropped == 1 \notin dropped' /\ (source'[2] = source[2] \/ source[2] = "new" \/ 2 \in dropped)
MCSpec == Init /\ [][Next /\ OneDropped]_vars /\ Fairness
=============================================================================
