---------------------------- MODULE MCBackground ----------------------------
(***************************************************************************)
(* TLC instance of Background.  Its parts share no state, so each          *)
(* behaviour plays one scene: the research queue, the gathering (they meet *)
(* only in the ids of the queue, which are never deleted), the librarian   *)
(* without deaths, two processes that file facts, one that delegates while *)
(* another seeds and somebody edits SEED_TIERS, or the one who administers *)
(* the database beside someone who uses it.                                *)
(***************************************************************************)
EXTENDS Background

CONSTANTS w1, w2, u1, u2, u3, k1, k2, k3, q1, q2,    \* gathering
          cron, hand, pair,                          \* the librarian
          boot, agent, m1, o1, o2,                   \* orchestration
          admin, other                               \* storage

VARIABLE scene

TwoWorkers == {w1, w2}
Pages == u1 :> [jina |-> k1, trafilatura |-> k1] @@
         u2 :> [jina |-> k2, trafilatura |-> k1] @@
         u3 :> [jina |-> k3, trafilatura |-> k3]

Grades == 1 :> "near" @@ 2 :> "doubtful"
Contradiction == pair :> "contradiction"
OfTheSecond == pair :> 2
CronAndHand == cron :> {"maintain"} @@ hand :> {"watch", "triage", "adjudicate"}

OneTier == [preferred |-> m1, deployed |-> NoModel]
Work(tier, allows, pin) == [tier |-> tier, allows |-> allows, pin |-> pin]
SomeWork == {Work("public", {"external", "paid"}, FALSE),
             Work("public_redacted", {"paid", "rented"}, FALSE),
             Work("local_only", {"external", "paid", "rented"}, TRUE),
             Work("no such tier", {"external", "paid", "rented"}, FALSE)}
TwoFacts == <<[mark |-> o1, model |-> m1, clean |-> TRUE], [mark |-> o2, model |-> m1, clean |-> FALSE]>>
Engines == [s \in {boot, agent} |-> {"seed", "capture", "delegate"}]

Administration == admin :> {"init", "use", "migrate", "backup", "restore"}
                  @@ other :> {"use", "serve"}

\* What each process is about, in the two scenes of the orchestration.
Calls(s) == IF turn'[s] = Orchestration!Idle THEN {} ELSE {turn'[s].call}
Filing == swaps' = swaps /\ \A s \in Processes : "delegate" \notin Calls(s)
Delegating == /\ Len(filed') < MaxRows
              /\ Calls(boot) \subseteq {"seed"} /\ Calls(agent) \subseteq {"delegate"}

MCInit ==
    /\ BackgroundInit
    /\ scene \in {"queue", "gather", "librarian", "filing", "delegating", "storage"}
MCNext ==
    /\ UNCHANGED scene
    /\ \/ scene = "queue" /\ QueueStep /\ GatheringAlone
       \/ scene = "gather" /\ GatherStep /\ GatheringAlone
       \/ scene = "librarian" /\ Librarian!Next /\ LibrarianAlone
       \/ scene = "filing" /\ Orchestration!Next /\ Filing /\ OrchestrationAlone
       \/ scene = "delegating" /\ Orchestration!Next /\ Delegating /\ OrchestrationAlone
       \/ scene = "storage" /\ Storage!Next /\ StorageAlone
MCSpec == MCInit /\ [][MCNext]_<<scene, backgroundVars>>

\* The workers are interchangeable.
Symmetry == Permutations(TwoWorkers)
=============================================================================
