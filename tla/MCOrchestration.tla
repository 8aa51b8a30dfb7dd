-------------------------- MODULE MCOrchestration --------------------------
\* The instance of Orchestration in which a tier's model is swapped.
EXTENDS Orchestration, TLC

CONSTANTS boot, agent, m1, m2

OneTier == [preferred |-> m1, deployed |-> NoModel]
SeedAndDelegate == boot :> {"seed"} @@ agent :> {"delegate"}
Nothing == <<>>
Pinning == {[tier |-> "local_only", allows |-> {}, pin |-> TRUE]}
=============================================================================
