----------------------------- MODULE MCStorage ------------------------------
\* Instances of Storage.
EXTENDS Storage, TLC

CONSTANTS admin, other

Everything == admin :> {"init", "use", "migrate", "backup", "restore"} @@ other :> {"init", "use", "serve"}
=============================================================================
