------------------------ MODULE CandidateRefinement ------------------------
(***************************************************************************)
(* CandidateReview implements CandidateGate.  A candidate is trusted when  *)
(* it has a claim of record, whatever its status column says: the label a  *)
(* stale reject() or archive() leaves behind changes no promise.           *)
(***************************************************************************)
EXTENDS CandidateReview

phaseOf == [c \in Candidates |->
              IF claimOf[c] # NoClaim THEN "trusted"
              ELSE CASE status[c] = "none" -> "absent"
                     [] status[c] = "pending" -> "open"
                     [] OTHER -> "closed"]

Gate == INSTANCE CandidateGate WITH phase <- phaseOf,
                                    suspect <- quarantined,
                                    accepted <- overridden

\* Every behaviour of the concurrent review is a behaviour of the gate: each
\* step of a session is one atomic decision or none.
ImplementsGate == Gate!Spec
=============================================================================
