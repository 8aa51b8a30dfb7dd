--------------------------- MODULE CandidateGate ---------------------------
(***************************************************************************)
(* What the ledger promises about a memory candidate, without sessions,    *)
(* locks or transactions: an open candidate is either closed or trusted,   *)
(* each in one step and for good, and one captured under quarantine is     *)
(* trusted only with an accepted risk.                                     *)
(***************************************************************************)
CONSTANTS Candidates, Claims, NoClaim

VARIABLES phase,     \* "absent", "open", "closed" or "trusted"
          suspect,   \* the candidates quarantined at capture
          accepted,  \* those whose known risk a reviewer accepted, with a reason
          claimOf    \* the claim a trusted candidate became

vars == <<phase, suspect, accepted, claimOf>>

Init == /\ phase = [c \in Candidates |-> "absent"]
        /\ suspect = {}
        /\ accepted = {}
        /\ claimOf = [c \in Candidates |-> NoClaim]

Propose(c) == /\ phase[c] = "absent"
              /\ phase' = [phase EXCEPT ![c] = "open"]
              /\ suspect' \in {suspect, suspect \cup {c}}
              /\ UNCHANGED <<accepted, claimOf>>

Close(c) == /\ phase[c] = "open"
            /\ phase' = [phase EXCEPT ![c] = "closed"]
            /\ UNCHANGED <<suspect, accepted, claimOf>>

Trust(c, k) == /\ phase[c] = "open"
               /\ \A d \in Candidates : claimOf[d] # k
               /\ phase' = [phase EXCEPT ![c] = "trusted"]
               /\ claimOf' = [claimOf EXCEPT ![c] = k]
               /\ accepted' \in {accepted, accepted \cup {c}}
               /\ c \in suspect => c \in accepted'
               /\ UNCHANGED suspect

Next == \E c \in Candidates : \/ Propose(c)
                              \/ Close(c)
                              \/ \E k \in Claims : Trust(c, k)

Spec == Init /\ [][Next]_vars
=============================================================================
