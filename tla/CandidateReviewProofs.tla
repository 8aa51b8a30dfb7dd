----------------------- MODULE CandidateReviewProofs -----------------------
(***************************************************************************)
(* For any number of sessions, candidates and claims: the review keeps its *)
(* tables well formed, a candidate has one claim, no risk is trusted       *)
(* unaccepted, a decision is final for trust, and the concurrent review    *)
(* implements CandidateGate.                                               *)
(***************************************************************************)
EXTENDS CandidateRefinement, TLAPS

(***************************************************************************)
(* The inductive invariant.  The safety invariants are not inductive:      *)
(* PromoteCommit trusts what PromoteCheck saw, and that is still true only *)
(* because the session in between holds the lock.                          *)
(***************************************************************************)
\* The lock is held exactly by the one session inside promote()'s transaction.
LockMatchesPc == \A s \in Sessions : lock = s <=> pc[s] \in {"begun", "checked"}

\* Where a session stands says which operation it was called for.
CallMatchesPc ==
    \A s \in Sessions :
        /\ pc[s] # "idle" => call[s] \in Calls
        /\ pc[s] # "idle" /\ call[s].op = "promote" => call[s].by \in ReviewerTypes
        /\ pc[s] \in {"begun", "checked"} => call[s].op = "promote"
        /\ pc[s] = "reviewing" => call[s].op \in {"reject", "archive"}

\* What promote() checked under the lock still holds when it writes.
CheckStillHolds ==
    \A s \in Sessions :
        pc[s] = "checked" =>
            /\ status[call[s].cand] = "pending"
            /\ GateOpen(call[s].cand, scan[s], call[s].override)

\* A candidate about to be retired exists.
ReviewedExists ==
    \A s \in Sessions : pc[s] = "reviewing" => status[call[s].cand] # "none"

\* A candidate with a claim has left pending.
ClaimedIsReviewed ==
    \A c \in Candidates : claimOf[c] # NoClaim => status[c] \notin {"none", "pending"}

IInv == /\ TypeOK
        /\ LockMatchesPc
        /\ CallMatchesPc
        /\ CheckStillHolds
        /\ ReviewedExists
        /\ ClaimedIsReviewed
        /\ OneClaimPerCandidate
        /\ RiskWasAccepted

LEMMA InitIInv == Init => IInv
BY SentinelsAreFresh
   DEF Init, IInv, TypeOK, LockMatchesPc, CallMatchesPc, CheckStillHolds,
       ReviewedExists, ClaimedIsReviewed, OneClaimPerCandidate, RiskWasAccepted,
       NoCall, Statuses, Verdicts, ReviewerTypes

\* Every step keeps every table and every session's local state well formed.
LEMMA TypeStep == IInv /\ [Next]_vars => TypeOK'
<1> SUFFICES ASSUME IInv, [Next]_vars PROVE TypeOK'
  OBVIOUS
<1> USE DEF IInv, TypeOK, Statuses, Verdicts, ReviewerTypes, rows
<1>1. ASSUME NEW s \in Sessions, NEW c \in Candidates, Propose(s, c) PROVE TypeOK'
  BY <1>1 DEF Propose
<1>2. ASSUME NEW s \in Sessions, Submit(s) PROVE TypeOK'
  BY <1>2 DEF Submit, Goto
<1>3. ASSUME NEW s \in Sessions, BeginImmediate(s) PROVE TypeOK'
  BY <1>3 DEF BeginImmediate, Goto
<1>4. ASSUME NEW s \in Sessions, PromoteCheck(s) PROVE TypeOK'
  BY <1>4 DEF PromoteCheck, Goto
<1>5. ASSUME NEW s \in Sessions, PromoteRefuse(s) PROVE TypeOK'
  BY <1>5 DEF PromoteRefuse, Released, Return, Goto
<1>6. ASSUME NEW s \in Sessions, PromoteCommit(s) PROVE TypeOK'
  <2>1. call[s] \in Calls /\ call[s].by \in ReviewerTypes
    BY <1>6 DEF PromoteCommit, CallMatchesPc
  <2>2. call[s].cand \in Candidates
    BY <2>1 DEF Calls
  <2>3. (lock \in Sessions \cup {NoSession})' /\ (pc \in [Sessions -> {"idle", "called", "begun", "checked", "reviewing"}])'
        /\ (call \in [Sessions -> Calls \cup {NoCall}])' /\ (scan \in [Sessions -> Verdicts])'
    BY <1>6 DEF PromoteCommit, Released, Return, Goto
  <2>4. PICK k \in Claims : IF Reviewable(call[s].cand) THEN Record(s, k) ELSE UNCHANGED rows
    BY <1>6 DEF PromoteCommit
  <2>5. CASE Reviewable(call[s].cand)
    BY <2>1, <2>2, <2>3, <2>4, <2>5 DEF Record
  <2>6. CASE ~Reviewable(call[s].cand)
    BY <2>3, <2>4, <2>6
  <2> QED BY <2>5, <2>6
<1>7. ASSUME NEW s \in Sessions, RetireCheck(s) PROVE TypeOK'
  BY <1>7 DEF RetireCheck, Return, Goto
<1>8. ASSUME NEW s \in Sessions, RetireWrite(s) PROVE TypeOK'
  <2>1. Verdict(call[s].op) \in Statuses
    BY DEF Verdict
  <2> QED BY <1>8, <2>1 DEF RetireWrite, Return, Goto
<1>9. ASSUME NEW s \in Sessions, LockTimeout(s) PROVE TypeOK'
  BY <1>9 DEF LockTimeout, Return, Goto
<1>10. ASSUME NEW s \in Sessions, Crash(s) PROVE TypeOK'
  BY <1>10 DEF Crash, Released, Return, Goto
<1>11. CASE UNCHANGED vars
  BY <1>11 DEF vars
<1> QED
  BY <1>1, <1>2, <1>3, <1>4, <1>5, <1>6, <1>7, <1>8, <1>9, <1>10, <1>11
     DEF Next, Step, Promote, Retire

\* Every step keeps the sessions honest about the lock and about their calls.
LEMMA SessionStep ==
    IInv /\ [Next]_vars =>
        LockMatchesPc' /\ CallMatchesPc' /\ CheckStillHolds' /\ ReviewedExists'
<1> SUFFICES ASSUME IInv, [Next]_vars
             PROVE LockMatchesPc' /\ CallMatchesPc' /\ CheckStillHolds' /\ ReviewedExists'
  OBVIOUS
<1> DEFINE Goal == LockMatchesPc' /\ CallMatchesPc' /\ CheckStillHolds' /\ ReviewedExists'
<1> USE SentinelsAreFresh
    DEF IInv, TypeOK, LockMatchesPc, CallMatchesPc, CheckStillHolds, ReviewedExists
<1>1. ASSUME NEW s \in Sessions, NEW c \in Candidates, Propose(s, c) PROVE Goal
  BY <1>1 DEF Propose, GateOpen, Blocked
<1>2. ASSUME NEW s \in Sessions, Submit(s) PROVE Goal
  BY <1>2 DEF Submit, Goto, rows, GateOpen, Blocked, Calls
<1>3. ASSUME NEW s \in Sessions, BeginImmediate(s) PROVE Goal
  BY <1>3 DEF BeginImmediate, Goto, rows, GateOpen, Blocked
<1>4. ASSUME NEW s \in Sessions, PromoteCheck(s) PROVE Goal
  BY <1>4 DEF PromoteCheck, Goto, rows, GateOpen, Blocked, Reviewable, Verdicts
<1>5. ASSUME NEW s \in Sessions, PromoteRefuse(s) PROVE Goal
  BY <1>5 DEF PromoteRefuse, Released, Return, Goto, rows, GateOpen, Blocked
<1>6. ASSUME NEW s \in Sessions, PromoteCommit(s) PROVE Goal
  <2>1. /\ lock = s /\ lock' = NoSession
        /\ \A t \in Sessions \ {s} : pc[t] \notin {"begun", "checked"}
    BY <1>6 DEF PromoteCommit, Released
  <2>2. /\ pc' = [pc EXCEPT ![s] = "idle"]
        /\ call' = [call EXCEPT ![s] = NoCall]
    BY <1>6 DEF PromoteCommit, Return, Goto
  <2>3. \A c \in Candidates : status[c] # "none" => status'[c] # "none"
    <3>1. CASE UNCHANGED rows
      BY <3>1 DEF rows
    <3>2. CASE \E k \in Claims : Record(s, k)
      BY <3>2 DEF Record
    <3> QED BY <1>6, <3>1, <3>2 DEF PromoteCommit
  <2>4. LockMatchesPc' /\ CallMatchesPc' /\ CheckStillHolds'
    BY <2>1, <2>2
  <2>5. ReviewedExists'
    BY <2>2, <2>3 DEF Calls
  <2> QED BY <2>4, <2>5
<1>7. ASSUME NEW s \in Sessions, RetireCheck(s) PROVE Goal
  BY <1>7 DEF RetireCheck, Return, Goto, rows, GateOpen, Blocked, Reviewable
<1>8. ASSUME NEW s \in Sessions, RetireWrite(s) PROVE Goal
  <2>1. \A t \in Sessions : pc[t] \notin {"begun", "checked"}
    BY <1>8 DEF RetireWrite
  <2>2. /\ pc' = [pc EXCEPT ![s] = "idle"]
        /\ call' = [call EXCEPT ![s] = NoCall]
        /\ lock' = lock
        /\ status' = [status EXCEPT ![call[s].cand] = Verdict(call[s].op)]
    BY <1>8 DEF RetireWrite, Return, Goto
  <2>3. LockMatchesPc' /\ CallMatchesPc' /\ CheckStillHolds'
    BY <2>1, <2>2
  <2>4. Verdict(call[s].op) # "none"
    BY DEF Verdict
  <2>5. ReviewedExists'
    BY <2>2, <2>4 DEF Calls
  <2> QED BY <2>3, <2>5
<1>9. ASSUME NEW s \in Sessions, LockTimeout(s) PROVE Goal
  BY <1>9 DEF LockTimeout, Return, Goto, NeedsLock, rows, GateOpen, Blocked
<1>10. ASSUME NEW s \in Sessions, Crash(s) PROVE Goal
  BY <1>10 DEF Crash, Released, Return, Goto, rows, GateOpen, Blocked
<1>11. CASE UNCHANGED vars
  BY <1>11 DEF vars, rows, GateOpen, Blocked
<1> QED
  BY <1>1, <1>2, <1>3, <1>4, <1>5, <1>6, <1>7, <1>8, <1>9, <1>10, <1>11
     DEF Next, Step, Promote, Retire

\* What a promotion that commits does to the tables, given what it checked.
LEMMA CommitRecords ==
    ASSUME IInv, NEW s \in Sessions, PromoteCommit(s)
    PROVE  /\ call[s].cand \in Candidates
           /\ status[call[s].cand] = "pending"
           /\ claimOf[call[s].cand] = NoClaim
           /\ GateOpen(call[s].cand, scan[s], call[s].override)
           /\ \E k \in Claims : candidateOf[k] = NoCandidate /\ Record(s, k)
<1>1. call[s] \in Calls
  BY DEF IInv, CallMatchesPc, PromoteCommit
<1> QED
  BY <1>1 DEF Calls, IInv, CheckStillHolds, ClaimedIsReviewed, PromoteCommit, Reviewable

\* Every step keeps the candidates and the claims in agreement.
LEMMA TableStep ==
    IInv /\ [Next]_vars =>
        ClaimedIsReviewed' /\ OneClaimPerCandidate' /\ RiskWasAccepted'
<1> DEFINE Goal == ClaimedIsReviewed' /\ OneClaimPerCandidate' /\ RiskWasAccepted'
<1> SUFFICES ASSUME IInv, [Next]_vars PROVE Goal
  OBVIOUS
<1> USE SentinelsAreFresh
    DEF IInv, TypeOK, ClaimedIsReviewed, OneClaimPerCandidate, RiskWasAccepted
<1>1. CASE UNCHANGED rows
  BY <1>1 DEF rows
<1>2. ASSUME NEW s \in Sessions, NEW c \in Candidates, Propose(s, c) PROVE Goal
  BY <1>2 DEF Propose
<1>3. ASSUME NEW s \in Sessions, PromoteCommit(s) PROVE Goal
  <2> DEFINE c == call[s].cand
  <2>1. /\ c \in Candidates
        /\ claimOf[c] = NoClaim
        /\ GateOpen(c, scan[s], call[s].override)
    BY <1>3, CommitRecords
  <2>2. PICK k \in Claims : candidateOf[k] = NoCandidate /\ Record(s, k)
    BY <1>3, CommitRecords
  <2>3. ClaimedIsReviewed' /\ OneClaimPerCandidate'
    BY <2>1, <2>2 DEF Record
  <2>4. \A d \in Candidates : d \in overridden' <=>
          IF d = c THEN call[s].override = "reasoned" ELSE d \in overridden
    BY <2>1, <2>2 DEF Record
  <2>5. RiskWasAccepted'
    BY <2>1, <2>2, <2>4 DEF Record, GateOpen, Blocked
  <2> QED BY <2>3, <2>5
<1>4. ASSUME NEW s \in Sessions, RetireWrite(s) PROVE Goal
  <2>1. Verdict(call[s].op) \notin {"none", "pending"}
    BY DEF Verdict
  <2> QED BY <1>4, <2>1 DEF RetireWrite
<1>5. [Next]_vars => \/ UNCHANGED rows
                     \/ \E s \in Sessions, c \in Candidates : Propose(s, c)
                     \/ \E s \in Sessions : PromoteCommit(s) \/ RetireWrite(s)
  BY DEF Next, Step, Promote, Retire, Submit, BeginImmediate, PromoteCheck,
         PromoteRefuse, RetireCheck, LockTimeout, Crash, vars, rows
<1> QED BY <1>1, <1>2, <1>3, <1>4, <1>5

LEMMA StepIInv == IInv /\ [Next]_vars => IInv'
BY TypeStep, SessionStep, TableStep DEF IInv

LEMMA InvariantIInv == Spec => []IInv
BY InitIInv, StepIInv, PTL DEF Spec

(***************************************************************************)
(* The theorems                                                            *)
(***************************************************************************)
\* The tables and the sessions keep their shape in every reachable state.
THEOREM TypeCorrect == Spec => []TypeOK
<1>1. IInv => TypeOK BY DEF IInv
<1> QED BY <1>1, InvariantIInv, PTL

\* However many promotions of one candidate race, it never has two claims.
THEOREM OneClaim == Spec => []OneClaimPerCandidate
<1>1. IInv => OneClaimPerCandidate BY DEF IInv
<1> QED BY <1>1, InvariantIInv, PTL

\* What the safety gate blocks is never trusted without a recorded override.
THEOREM NoUnacceptedRisk == Spec => []RiskWasAccepted
<1>1. IInv => RiskWasAccepted BY DEF IInv
<1> QED BY <1>1, InvariantIInv, PTL

\* Neither a rejected or archived candidate nor a promoted one changes its claim.
LEMMA DecisionStep ==
    ASSUME IInv, [Next]_vars, NEW c \in Candidates, status[c] \notin {"none", "pending"}
    PROVE  claimOf'[c] = claimOf[c]
<1>1. CASE claimOf' = claimOf
  BY <1>1
<1>2. ASSUME NEW s \in Sessions, PromoteCommit(s) PROVE claimOf'[c] = claimOf[c]
  <2>1. PICK k \in Claims : Record(s, k)
    BY <1>2, CommitRecords
  <2>2. call[s].cand # c
    BY <1>2, CommitRecords
  <2> QED BY <2>1, <2>2 DEF Record, IInv, TypeOK
<1> QED
  BY <1>1, <1>2 DEF Next, Step, Promote, Retire, Propose, Submit, BeginImmediate,
     PromoteCheck, PromoteRefuse, RetireCheck, RetireWrite, LockTimeout, Crash, vars, rows

\* A candidate that was turned down is never revived by a late promotion.
THEOREM NeverRevived == Spec => TurnedDownStaysDown
<1>1. IInv /\ [Next]_vars =>
        [\A c \in Candidates :
            status[c] \in {"rejected", "archived"} => claimOf'[c] = claimOf[c]]_vars
  BY DecisionStep
<1> QED BY <1>1, InvariantIInv, PTL DEF Spec, TurnedDownStaysDown

\* The claim of record of a candidate never changes.
THEOREM ClaimOfRecordIsFinal == Spec => ClaimIsFinal
<1>1. IInv /\ [Next]_vars =>
        [\A c \in Candidates : claimOf[c] # NoClaim => claimOf'[c] = claimOf[c]]_vars
  BY DecisionStep DEF IInv, ClaimedIsReviewed
<1> QED BY <1>1, InvariantIInv, PTL DEF Spec, ClaimIsFinal

(***************************************************************************)
(* Refinement: one atomic decision per candidate, or a stutter             *)
(***************************************************************************)
LEMMA GateInit == Init => Gate!Init
BY DEF Init, Gate!Init, phaseOf

LEMMA GateStep == IInv /\ [Next]_vars => [Gate!Next]_(Gate!vars)
<1> SUFFICES ASSUME IInv, [Next]_vars PROVE [Gate!Next]_(Gate!vars)
  OBVIOUS
<1> USE SentinelsAreFresh DEF IInv, TypeOK
<1>1. CASE UNCHANGED rows
  BY <1>1 DEF rows, Gate!vars, phaseOf
<1>2. ASSUME NEW s \in Sessions, NEW c \in Candidates, Propose(s, c)
      PROVE  Gate!Propose(c)
  <2>1. phaseOf[c] = "absent" /\ phaseOf' = [phaseOf EXCEPT ![c] = "open"]
    BY <1>2 DEF Propose, phaseOf, ClaimedIsReviewed
  <2> QED BY <1>2, <2>1 DEF Propose, Gate!Propose
<1>3. ASSUME NEW s \in Sessions, PromoteCommit(s)
      PROVE  \E c \in Candidates, k \in Claims : Gate!Trust(c, k)
  <2> DEFINE c == call[s].cand
  <2>1. /\ c \in Candidates
        /\ status[c] = "pending" /\ claimOf[c] = NoClaim
        /\ GateOpen(c, scan[s], call[s].override)
    BY <1>3, CommitRecords
  <2>2. PICK k \in Claims : candidateOf[k] = NoCandidate /\ Record(s, k)
    BY <1>3, CommitRecords
  <2>3. phaseOf[c] = "open" /\ phaseOf' = [phaseOf EXCEPT ![c] = "trusted"]
    BY <2>1, <2>2 DEF Record, phaseOf
  <2>4. \A d \in Candidates : claimOf[d] # k
    BY <2>2 DEF OneClaimPerCandidate
  <2>5. /\ overridden' \in {overridden, overridden \cup {c}}
        /\ c \in quarantined => c \in overridden'
    BY <2>1, <2>2 DEF Record, GateOpen, Blocked
  <2>6. claimOf' = [claimOf EXCEPT ![c] = k] /\ UNCHANGED quarantined
    BY <2>2 DEF Record
  <2>7. Gate!Trust(c, k)
    BY <2>3, <2>4, <2>5, <2>6 DEF Gate!Trust
  <2> QED BY <2>1, <2>7
<1>4. ASSUME NEW s \in Sessions, RetireWrite(s)
      PROVE  [\E c \in Candidates : Gate!Close(c)]_(Gate!vars)
  <2> DEFINE c == call[s].cand
  <2>1. c \in Candidates /\ status[c] # "none"
    BY <1>4 DEF RetireWrite, CallMatchesPc, ReviewedExists, Calls
  <2>2. /\ status' = [status EXCEPT ![c] = Verdict(call[s].op)]
        /\ UNCHANGED <<quarantined, overridden, claimOf>>
    BY <1>4 DEF RetireWrite
  <2>3. Verdict(call[s].op) \notin {"none", "pending"}
    BY DEF Verdict
  <2>4. CASE status[c] = "pending"
    <3>1. phaseOf[c] = "open" /\ phaseOf' = [phaseOf EXCEPT ![c] = "closed"]
      BY <2>1, <2>2, <2>3, <2>4 DEF phaseOf, ClaimedIsReviewed
    <3>2. Gate!Close(c)
      BY <2>2, <3>1 DEF Gate!Close
    <3> QED BY <2>1, <3>2
  <2>5. CASE status[c] # "pending"
    <3>1. phaseOf' = phaseOf
      BY <2>1, <2>2, <2>3, <2>5 DEF phaseOf
    <3> QED BY <2>2, <3>1 DEF Gate!vars
  <2> QED BY <2>4, <2>5
<1>5. [Next]_vars => \/ UNCHANGED rows
                     \/ \E s \in Sessions, c \in Candidates : Propose(s, c)
                     \/ \E s \in Sessions : PromoteCommit(s) \/ RetireWrite(s)
  BY DEF Next, Step, Promote, Retire, Submit, BeginImmediate, PromoteCheck,
         PromoteRefuse, RetireCheck, LockTimeout, Crash, vars, rows
<1> QED BY <1>1, <1>2, <1>3, <1>4, <1>5 DEF Gate!Next

\* The concurrent review, with its locks, races and crashes, decides each
\* candidate as the atomic gate does.
THEOREM ReviewImplementsGate == Spec => ImplementsGate
BY InvariantIInv, GateInit, GateStep, PTL DEF Spec, ImplementsGate, Gate!Spec
=============================================================================
