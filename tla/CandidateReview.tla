-------------------------- MODULE CandidateReview --------------------------
(***************************************************************************)
(* The review gate for memory candidates (candidates.py).                  *)
(*                                                                         *)
(* Anyone may propose a candidate; only a human or a librarian may turn it *)
(* into a claim.  Every caller is a session: a process or a request thread *)
(* with its own SQLite connection on one WAL database.  A SELECT outside a *)
(* transaction is a snapshot of its own, a write takes the one write lock, *)
(* and only promote() holds that lock from its first read to its commit.   *)
(* reject() and archive() read the row, and later write it.                *)
(***************************************************************************)
EXTENDS Naturals, FiniteSets

CONSTANTS Sessions,     \* connections with a call in progress
          Candidates,   \* ids memory_candidates may hand out
          Claims,       \* ids the claims table may hand out
          NoSession,    \* nobody holds the write lock
          NoCandidate,  \* a claim id without a row
          NoClaim       \* promoted_claim_id IS NULL

ASSUME SentinelsAreFresh == /\ NoSession \notin Sessions
                            /\ NoCandidate \notin Candidates
                            /\ NoClaim \notin Claims

ReviewerTypes == {"human", "librarian"}
CallerTypes == ReviewerTypes \cup {"agent"}
Statuses == {"pending", "promoted", "rejected", "archived"}
Overrides == {"none", "unreasoned", "reasoned"}
Verdicts == {"clean", "warn", "block"}

VARIABLES
    status,       \* memory_candidates.status, "none" while there is no row
    quarantined,  \* the candidates with metadata.quarantined, set at capture
    risk,         \* metadata.safety_at_promotion, "clean" while absent
    overridden,   \* the candidates with metadata.safety_override
    claimOf,      \* memory_candidates.promoted_claim_id
    candidateOf,  \* claims.candidate_id, NoCandidate while there is no row
    promotedBy,   \* the reviewer type a claim was promoted under
    lock,         \* the session whose open transaction holds the write lock
    pc,           \* where each session stands in its call
    call,         \* what each session was asked to do
    scan          \* the promotion scan's verdict, held by promote()

rows == <<status, quarantined, risk, overridden, claimOf, candidateOf, promotedBy>>
vars == <<rows, lock, pc, call, scan>>

Calls == [op : {"promote", "reject", "archive"}, cand : Candidates,
          by : CallerTypes, override : Overrides]

NoCall == [op |-> "none"]

Init ==
    /\ status = [c \in Candidates |-> "none"]
    /\ quarantined = {}
    /\ risk = [c \in Candidates |-> "clean"]
    /\ overridden = {}
    /\ claimOf = [c \in Candidates |-> NoClaim]
    /\ candidateOf = [k \in Claims |-> NoCandidate]
    /\ promotedBy = [k \in Claims |-> "none"]
    /\ lock = NoSession
    /\ pc = [s \in Sessions |-> "idle"]
    /\ call = [s \in Sessions |-> NoCall]
    /\ scan = [s \in Sessions |-> "clean"]

(***************************************************************************)
(* Sessions                                                                *)
(***************************************************************************)
Goto(s, label) == pc' = [pc EXCEPT ![s] = label]

Return(s) == /\ Goto(s, "idle")
             /\ call' = [call EXCEPT ![s] = NoCall]
             /\ scan' = [scan EXCEPT ![s] = "clean"]

\* A commit or a rollback ends the transaction; so does the end of the process.
Released(s) == IF lock = s THEN NoSession ELSE lock

\* create_checked: the row is inserted and committed in one transaction, and the
\* capture verdict decides whether it is born quarantined.  The source it points
\* at was committed before (module Capture).
Propose(s, c) ==
    /\ pc[s] = "idle"
    /\ lock = NoSession
    /\ status[c] = "none"
    /\ status' = [status EXCEPT ![c] = "pending"]
    /\ quarantined' \in {quarantined, quarantined \cup {c}}
    /\ UNCHANGED <<risk, overridden, claimOf, candidateOf, promotedBy,
                   lock, pc, call, scan>>

\* A reviewer's call arrives.  An agent type is refused before anything is read,
\* except by archive(), which has no type check.
Submit(s) ==
    /\ pc[s] = "idle"
    /\ \E request \in Calls :
          /\ request.op # "archive" => request.by \in ReviewerTypes
          /\ request.op # "promote" => request.override = "none"
          /\ call' = [call EXCEPT ![s] = request]
    /\ Goto(s, "called")
    /\ UNCHANGED <<rows, lock, scan>>

(***************************************************************************)
(* promote: BEGIN IMMEDIATE, check, write, commit                          *)
(***************************************************************************)
\* Mutant of Reviewable: an archived candidate may be picked up again.
ReviewableAgain(c) == status[c] \in {"pending", "archived"}

Reviewable(c) == status[c] = "pending"

BeginImmediate(s) ==
    /\ pc[s] = "called" /\ call[s].op = "promote"
    /\ lock = NoSession
    /\ lock' = s
    /\ Goto(s, "begun")
    /\ UNCHANGED <<rows, call, scan>>

\* Mutant of Blocked: the capture-time quarantine expires.
BlockedByRescan(c, verdict) == verdict = "block"

\* _safety_gate: what blocks a promotion, and when an override opens it.
Blocked(c, verdict) == verdict = "block" \/ c \in quarantined

GateOpen(c, verdict, requested) ==
    IF Blocked(c, verdict) THEN requested = "reasoned" ELSE requested = "none"

PromoteCheck(s) ==
    LET c == call[s].cand IN
    /\ pc[s] = "begun"
    /\ Reviewable(c)
    /\ \E verdict \in Verdicts :
          /\ GateOpen(c, verdict, call[s].override)
          /\ scan' = [scan EXCEPT ![s] = verdict]
    /\ Goto(s, "checked")
    /\ UNCHANGED <<rows, lock, call>>

\* Not found, not pending, or stopped at the safety gate: rollback and raise.
PromoteRefuse(s) ==
    LET c == call[s].cand IN
    /\ pc[s] = "begun"
    /\ \/ ~Reviewable(c)
       \/ \E verdict \in Verdicts : ~GateOpen(c, verdict, call[s].override)
    /\ lock' = Released(s)
    /\ Return(s)
    /\ UNCHANGED rows

\* INSERT INTO claims, and the candidate's row as the promotion leaves it.
Record(s, k) ==
    LET c == call[s].cand IN
    /\ candidateOf' = [candidateOf EXCEPT ![k] = c]
    /\ promotedBy' = [promotedBy EXCEPT ![k] = call[s].by]
    /\ status' = [status EXCEPT ![c] = "promoted"]
    /\ claimOf' = [claimOf EXCEPT ![c] = k]
    /\ overridden' = IF call[s].override = "reasoned" THEN overridden \cup {c}
                                                     ELSE overridden
    /\ risk' = [risk EXCEPT ![c] = scan[s]]
    /\ UNCHANGED quarantined

\* The writes and finalize().  The UPDATE is conditional on a pending row: when it
\* matches none, the inserted claim is rolled back.
PromoteCommit(s) ==
    /\ pc[s] = "checked"
    /\ \E k \in Claims :
          /\ candidateOf[k] = NoCandidate
          /\ IF Reviewable(call[s].cand) THEN Record(s, k) ELSE UNCHANGED rows
    /\ lock' = Released(s)
    /\ Return(s)

\* Mutant of Promote, the race its comment describes: no BEGIN IMMEDIATE, and an
\* UPDATE that does not look at the status again.
PromoteUnlocked(s) ==
    \/ /\ pc[s] = "called" /\ call[s].op = "promote"
       /\ Goto(s, "begun")
       /\ UNCHANGED <<rows, lock, call, scan>>
    \/ PromoteCheck(s)
    \/ PromoteRefuse(s)
    \/ /\ pc[s] = "checked" /\ lock = NoSession
       /\ \E k \in Claims : candidateOf[k] = NoCandidate /\ Record(s, k)
       /\ Return(s)
       /\ UNCHANGED lock

Promote(s) == \/ BeginImmediate(s)
              \/ PromoteCheck(s)
              \/ PromoteRefuse(s)
              \/ PromoteCommit(s)

(***************************************************************************)
(* reject and archive: a check, and an unconditional write                 *)
(***************************************************************************)
\* Mutant of Verdict: the operation's name is written as the status.
VerdictVerbatim(op) == op

Verdict(op) == IF op = "reject" THEN "rejected" ELSE "archived"

RetireCheck(s) ==
    /\ pc[s] = "called" /\ call[s].op \in {"reject", "archive"}
    /\ IF Reviewable(call[s].cand)
       THEN Goto(s, "reviewing") /\ UNCHANGED <<call, scan>>
       ELSE Return(s)
    /\ UNCHANGED <<rows, lock>>

RetireWrite(s) ==
    /\ pc[s] = "reviewing"
    /\ lock = NoSession
    /\ status' = [status EXCEPT ![call[s].cand] = Verdict(call[s].op)]
    /\ Return(s)
    /\ UNCHANGED <<quarantined, risk, overridden, claimOf, candidateOf,
                   promotedBy, lock>>

Retire(s) == RetireCheck(s) \/ RetireWrite(s)

(***************************************************************************)
(* What may end any call                                                   *)
(***************************************************************************)
\* PRAGMA busy_timeout: a session that wants the lock gives up after 10 seconds.
NeedsLock(s) == \/ pc[s] = "called" /\ call[s].op = "promote"
                \/ pc[s] = "reviewing"

\* Mutant of LockTimeout: reject() and archive() retry instead of giving up.
PromoteTimeout(s) ==
    /\ pc[s] = "called" /\ call[s].op = "promote"
    /\ lock # NoSession
    /\ Return(s)
    /\ UNCHANGED <<rows, lock>>

LockTimeout(s) ==
    /\ NeedsLock(s)
    /\ lock # NoSession
    /\ Return(s)
    /\ UNCHANGED <<rows, lock>>

\* The process dies, or the request is torn down: Repo.__exit__ closes without
\* committing and SQLite rolls the open transaction back.
Crash(s) ==
    /\ pc[s] # "idle"
    /\ lock' = Released(s)
    /\ Return(s)
    /\ UNCHANGED rows

Step(s) == Promote(s) \/ Retire(s) \/ LockTimeout(s)

Next == \E s \in Sessions : \/ \E c \in Candidates : Propose(s, c)
                            \/ Submit(s)
                            \/ Step(s)
                            \/ Crash(s)

\* A call that has started keeps running; nobody is obliged to make one.
Fairness == \A s \in Sessions : WF_vars(Step(s))

Spec == Init /\ [][Next]_vars

FairSpec == Spec /\ Fairness

(***************************************************************************)
(* Properties                                                              *)
(***************************************************************************)
\* The tables and the sessions' local state keep their shape.
TypeOK ==
    /\ status \in [Candidates -> Statuses \cup {"none"}]
    /\ quarantined \subseteq Candidates
    /\ risk \in [Candidates -> Verdicts]
    /\ overridden \subseteq Candidates
    /\ claimOf \in [Candidates -> Claims \cup {NoClaim}]
    /\ candidateOf \in [Claims -> Candidates \cup {NoCandidate}]
    /\ promotedBy \in [Claims -> ReviewerTypes \cup {"none"}]
    /\ lock \in Sessions \cup {NoSession}
    /\ pc \in [Sessions -> {"idle", "called", "begun", "checked", "reviewing"}]
    /\ call \in [Sessions -> Calls \cup {NoCall}]
    /\ scan \in [Sessions -> Verdicts]

\* Concurrent promotions never fork a candidate: claims.candidate_id and
\* memory_candidates.promoted_claim_id are inverse to each other, so a candidate
\* has at most one claim and every claim is the one its candidate names.
OneClaimPerCandidate ==
    \A k \in Claims, c \in Candidates : candidateOf[k] = c <=> claimOf[c] = k

\* A claim exists only when the safety gate was open to it: whatever was
\* quarantined at capture or blocked at promotion carries a recorded override,
\* an override is recorded on nothing else, and nothing done to the candidate
\* afterwards (a stale reject included) loses that record.
RiskWasAccepted ==
    \A c \in Candidates :
        c \in overridden <=> /\ claimOf[c] # NoClaim
                             /\ c \in quarantined \/ risk[c] = "block"

\* A candidate that was turned down is never turned into a claim later, however
\* the reject and a promotion that was already under way interleave.
TurnedDownStaysDown ==
    [][\A c \in Candidates :
          status[c] \in {"rejected", "archived"} => claimOf'[c] = claimOf[c]]_vars

\* A claim of record is final for its candidate: no later call relinks it.
ClaimIsFinal ==
    [][\A c \in Candidates :
          claimOf[c] # NoClaim => claimOf'[c] = claimOf[c]]_vars

\* Every call returns, with a result or an error, even when other sessions keep
\* taking the lock.
CallsReturn == \A s \in Sessions : pc[s] # "idle" ~> pc[s] = "idle"
=============================================================================
