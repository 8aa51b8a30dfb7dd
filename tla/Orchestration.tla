--------------------------- MODULE Orchestration ---------------------------
(***************************************************************************)
(* The capability registry (registry.py), the capture of telemetry         *)
(* (perfcapture.py) and the delegation of work to the two engines          *)
(* (delegate.py).  All three file candidates through create_checked: the   *)
(* registry and the capture under a marker nobody else can write, so that  *)
(* a fact is filed once and a model is trusted by a human's decision on    *)
(* that very row, whatever public tags others have squatted.               *)
(***************************************************************************)
EXTENDS Integers, FiniteSets, Sequences

CONSTANTS Sessions,      \* processes that seed, capture and delegate
          Runs,          \* what each session runs: "seed", "capture", "delegate"
          Models,        \* model names
          NoModel,
          Declared,      \* SEED_TIERS: the model of each role in the workloads' tier
          Telemetry,     \* the facts ComputeConnect may report, in the order of _sort_key
          Workloads,     \* the workload specs of the callers
          MaxRows,       \* bound on memory_candidates
          MaxSwaps       \* how often somebody edits SEED_TIERS

VARIABLES rows,          \* memory_candidates in id order, each with its claim of record
          disputed,      \* the rows whose claim is in an open contradiction
          declared,      \* SEED_TIERS of the program as installed
          swaps,
          job

vars == <<rows, disputed, declared, swaps, job>>
ledger == <<rows, disputed>>

Roles == {"preferred", "deployed"}
NoMark == "no mark"
Marks == Roles \cup {t.mark : t \in {Telemetry[k] : k \in DOMAIN Telemetry}}

OrchestrationAssumption ==
    /\ IsFiniteSet(Sessions)
    /\ Runs \in [Sessions -> SUBSET {"seed", "capture", "delegate"}]
    /\ NoModel \notin Models /\ Declared \in [Roles -> Models \cup {NoModel}]
    /\ NoMark \notin Marks

Idle == [at |-> "idle"]

Init ==
    /\ rows = <<>> /\ disputed = {}
    /\ declared = Declared /\ swaps = 0
    /\ job = [s \in Sessions |-> Idle]

At(s, place) == job[s].at = place
Goto(s, j) == job' = [job EXCEPT ![s] = j]

(***************************************************************************)
(* The ledger, as far as a marker can see it                               *)
(***************************************************************************)
\* A pending candidate; what it says of a model is its text.
Row(mark, tag, model) == [mark |-> mark, tag |-> tag, says |-> model, status |-> "pending"]

Appended(row) == Len(rows) < MaxRows /\ rows' = Append(rows, row) /\ UNCHANGED disputed

\* Anybody may capture under a registry tag: the reserved keys of the metadata are
\* stripped, the tags are not.
Squat ==
    /\ \E role \in Roles, m \in Models : Appended(Row(NoMark, role, m))
    /\ UNCHANGED <<declared, swaps, job>>

\* promote, reject and archive of a candidate.
Review(i) ==
    /\ rows[i].status = "pending"
    /\ \E decision \in {"promoted", "turned down"} : rows' = [rows EXCEPT ![i].status = decision]
    /\ UNCHANGED <<disputed, declared, swaps, job>>

\* What becomes of the claim of record: disputed, settled, lost in the dispute, rejected.
ClaimChanges(i) ==
    /\ rows[i].status = "promoted"
    /\ \/ i \notin disputed /\ disputed' = disputed \cup {i} /\ UNCHANGED rows
       \/ /\ disputed' = disputed \ {i}
          /\ \E now \in {"promoted", "revoked"} : rows' = [rows EXCEPT ![i].status = now]
    /\ ledger' # ledger
    /\ UNCHANGED <<declared, swaps, job>>

\* An edit of SEED_TIERS: a process goes on with the data it was started with.
Swap ==
    /\ swaps < MaxSwaps /\ swaps' = swaps + 1
    /\ \E role \in Roles, m \in Models : declared' = [declared EXCEPT ![role] = m]
    /\ declared' # declared
    /\ UNCHANGED <<ledger, job>>

(***************************************************************************)
(* Finding one's own rows                                                  *)
(***************************************************************************)
First(ids) == IF ids = {} THEN 0 ELSE CHOOSE i \in ids : \A k \in ids : i <= k

\* Mutant of Ours: a fact is found by its public tag.
OursByTag(mark) == First({i \in DOMAIN rows : mark \in {rows[i].tag, rows[i].mark}})

\* The first row that carries the marker; 0 when there is none.
Ours(mark) == First({i \in DOMAIN rows : rows[i].mark = mark})

\* Mutant of Filed: a row that was turned down does not count.
FiledAndOpen(mark) ==
    \E i \in DOMAIN rows : rows[i].mark = mark /\ rows[i].status # "turned down"

\* _status_for is not "absent"; _already_filed.
Filed(mark) == Ours(mark) # 0

(***************************************************************************)
(* seed and capture: one fact after the other, looked up and then filed    *)
(***************************************************************************)
Fact(mark, tag, model, clean) == [mark |-> mark, tag |-> tag, says |-> model, clean |-> clean]

\* The facts a tier contributes, in order.  The structural fact of a tier (ROLE_TIER) is filed
\* in the same way and left out.
Specs(data) ==
    LET named == SelectSeq(<<"preferred", "deployed">>, LAMBDA r : data[r] # NoModel)
    IN  [k \in DOMAIN named |-> Fact(named[k], named[k], data[named[k]], TRUE)]

Filing(call, facts) ==
    IF facts = <<>> THEN Idle ELSE [at |-> "look", call |-> call, todo |-> facts]

Seed(s) ==
    /\ At(s, "idle") /\ "seed" \in Runs[s]
    /\ Goto(s, Filing("seed", Specs(declared)))
    /\ UNCHANGED <<ledger, declared, swaps>>

\* The engine answers /health and reports some of the facts, each of them once; an entry
\* without an id or with a number that is not finite never becomes one.
Capture(s) ==
    /\ At(s, "idle") /\ "capture" \in Runs[s]
    /\ \E seen \in SUBSET DOMAIN Telemetry :
          LET kept == SelectSeq([k \in DOMAIN Telemetry |-> k], LAMBDA k : k \in seen)
          IN  Goto(s, Filing("capture", [k \in DOMAIN kept |->
                 LET t == Telemetry[kept[k]] IN Fact(t.mark, NoMark, t.model, t.clean)]))
    /\ UNCHANGED <<ledger, declared, swaps>>

\* The next fact of the run, or its end.
Onward(s) == Goto(s, IF job[s].call = "delegate" THEN Idle
                     ELSE Filing(job[s].call, Tail(job[s].todo)))

\* A filed fact is passed over, and one whose subject is not clean: it would become a scope.
Look(s) ==
    /\ At(s, "look")
    /\ LET fact == Head(job[s].todo)
       IN  IF Filed(fact.mark) \/ ~fact.clean THEN Onward(s)
           ELSE Goto(s, [job[s] EXCEPT !.at = "inbox"])
    /\ UNCHANGED <<ledger, declared, swaps>>

\* The scan blocks, the same text was captured in the same second, the lock timed out:
\* that ends a seed, while a capture notes it and goes on.
Refused(s) == IF job[s].call = "seed" THEN Goto(s, Idle) ELSE Onward(s)

\* create_checked files the text as a source and commits ...
Inbox(s) ==
    /\ At(s, "inbox")
    /\ \/ Goto(s, [at |-> "insert", call |-> job[s].call, todo |-> job[s].todo])
       \/ Refused(s)
    /\ UNCHANGED <<ledger, declared, swaps>>

\* ... and then the candidate, in a transaction of its own.
Insert(s) ==
    /\ At(s, "insert")
    /\ \/ LET f == Head(job[s].todo)
          IN  Appended(Row(f.mark, f.tag, f.says)) /\ Onward(s)
       \/ Refused(s) /\ UNCHANGED ledger
    /\ UNCHANGED <<declared, swaps>>

(***************************************************************************)
(* delegate: trusted capability, two answers, and the record of it         *)
(***************************************************************************)
\* resolve_privacy: what is not on the scale is as strict as can be.
Tiers == {"public", "public_redacted", "repo_sensitive", "local_only", "secret_sensitive"}
Effective(tier) == IF tier \in Tiers THEN tier ELSE "secret_sensitive"
MayLeaveBox(tier) == Effective(tier) \in {"public", "public_redacted"}

\* The caller's ceilings, tightened by the floor.
Ceilings(w) == {c \in w.allows : MayLeaveBox(w.tier)}

Delegate(s) ==
    /\ At(s, "idle") /\ "delegate" \in Runs[s]
    /\ \E w \in Workloads :
          Goto(s, [at |-> "row", call |-> "delegate", work |-> w, data |-> declared,
                   roles |-> {r \in Roles : declared[r] # NoModel},
                   row |-> 0, pinned |-> NoModel])
    /\ UNCHANGED <<ledger, declared, swaps>>

\* The preferred model comes first.
Turn(j) == IF "preferred" \in j.roles THEN "preferred" ELSE "deployed"
Asking(j, model) == [j EXCEPT !.at = "ask", !.roles = {}, !.row = 0, !.pinned = model]

\* The request is complete, or the next role is looked up.
NextRole(j) == IF j.roles \subseteq {Turn(j)} THEN Asking(j, NoModel)
               ELSE [j EXCEPT !.at = "row", !.roles = j.roles \ {Turn(j)}, !.row = 0]

\* _status_for: the candidate, its claim's status and the open contradictions are three
\* queries; a trusted model is pinned if the workload asks for it.
ReadRow(s) ==
    /\ At(s, "row")
    /\ IF job[s].roles = {} THEN Goto(s, Asking(job[s], NoModel))
       ELSE LET i == Ours(Turn(job[s]))
            IN  Goto(s, IF i # 0 /\ rows[i].status \in {"promoted", "revoked"}
                        THEN [job[s] EXCEPT !.at = "claim", !.row = i] ELSE NextRole(job[s]))
    /\ UNCHANGED <<ledger, declared, swaps>>

ReadClaim(s) ==
    /\ At(s, "claim")
    /\ Goto(s, IF rows[job[s].row].status = "promoted" THEN [job[s] EXCEPT !.at = "dispute"]
               ELSE NextRole(job[s]))
    /\ UNCHANGED <<ledger, declared, swaps>>

ReadDispute(s) ==
    LET j == job[s]
        model == j.data[Turn(j)]
    IN  /\ At(s, "dispute")
        /\ Goto(s, IF j.row \in disputed THEN NextRole(j)
                   ELSE Asking(j, IF j.work.pin THEN model ELSE NoModel))
        /\ UNCHANGED <<ledger, declared, swaps>>

\* What the engines may answer.  "unusable" is no client, no connection, a body that is
\* too large, too slow, not JSON or not a decision.
Unusable == "unusable"
Routings == {Unusable, "on box", "rented", "paid"}
NoEstimate == [class |-> Unusable, hosted |-> FALSE]
Estimates == {NoEstimate} \cup [class : {"local", "cloud", "rented", "external"}, hosted : BOOLEAN]

RoutingKind(answer) == IF answer \in {"rented", "paid"} THEN answer ELSE "on box"

\* The placement class decides, then a runtime or provider that names a hosted engine.
EstimateKind(answer) ==
    CASE answer.class = "cloud"    -> "paid"
      [] answer.class = "rented"   -> "rented"
      [] answer.class = "external" -> "external"
      [] OTHER -> IF answer.hosted THEN "external" ELSE "on box"

\* Mutant of Admitted: the caller's ceiling on everything off the box is not looked at.
AdmittedByFloor(kind, w) ==
    kind = "on box" \/ (MayLeaveBox(w.tier) /\ (kind = "external" \/ kind \in Ceilings(w)))

\* _offbox_rejection: by the floor and the ceilings, never by what the engine says.
Admitted(kind, w) ==
    kind = "on box" \/ /\ MayLeaveBox(w.tier) /\ "external" \in Ceilings(w)
                       /\ kind = "external" \/ kind \in Ceilings(w)

\* Both answers are kept or refused on their own; only two kept ones are a delegation.
Ask(s) ==
    /\ At(s, "ask")
    /\ \E routing \in Routings, estimate \in Estimates :
          LET w == job[s].work
              r == IF Admitted(RoutingKind(routing), w) THEN routing ELSE Unusable
              e == IF Admitted(EstimateKind(estimate), w) THEN estimate ELSE NoEstimate
          IN  Goto(s, [at |-> "inbox", call |-> "delegate", work |-> w, data |-> job[s].data,
                       pinned |-> job[s].pinned, routing |-> r, estimate |-> e,
                       delegated |-> r # Unusable /\ e # NoEstimate,
                       todo |-> <<Fact(NoMark, NoMark, NoModel, TRUE)>>])
    /\ UNCHANGED <<ledger, declared, swaps>>

\* An exception nobody catches, or the end of the process.
Crash(s) ==
    /\ ~At(s, "idle") /\ Goto(s, Idle)
    /\ UNCHANGED <<ledger, declared, swaps>>

Ledger == Squat \/ Swap \/ \E i \in DOMAIN rows : Review(i) \/ ClaimChanges(i)

Session(s) ==
    \/ Seed(s) \/ Capture(s) \/ Look(s) \/ Inbox(s) \/ Insert(s)
    \/ Delegate(s) \/ ReadRow(s) \/ ReadClaim(s) \/ ReadDispute(s) \/ Ask(s) \/ Crash(s)

Next == Ledger \/ \E s \in Sessions : Session(s)

Spec == Init /\ [][Next]_vars

-----------------------------------------------------------------------------
Decided(s) == job[s].at = "inbox" /\ job[s].call = "delegate"

\* Rows that are ours and were believed by a human at some time.
Believed == {i \in DOMAIN rows : rows[i].mark # NoMark /\ rows[i].status \in {"promoted", "revoked"}}

\* registry.py, perfcapture.py: however seeds and captures race, fail and are repeated,
\* and whatever a human decides on the rows, a fact has at most one row for each process
\* that can be between its look-up and its insert.
FiledOncePerRacer ==
    \A m \in Marks :
        Cardinality({i \in DOMAIN rows : rows[i].mark = m})
            <= Cardinality({s \in Sessions : Runs[s] \cap {"seed", "capture"} # {}})

\* A pinned model stands in the seed data of a role whose own fact a human promoted: a
\* squatter's row, promoted or not, pins nothing.
OursIsPinned(s) ==
    job[s].pinned # NoModel =>
        \E i \in Believed : rows[i].mark \in Roles /\ job[s].data[rows[i].mark] = job[s].pinned

\* An answer that is kept and shows an off-box place in either of its signs is one the
\* workload's own tier and the caller allow.
NothingIsWidened(s) ==
    LET w == job[s].work
        outside == /\ w.tier \in {"public", "public_redacted"} /\ "external" \in w.allows
    IN  /\ job[s].routing \in {"rented", "paid"} => outside /\ job[s].routing \in w.allows
        /\ job[s].estimate.class \in {"cloud", "rented", "external"} \/ job[s].estimate.hosted
              => outside
        /\ job[s].estimate.class = "rented" => "rented" \in w.allows
        /\ job[s].estimate.class = "cloud" => "paid" \in w.allows

\* delegate.py: whatever the engines answer and whoever has squatted the registry's tags,
\* what is recorded as decided pins only a model named for a role whose own row a human
\* promoted (which model that row named is PinnedWasPromoted's question), and places nothing
\* where the workload may not go.
DelegatesWithinItsRights ==
    \A s \in Sessions : Decided(s) => OursIsPinned(s) /\ NothingIsWidened(s)

\* docs/REGISTRY.md:94-95, delegate.py:246-247: a model is pinned only when a human has promoted
\* that model; after an edit of SEED_TIERS it takes a promotion of the new one.
PinnedWasPromoted ==
    \A s \in Sessions :
        Decided(s) /\ job[s].pinned # NoModel => \E i \in Believed : rows[i].says = job[s].pinned

=============================================================================
