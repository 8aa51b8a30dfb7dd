------------------------ MODULE OrchestrationProofs -------------------------
(***************************************************************************)
(* For any sessions, models, facts, workloads and bounds: what a decision  *)
(* pins rests on a row of our own that a human promoted, what it places    *)
(* off the box the workload allows, and a fact has no more rows than there *)
(* are processes that file facts.                                          *)
(***************************************************************************)
EXTENDS Orchestration, FiniteSetTheorems, WellFoundedInduction, TLAPS

RowsOK ==
    /\ \E S : rows \in Seq(S)
    /\ \A i \in DOMAIN rows : {"mark", "status"} \subseteq DOMAIN rows[i]

BelievedStatus == {"promoted", "revoked"}
Filers == {s \in Sessions : Runs[s] \cap {"seed", "capture"} # {}}
Reading == {"row", "claim", "dispute"}

\* A row that a session reads trust from.
Vouching(i, role) ==
    /\ i \in DOMAIN rows /\ rows[i].mark = role
    /\ rows[i].status \in BelievedStatus

PinIsOurs(j) ==
    j.pinned # NoModel =>
        \E i \in DOMAIN rows : /\ rows[i].mark \in Roles /\ rows[i].status \in BelievedStatus
                               /\ j.data[rows[i].mark] = j.pinned

Widens(j) ==
    LET w == j.work
        outside == /\ w.tier \in {"public", "public_redacted"} /\ "external" \in w.allows
    IN  /\ j.routing \in {"rented", "paid"} => outside /\ j.routing \in w.allows
        /\ j.estimate.class \in {"cloud", "rented", "external"} \/ j.estimate.hosted => outside
        /\ j.estimate.class = "rented" => "rented" \in w.allows
        /\ j.estimate.class = "cloud" => "paid" \in w.allows

Filer(s, j) ==
    /\ {"at", "call", "todo"} \subseteq DOMAIN j
    /\ j.call \in {"seed", "capture", "delegate"}
    /\ j.call # "delegate" => s \in Filers
    /\ j.call = "delegate" => Head(j.todo).mark = NoMark

Delegator(j) ==
    /\ {"at", "call", "work", "data", "roles", "row", "pinned"} \subseteq DOMAIN j
    /\ j.call = "delegate" /\ j.roles \subseteq Roles
    /\ j.at \in Reading => j.pinned = NoModel
    /\ j.at \in {"claim", "dispute"} => j.roles # {} /\ Vouching(j.row, Turn(j))
    /\ j.at = "ask" => PinIsOurs(j)

JobOK(s, j) ==
    /\ "at" \in DOMAIN j
    /\ j.at \in {"look", "inbox", "insert"} => Filer(s, j)
    /\ j.at = "look" => j.call # "delegate"
    /\ j.at = "inbox" /\ j.call = "delegate" => PinIsOurs(j) /\ Widens(j)
    /\ j.at \in Reading \cup {"ask"} => Delegator(j)

Jobs ==
    /\ job = [s \in Sessions |-> job[s]]
    /\ \A s \in Sessions : JobOK(s, job[s])

Good == RowsOK /\ Jobs

-----------------------------------------------------------------------------
(* The first of some rows *)

LEMMA LeastOf ==
    ASSUME NEW ids \in SUBSET Nat, ids # {}
    PROVE  First(ids) \in ids
<1> DEFINE R == {p \in Nat \X Nat : p[1] < p[2]}
<1>1. IsWellFoundedOn(R, Nat)
  BY NatLessThanWellFounded DEF OpToRel
<1>2. PICK u \in ids : \A w \in ids : <<w, u>> \notin R
  BY <1>1, WFMin
<1>3. \A w \in ids : u <= w
  <2> TAKE w \in ids
  <2>1. <<w, u>> \notin R
    BY <1>2
  <2>2. w \in Nat /\ u \in Nat
    OBVIOUS
  <2>3. ~(w < u)
    BY <2>1, <2>2
  <2> QED BY <2>2, <2>3
<1>4. (CHOOSE i \in ids : \A k \in ids : i <= k) \in ids
  BY <1>3
<1> QED BY <1>4 DEF First

LEMMA OursIsThere ==
    ASSUME RowsOK, NEW mark
    PROVE  /\ Ours(mark) # 0 => Ours(mark) \in DOMAIN rows /\ rows[Ours(mark)].mark = mark
           /\ Ours(mark) = 0 => \A i \in DOMAIN rows : rows[i].mark # mark
<1> DEFINE ids == {i \in DOMAIN rows : rows[i].mark = mark}
<1>1. ids \in SUBSET Nat /\ 0 \notin ids
  BY DEF RowsOK
<1>2. CASE ids = {}
  BY <1>2 DEF Ours, First
<1>3. CASE ids # {}
  <2>1. First(ids) \in ids
    BY <1>1, <1>3, LeastOf
  <2> QED BY <1>1, <2>1 DEF Ours
<1> QED BY <1>2, <1>3

-----------------------------------------------------------------------------
(* What a step leaves alone *)

\* No row goes, changes its marker or stops having been believed.
RowsKept ==
    /\ DOMAIN rows \subseteq DOMAIN rows'
    /\ \A i \in DOMAIN rows : /\ rows'[i].mark = rows[i].mark
                              /\ rows[i].status \in BelievedStatus => rows'[i].status \in BelievedStatus

LEMMA AppendKeeps ==
    ASSUME RowsOK, NEW row, {"mark", "status"} \subseteq DOMAIN row, Appended(row)
    PROVE  /\ RowsOK' /\ RowsKept
           /\ DOMAIN rows' = DOMAIN rows \cup {Len(rows) + 1}
           /\ Len(rows) \in Nat /\ Len(rows) + 1 \notin DOMAIN rows
           /\ rows'[Len(rows) + 1] = row
<1>1. PICK S : rows \in Seq(S)
  BY DEF RowsOK
<1>2. /\ rows' = Append(rows, row) /\ rows \in Seq(S \cup {row})
  BY <1>1 DEF Appended
<1>3. rows' \in Seq(S \cup {row})
  BY <1>2
<1>4. /\ DOMAIN rows = 1..Len(rows) /\ Len(rows) \in Nat
      /\ DOMAIN rows' = 1..(Len(rows) + 1)
      /\ \A i \in DOMAIN rows : rows'[i] = rows[i]
      /\ rows'[Len(rows) + 1] = row
  BY <1>2
<1>5. RowsOK'
  BY <1>3, <1>4 DEF RowsOK
<1> QED BY <1>4, <1>5 DEF RowsKept

LEMMA StatusKeeps ==
    ASSUME RowsOK, NEW i \in DOMAIN rows, NEW status, rows' = [rows EXCEPT ![i].status = status],
           rows[i].status \in BelievedStatus => status \in BelievedStatus
    PROVE  RowsOK' /\ RowsKept /\ DOMAIN rows' = DOMAIN rows
<1> DEFINE new == [rows[i] EXCEPT !.status = status]
<1>1. PICK S : rows \in Seq(S)
  BY DEF RowsOK
<1>2. rows' = [rows EXCEPT ![i] = new] /\ rows \in Seq(S \cup {new})
  BY <1>1
<1>3. DOMAIN new = DOMAIN rows[i] /\ new.mark = rows[i].mark /\ new.status = status
  BY DEF RowsOK
<1> HIDE DEF new
<1>4. rows' \in Seq(S \cup {new}) /\ DOMAIN rows' = DOMAIN rows
  BY <1>2
<1>5. \A k \in DOMAIN rows : rows'[k] = IF k = i THEN new ELSE rows[k]
  BY <1>2
<1>6. RowsOK'
  <2>1. ASSUME NEW k \in DOMAIN rows'
        PROVE  {"mark", "status"} \subseteq DOMAIN rows'[k]
    <3>1. k \in DOMAIN rows
      BY <1>4
    <3>2. CASE k = i
      BY <1>3, <1>5, <3>1, <3>2 DEF RowsOK
    <3>3. CASE k # i
      BY <1>5, <3>1, <3>3 DEF RowsOK
    <3> QED BY <3>2, <3>3
  <2> QED BY <1>4, <2>1 DEF RowsOK
<1>7. ASSUME NEW k \in DOMAIN rows
      PROVE  /\ rows'[k].mark = rows[k].mark
             /\ rows[k].status \in BelievedStatus => rows'[k].status \in BelievedStatus
  <2>1. CASE k = i
    BY <1>3, <1>5, <2>1
  <2>2. CASE k # i
    BY <1>5, <2>2
  <2> QED BY <2>1, <2>2
<1> QED BY <1>4, <1>6, <1>7 DEF RowsKept

LEMMA RowsStay == ASSUME RowsOK, UNCHANGED rows PROVE RowsOK' /\ RowsKept
BY DEF RowsOK, RowsKept

LEMMA JobKeeps ==
    ASSUME RowsKept, NEW s, NEW j, JobOK(s, j)
    PROVE  JobOK(s, j)'
<1>1. PinIsOurs(j) => PinIsOurs(j)'
  <2>1. ASSUME NEW i \in DOMAIN rows, rows[i].mark \in Roles, rows[i].status \in BelievedStatus,
               j.data[rows[i].mark] = j.pinned
        PROVE  /\ i \in DOMAIN rows' /\ rows'[i].mark \in Roles /\ rows'[i].status \in BelievedStatus
               /\ j.data[rows'[i].mark] = j.pinned
    BY <2>1 DEF RowsKept
  <2> QED BY <2>1 DEF PinIsOurs
<1>2. Vouching(j.row, Turn(j)) => Vouching(j.row, Turn(j))'
  BY DEF Vouching, RowsKept
<1>3. Delegator(j) => Delegator(j)'
  BY <1>1, <1>2 DEF Delegator
<1> QED BY <1>1, <1>3 DEF JobOK, Filer, Widens

LEMMA JobsStay == ASSUME Jobs, RowsKept, UNCHANGED job PROVE Jobs'
<1>1. ASSUME NEW s \in Sessions
      PROVE  JobOK(s, job[s])'
  BY JobKeeps DEF Jobs
<1> QED BY <1>1 DEF Jobs

\* A job that is replaced, the others as they were.
LEMMA JobsKeep ==
    ASSUME Jobs, RowsKept, NEW s \in Sessions, NEW j, Goto(s, j), JobOK(s, j)'
    PROVE  Jobs'
<1>1. job' = [v \in Sessions |-> IF v = s THEN j ELSE job[v]]
  BY DEF Jobs, Goto
<1>2. ASSUME NEW v \in Sessions
      PROVE  JobOK(v, job[v])'
  <2>1. CASE v = s
    <3>1. job'[v] = j
      BY <1>1, <2>1
    <3> QED BY <2>1, <3>1
  <2>2. CASE v # s
    <3>1. job'[v] = job[v]
      BY <1>1, <2>2
    <3>2. JobOK(v, job[v])
      BY DEF Jobs
    <3>3. ASSUME NEW x, JobOK(v, x) PROVE JobOK(v, x)'
      BY <3>3, JobKeeps
    <3> QED BY <3>1, <3>2, <3>3
  <2> QED BY <2>1, <2>2
<1> QED BY <1>1, <1>2 DEF Jobs

LEMMA IdleKeeps == ASSUME Jobs, RowsKept, NEW s \in Sessions, Goto(s, Idle) PROVE Jobs'
<1>1. JobOK(s, Idle)'
  BY DEF JobOK, Idle, Reading
<1> QED BY <1>1, JobsKeep

-----------------------------------------------------------------------------
(* seed and capture *)

LEMMA FilingOK ==
    ASSUME NEW s \in Filers, NEW call \in {"seed", "capture"}, NEW facts
    PROVE  JobOK(s, Filing(call, facts))
<1>1. CASE facts = <<>>
  BY <1>1 DEF Filing, JobOK, Idle, Reading
<1>2. CASE facts # <<>>
  <2>1. Filing(call, facts) = [at |-> "look", call |-> call, todo |-> facts]
    BY <1>2 DEF Filing
  <2> QED BY <2>1 DEF JobOK, Reading, Filer
<1> QED BY <1>1, <1>2

LEMMA FilingKeeps ==
    ASSUME Jobs, RowsKept, NEW s \in Filers, NEW call \in {"seed", "capture"}, NEW facts,
           Goto(s, Filing(call, facts))
    PROVE  Jobs'
<1>1. JobOK(s, Filing(call, facts))'
  BY FilingOK, JobKeeps
<1> QED BY <1>1, JobsKeep DEF Filers

LEMMA OnwardKeeps ==
    ASSUME Jobs, RowsKept, NEW s \in Sessions, job[s].at \in {"look", "inbox", "insert"}, Onward(s)
    PROVE  Jobs'
<1>0. job[s].call \in {"seed", "capture", "delegate"}
  BY DEF Jobs, JobOK, Filer
<1>1. CASE job[s].call = "delegate"
  BY <1>1, IdleKeeps DEF Onward
<1>2. CASE job[s].call # "delegate"
  <2>1. s \in Filers
    BY <1>2 DEF Jobs, JobOK, Filer
  <2> QED BY <1>0, <1>2, <2>1, FilingKeeps DEF Onward
<1> QED BY <1>1, <1>2

LEMMA RefusedKeeps ==
    ASSUME Jobs, RowsKept, NEW s \in Sessions, job[s].at \in {"look", "inbox", "insert"}, Refused(s)
    PROVE  Jobs'
BY IdleKeeps, OnwardKeeps DEF Refused

LEMMA LookKeeps == ASSUME Good, NEW s \in Sessions, Look(s) PROVE Good'
<1>1. RowsOK' /\ RowsKept /\ job[s].at = "look"
  BY RowsStay DEF Good, Look, At, ledger
<1>2. CASE Onward(s)
  BY <1>1, <1>2, OnwardKeeps DEF Good
<1>3. CASE Goto(s, [job[s] EXCEPT !.at = "inbox"])
  <2>1. JobOK(s, job[s])
    BY DEF Good, Jobs
  <2>2. JobOK(s, [job[s] EXCEPT !.at = "inbox"])
    BY <1>1, <2>1 DEF JobOK, Filer, Reading
  <2>3. ASSUME NEW x, JobOK(s, x), Goto(s, x)
        PROVE  Good'
    BY <1>1, <2>3, JobKeeps, JobsKeep DEF Good
  <2> QED BY <1>3, <2>2, <2>3
<1> QED BY <1>1, <1>2, <1>3 DEF Look, Good

LEMMA InboxKeeps == ASSUME Good, NEW s \in Sessions, Inbox(s) PROVE Good'
<1> DEFINE j == [at |-> "insert", call |-> job[s].call, todo |-> job[s].todo]
<1>1. RowsOK' /\ RowsKept /\ job[s].at = "inbox"
  BY RowsStay DEF Good, Inbox, At, ledger
<1>2. CASE Refused(s)
  BY <1>1, <1>2, RefusedKeeps DEF Good
<1>3. CASE Goto(s, j)
  <2>1. JobOK(s, job[s])
    BY DEF Good, Jobs
  <2>2. JobOK(s, j)
    BY <1>1, <2>1 DEF JobOK, Filer, Reading
  <2>3. ASSUME NEW x, JobOK(s, x), Goto(s, x)
        PROVE  Good'
    BY <1>1, <2>3, JobKeeps, JobsKeep DEF Good
  <2> QED BY <1>3, <2>2, <2>3
<1> QED BY <1>1, <1>2, <1>3 DEF Inbox, Good

LEMMA InsertKeeps == ASSUME Good, NEW s \in Sessions, Insert(s) PROVE Good'
<1>1. job[s].at = "insert"
  BY DEF Insert, At
<1>2. CASE Refused(s) /\ UNCHANGED ledger
  <2>1. RowsOK' /\ RowsKept
    BY <1>2, RowsStay DEF Good, ledger
  <2> QED BY <1>1, <1>2, <2>1, RefusedKeeps DEF Good
<1>3. ASSUME NEW row, row = Row(Head(job[s].todo).mark, Head(job[s].todo).tag, Head(job[s].todo).says),
             Appended(row), Onward(s)
      PROVE  Good'
  <2>1. {"mark", "status"} \subseteq DOMAIN row
    BY <1>3 DEF Row
  <2>2. RowsOK' /\ RowsKept
    BY <1>3, <2>1, AppendKeeps DEF Good
  <2> QED BY <1>1, <1>3, <2>2, OnwardKeeps DEF Good
<1> QED BY <1>2, <1>3 DEF Insert

-----------------------------------------------------------------------------
(* delegate *)

LEMMA NextRoleOK ==
    ASSUME NEW s, NEW j, Delegator(j), j.at \in Reading, j.pinned = NoModel
    PROVE  JobOK(s, NextRole(j))
<1>1. CASE NextRole(j) = Asking(j, NoModel)
  BY <1>1 DEF JobOK, Delegator, Asking, PinIsOurs, Reading
<1>2. CASE NextRole(j) = [j EXCEPT !.at = "row", !.roles = j.roles \ {Turn(j)}, !.row = 0]
  BY <1>2 DEF JobOK, Delegator, PinIsOurs, Reading
<1> QED BY <1>1, <1>2 DEF NextRole

LEMMA ReadRowKeeps == ASSUME Good, NEW s \in Sessions, ReadRow(s) PROVE Good'
<1> DEFINE j == job[s]
           i == Ours(Turn(j))
<1>1. RowsOK' /\ RowsKept /\ j.at = "row"
  BY RowsStay DEF Good, ReadRow, At, ledger
<1>2. Delegator(j) /\ j.pinned = NoModel
  BY <1>1 DEF Good, Jobs, JobOK, Delegator, Reading
<1>3. ASSUME NEW new, JobOK(s, new), Goto(s, new)
      PROVE  Good'
  BY <1>1, <1>3, JobKeeps, JobsKeep DEF Good
<1>4. CASE j.roles = {}
  <2>1. JobOK(s, Asking(j, NoModel))
    BY <1>2 DEF JobOK, Delegator, Asking, PinIsOurs, Reading
  <2> QED BY <1>3, <1>4, <2>1 DEF ReadRow
<1>5. CASE Goto(s, NextRole(j))
  BY <1>1, <1>2, <1>3, <1>5, NextRoleOK DEF Reading
<1>6. CASE j.roles # {} /\ i # 0 /\ rows[i].status \in BelievedStatus
           /\ Goto(s, [j EXCEPT !.at = "claim", !.row = i])
  <2>1. i \in DOMAIN rows /\ rows[i].mark = Turn(j)
    BY <1>6, OursIsThere DEF Good
  <2> HIDE DEF i
  <2>2. Turn([j EXCEPT !.at = "claim", !.row = i]) = Turn(j)
    BY <1>2 DEF Turn, Delegator
  <2>3. JobOK(s, [j EXCEPT !.at = "claim", !.row = i])
    BY <1>2, <1>6, <2>1, <2>2 DEF JobOK, Delegator, Vouching, Reading
  <2> QED BY <1>3, <1>6, <2>3
<1> QED BY <1>4, <1>5, <1>6 DEF ReadRow, BelievedStatus

LEMMA ReadClaimKeeps == ASSUME Good, NEW s \in Sessions, ReadClaim(s) PROVE Good'
<1> DEFINE j == job[s]
<1>1. RowsOK' /\ RowsKept /\ j.at = "claim"
  BY RowsStay DEF Good, ReadClaim, At, ledger
<1>2. Delegator(j) /\ j.pinned = NoModel
  BY <1>1 DEF Good, Jobs, JobOK, Delegator, Reading
<1>3. ASSUME NEW new, JobOK(s, new), Goto(s, new)
      PROVE  Good'
  BY <1>1, <1>3, JobKeeps, JobsKeep DEF Good
<1>4. JobOK(s, NextRole(j))
  BY <1>1, <1>2, NextRoleOK DEF Reading
<1>5. JobOK(s, [j EXCEPT !.at = "dispute"])
  <2>1. Turn([j EXCEPT !.at = "dispute"]) = Turn(j)
    BY <1>2 DEF Turn, Delegator
  <2> QED BY <1>1, <1>2, <2>1 DEF JobOK, Delegator, Reading
<1> QED BY <1>3, <1>4, <1>5 DEF ReadClaim

LEMMA ReadDisputeKeeps == ASSUME Good, NEW s \in Sessions, ReadDispute(s) PROVE Good'
<1> DEFINE j == job[s]
           model == IF j.work.pin THEN j.data[Turn(j)] ELSE NoModel
<1>1. RowsOK' /\ RowsKept /\ j.at = "dispute"
  BY RowsStay DEF Good, ReadDispute, At, ledger
<1>2. Delegator(j) /\ j.pinned = NoModel
  BY <1>1 DEF Good, Jobs, JobOK, Delegator, Reading
<1>3. ASSUME NEW new, JobOK(s, new), Goto(s, new)
      PROVE  Good'
  BY <1>1, <1>3, JobKeeps, JobsKeep DEF Good
<1>4. JobOK(s, NextRole(j))
  BY <1>1, <1>2, NextRoleOK DEF Reading
<1>5. JobOK(s, Asking(j, model))
  <2>1. Vouching(j.row, Turn(j)) /\ Turn(j) \in Roles
    BY <1>1, <1>2 DEF Delegator, Turn, Roles
  <2> DEFINE new == Asking(j, model)
  <2>2. /\ new.data = j.data /\ new.pinned = model /\ new.at = "ask" /\ new.call = "delegate"
        /\ new.roles = {} /\ DOMAIN new = DOMAIN j
    BY <1>2 DEF Asking, Delegator
  <2>3. PinIsOurs(new)
    BY <2>1, <2>2 DEF PinIsOurs, Vouching
  <2> HIDE DEF new
  <2>4. JobOK(s, new)
    BY <1>2, <2>2, <2>3 DEF JobOK, Delegator, Reading
  <2> QED BY <2>4 DEF new
<1> QED BY <1>3, <1>4, <1>5 DEF ReadDispute

LEMMA AskKeeps == ASSUME Good, NEW s \in Sessions, Ask(s) PROVE Good'
<1>1. RowsOK' /\ RowsKept /\ job[s].at = "ask"
  BY RowsStay DEF Good, Ask, At, ledger
<1>2. Delegator(job[s]) /\ PinIsOurs(job[s])
  BY <1>1 DEF Good, Jobs, JobOK, Delegator
<1>3. PICK routing \in Routings, estimate \in Estimates :
          LET w == job[s].work
              r == IF Admitted(RoutingKind(routing), w) THEN routing ELSE Unusable
              e == IF Admitted(EstimateKind(estimate), w) THEN estimate ELSE NoEstimate
          IN  Goto(s, [at |-> "inbox", call |-> "delegate", work |-> w, data |-> job[s].data,
                       pinned |-> job[s].pinned, routing |-> r, estimate |-> e,
                       delegated |-> r # Unusable /\ e # NoEstimate,
                       todo |-> <<Fact(NoMark, NoMark, NoModel, TRUE)>>])
  BY DEF Ask
<1> DEFINE w == job[s].work
           r == IF Admitted(RoutingKind(routing), w) THEN routing ELSE Unusable
           e == IF Admitted(EstimateKind(estimate), w) THEN estimate ELSE NoEstimate
           j == [at |-> "inbox", call |-> "delegate", work |-> w, data |-> job[s].data,
                 pinned |-> job[s].pinned, routing |-> r, estimate |-> e,
                 delegated |-> r # Unusable /\ e # NoEstimate,
                 todo |-> <<Fact(NoMark, NoMark, NoModel, TRUE)>>]
           outside == w.tier \in {"public", "public_redacted"} /\ "external" \in w.allows
<1>4. ASSUME NEW kind, Admitted(kind, w), kind # "on box"
      PROVE  outside /\ (kind = "external" \/ kind \in w.allows)
  BY <1>4 DEF Admitted, MayLeaveBox, Effective, Ceilings, Tiers
<1>5. r \in {"rented", "paid"} => outside /\ r \in w.allows
  <2>1. HAVE r \in {"rented", "paid"}
  <2>2. r = routing /\ Admitted(RoutingKind(routing), w)
    BY <2>1 DEF Unusable
  <2>3. RoutingKind(routing) = r
    BY <2>1, <2>2 DEF RoutingKind
  <2> QED BY <1>4, <2>1, <2>2, <2>3
<1>6. /\ e.class \in {"cloud", "rented", "external"} \/ e.hosted => outside
      /\ e.class = "rented" => "rented" \in w.allows
      /\ e.class = "cloud" => "paid" \in w.allows
  <2>1. CASE Admitted(EstimateKind(estimate), w)
    <3>1. e = estimate
      BY <2>1
    <3>2. /\ e.class = "cloud" => EstimateKind(e) = "paid"
          /\ e.class = "rented" => EstimateKind(e) = "rented"
          /\ e.class = "external" => EstimateKind(e) = "external"
          /\ e.class \notin {"cloud", "rented", "external"} /\ e.hosted
                => EstimateKind(e) = "external"
      BY DEF EstimateKind
    <3>3. EstimateKind(e) # "on box"
              => outside /\ (EstimateKind(e) = "external" \/ EstimateKind(e) \in w.allows)
      BY <1>4, <2>1, <3>1
    <3> HIDE DEF e, outside
    <3> QED BY <3>2, <3>3
  <2>2. CASE ~Admitted(EstimateKind(estimate), w)
    <3>1. e = NoEstimate
      BY <2>2
    <3>2. e.class = Unusable /\ e.hosted = FALSE
      BY <3>1 DEF NoEstimate
    <3> QED BY <3>2 DEF Unusable
  <2> QED BY <2>1, <2>2
<1> HIDE DEF r, e
<1>7. Widens(j)
  BY <1>5, <1>6 DEF Widens
<1>8. PinIsOurs(j)
  BY <1>2 DEF PinIsOurs
<1>9. Filer(s, j)
  BY DEF Filer, Fact
<1>10. JobOK(s, j)
  BY <1>7, <1>8, <1>9 DEF JobOK, Reading
<1>11. Goto(s, j)
  BY <1>3 DEF r, e
<1>12. ASSUME NEW x, JobOK(s, x), Goto(s, x)
       PROVE  Good'
  BY <1>1, <1>12, JobKeeps, JobsKeep DEF Good
<1> QED BY <1>10, <1>11, <1>12

LEMMA DelegateKeeps == ASSUME Good, NEW s \in Sessions, Delegate(s) PROVE Good'
<1>1. RowsOK' /\ RowsKept
  BY RowsStay DEF Good, Delegate, ledger
<1>2. PICK w \in Workloads :
          Goto(s, [at |-> "row", call |-> "delegate", work |-> w, data |-> declared,
                   roles |-> {r \in Roles : declared[r] # NoModel},
                   row |-> 0, pinned |-> NoModel])
  BY DEF Delegate
<1> DEFINE j == [at |-> "row", call |-> "delegate", work |-> w, data |-> declared,
                 roles |-> {r \in Roles : declared[r] # NoModel},
                 row |-> 0, pinned |-> NoModel]
<1>3. JobOK(s, j)
  BY DEF JobOK, Delegator, Reading
<1>4. ASSUME NEW x, JobOK(s, x), Goto(s, x)
      PROVE  Good'
  BY <1>1, <1>4, JobKeeps, JobsKeep DEF Good
<1> QED BY <1>2, <1>3, <1>4

-----------------------------------------------------------------------------
(* The other steps *)

LEMMA SeedKeeps == ASSUME Good, NEW s \in Sessions, Seed(s) PROVE Good'
<1>1. RowsOK' /\ RowsKept /\ s \in Filers
  BY RowsStay DEF Good, Seed, ledger, Filers
<1> QED BY <1>1, FilingKeeps DEF Good, Seed

LEMMA CaptureKeeps == ASSUME Good, NEW s \in Sessions, Capture(s) PROVE Good'
<1>1. RowsOK' /\ RowsKept /\ s \in Filers
  BY RowsStay DEF Good, Capture, ledger, Filers
<1>2. PICK facts : Goto(s, Filing("capture", facts))
  BY DEF Capture
<1> QED BY <1>1, <1>2, FilingKeeps DEF Good

LEMMA CrashKeeps == ASSUME Good, NEW s \in Sessions, Crash(s) PROVE Good'
BY RowsStay, IdleKeeps DEF Good, Crash, ledger

LEMMA SquatKeeps == ASSUME RowsOK, Squat PROVE RowsOK' /\ RowsKept
<1>1. PICK role \in Roles, m \in Models : Appended(Row(NoMark, role, m))
  BY DEF Squat
<1> QED BY <1>1, AppendKeeps DEF Row

LEMMA ReviewKeeps ==
    ASSUME RowsOK, NEW i \in DOMAIN rows, Review(i)
    PROVE  RowsOK' /\ RowsKept /\ DOMAIN rows' = DOMAIN rows
<1>1. PICK decision : rows' = [rows EXCEPT ![i].status = decision]
  BY DEF Review
<1> QED BY <1>1, StatusKeeps DEF Review, BelievedStatus

LEMMA ClaimChangesKeeps ==
    ASSUME RowsOK, NEW i \in DOMAIN rows, ClaimChanges(i)
    PROVE  RowsOK' /\ RowsKept /\ DOMAIN rows' = DOMAIN rows
<1>1. CASE UNCHANGED rows
  BY <1>1, RowsStay
<1>2. ASSUME NEW now \in {"promoted", "revoked"}, rows' = [rows EXCEPT ![i].status = now]
      PROVE  RowsOK' /\ RowsKept /\ DOMAIN rows' = DOMAIN rows
  BY <1>2, StatusKeeps DEF BelievedStatus
<1> QED BY <1>1, <1>2 DEF ClaimChanges

LEMMA LedgerKeeps == ASSUME Good, Ledger PROVE Good' /\ UNCHANGED job
<1>1. CASE Squat
  BY <1>1, SquatKeeps, JobsStay DEF Good, Squat
<1>2. CASE Swap
  BY <1>2, RowsStay, JobsStay DEF Good, Swap, ledger
<1>3. ASSUME NEW i \in DOMAIN rows, Review(i)
      PROVE  Good' /\ UNCHANGED job
  BY <1>3, ReviewKeeps, JobsStay DEF Good, Review
<1>4. ASSUME NEW i \in DOMAIN rows, ClaimChanges(i)
      PROVE  Good' /\ UNCHANGED job
  BY <1>4, ClaimChangesKeeps, JobsStay DEF Good, ClaimChanges
<1> QED BY <1>1, <1>2, <1>3, <1>4 DEF Ledger

LEMMA InitGood == Init => Good
<1> SUFFICES ASSUME Init PROVE Good
  OBVIOUS
<1>1. rows \in Seq({}) /\ DOMAIN rows = {}
  BY DEF Init
<1>2. RowsOK
  BY <1>1 DEF RowsOK
<1>3. Jobs
  BY DEF Init, Jobs, JobOK, Idle, Reading
<1> QED BY <1>2, <1>3 DEF Good

LEMMA NextKeepsGood == Good /\ [Next]_vars => Good'
<1> SUFFICES ASSUME Good, [Next]_vars PROVE Good'
  OBVIOUS
<1>1. CASE Ledger
  BY <1>1, LedgerKeeps
<1>2. ASSUME NEW s \in Sessions, Session(s)
      PROVE  Good'
  BY <1>2, SeedKeeps, CaptureKeeps, LookKeeps, InboxKeeps, InsertKeeps, DelegateKeeps,
     ReadRowKeeps, ReadClaimKeeps, ReadDisputeKeeps, AskKeeps, CrashKeeps DEF Session
<1>3. CASE UNCHANGED vars
  BY <1>3, RowsStay, JobsStay DEF Good, vars
<1> QED BY <1>1, <1>2, <1>3 DEF Next

LEMMA GoodDelegates ==
    ASSUME OrchestrationAssumption, Good
    PROVE  DelegatesWithinItsRights
<1> SUFFICES ASSUME NEW s \in Sessions, Decided(s)
             PROVE  OursIsPinned(s) /\ NothingIsWidened(s)
  BY DEF DelegatesWithinItsRights
<1>1. PinIsOurs(job[s]) /\ Widens(job[s])
  BY DEF Decided, Good, Jobs, JobOK
<1>2. \A i \in DOMAIN rows : rows[i].mark \in Roles /\ rows[i].status \in BelievedStatus
          => i \in Believed
  BY DEF OrchestrationAssumption, Marks, Believed, BelievedStatus
<1>3. OursIsPinned(s)
  BY <1>1, <1>2 DEF PinIsOurs, OursIsPinned
<1>4. NothingIsWidened(s)
  BY <1>1 DEF Widens, NothingIsWidened
<1> QED BY <1>3, <1>4

-----------------------------------------------------------------------------
(* A fact has no more rows than processes can be about to insert it *)

Rows(m) == {i \in DOMAIN rows : rows[i].mark = m}
Looked(m) ==
    {s \in Sessions : /\ job[s].at \in {"inbox", "insert"} /\ job[s].call # "delegate"
                      /\ Head(job[s].todo).mark = m}

\* While no row is there everybody may look; then those who have, and no one else.
Counted(m) == Rows(m) = {} \/ Cardinality(Rows(m)) + Cardinality(Looked(m)) <= Cardinality(Filers)

IInv == OrchestrationAssumption /\ Good /\ \A m \in Marks : Counted(m)

LEMMA FiniteSets ==
    ASSUME IInv, NEW m
    PROVE  /\ IsFiniteSet(Filers) /\ Looked(m) \subseteq Filers /\ IsFiniteSet(Looked(m))
           /\ Cardinality(Looked(m)) <= Cardinality(Filers)
           /\ IsFiniteSet(Rows(m))
           /\ Cardinality(Filers) \in Nat /\ Cardinality(Looked(m)) \in Nat
           /\ Cardinality(Rows(m)) \in Nat
<1>1. IsFiniteSet(Filers)
  BY FS_Subset DEF IInv, OrchestrationAssumption, Filers
<1>2. Looked(m) \subseteq Filers
  BY DEF Looked, IInv, Good, Jobs, JobOK, Filer
<1>3. IsFiniteSet(Rows(m))
  <2>1. PICK S : rows \in Seq(S)
    BY DEF IInv, Good, RowsOK
  <2>2. Len(rows) \in Nat /\ Rows(m) \subseteq 1..Len(rows)
    BY <2>1 DEF Rows
  <2>3. IsFiniteSet(1..Len(rows))
    BY <2>2, FS_Interval
  <2> QED BY <2>2, <2>3, FS_Subset
<1> QED BY <1>1, <1>2, <1>3, FS_Subset, FS_CardinalityType

\* A step that writes no row of a fact and lets nobody in keeps the count.
LEMMA FewerKeep ==
    ASSUME IInv, NEW m \in Marks, Rows(m)' = Rows(m), Looked(m)' \subseteq Looked(m)
    PROVE  Counted(m)'
<1>1. Cardinality(Looked(m)') <= Cardinality(Looked(m))
  BY FiniteSets, FS_Subset
<1>2. /\ Cardinality(Looked(m)) \in Nat /\ Cardinality(Looked(m)') \in Nat
      /\ Cardinality(Rows(m)) \in Nat /\ Cardinality(Filers) \in Nat
  BY FiniteSets, FS_Subset, FS_CardinalityType
<1>3. Counted(m)
  BY DEF IInv
<1>4. CASE Rows(m) = {}
  BY <1>4 DEF Counted
<1>5. CASE Cardinality(Rows(m)) + Cardinality(Looked(m)) <= Cardinality(Filers)
  <2>1. Cardinality(Rows(m)') + Cardinality(Looked(m)') <= Cardinality(Filers)
    BY <1>1, <1>2, <1>5
  <2> QED BY <2>1 DEF Counted
<1> QED BY <1>3, <1>4, <1>5 DEF Counted

\* A session that takes another job: who has looked, before and after.
LEMMA LookedAfter ==
    ASSUME IInv, NEW s \in Sessions, NEW j, Goto(s, j), NEW m
    PROVE  /\ Looked(m)' \ {s} \subseteq Looked(m)
           /\ \/ j.at \notin {"inbox", "insert"}
              \/ j.call = "delegate"
              \/ Head(j.todo).mark # m
              => Looked(m)' \subseteq Looked(m) \ {s}
<1>1. job' = [v \in Sessions |-> IF v = s THEN j ELSE job[v]]
  BY DEF IInv, Good, Jobs, Goto
<1>2. ASSUME NEW v \in Sessions, v # s
      PROVE  job'[v] = job[v]
  BY <1>1, <1>2
<1>3. job'[s] = j
  BY <1>1
<1> QED BY <1>2, <1>3 DEF Looked

\* The rows stay, and the session does not come to be about to insert.
LEMMA MoveKeeps ==
    ASSUME IInv, UNCHANGED rows, NEW s \in Sessions, NEW j, Goto(s, j), NEW m \in Marks,
           \/ j.at \notin {"inbox", "insert"}
           \/ j.call = "delegate"
           \/ Head(j.todo).mark # m
           \/ s \in Looked(m)
    PROVE  Counted(m)'
<1>1. Looked(m)' \subseteq Looked(m)
  BY LookedAfter
<1>2. Rows(m)' = Rows(m)
  BY DEF Rows
<1> QED BY <1>1, <1>2, FewerKeep

LEMMA FilingAt == ASSUME NEW call, NEW facts PROVE Filing(call, facts).at \in {"idle", "look"}
<1>1. CASE facts = <<>>
  BY <1>1 DEF Filing, Idle
<1>2. CASE facts # <<>>
  BY <1>2 DEF Filing
<1> QED BY <1>1, <1>2

LEMMA OnwardAt ==
    ASSUME NEW s, Onward(s) \/ Refused(s)
    PROVE  \E j : Goto(s, j) /\ j.at \in {"idle", "look"}
<1>1. Idle.at = "idle"
  BY DEF Idle
<1>2. CASE Goto(s, Idle)
  BY <1>1, <1>2
<1>3. CASE Goto(s, Filing(job[s].call, Tail(job[s].todo)))
  <2>1. Filing(job[s].call, Tail(job[s].todo)).at \in {"idle", "look"}
    BY FilingAt
  <2> QED BY <1>3, <2>1
<1> QED BY <1>2, <1>3 DEF Onward, Refused

LEMMA LookCounts == ASSUME IInv, NEW s \in Sessions, Look(s), NEW m \in Marks PROVE Counted(m)'
<1>1. UNCHANGED rows /\ job[s].at = "look" /\ JobOK(s, job[s])
  BY DEF Look, ledger, At, IInv, Good, Jobs
<1>2. CASE Onward(s)
  <2>1. PICK j : Goto(s, j) /\ j.at \in {"idle", "look"}
    BY <1>2, OnwardAt
  <2> QED BY <1>1, <2>1, MoveKeeps
<1>3. CASE ~Filed(Head(job[s].todo).mark) /\ Goto(s, [job[s] EXCEPT !.at = "inbox"])
  <2>1. CASE Head(job[s].todo).mark = m
    <3>1. \A i \in DOMAIN rows : rows[i].mark # m
      BY <1>3, <2>1, OursIsThere DEF Filed, IInv, Good
    <3> QED BY <1>1, <3>1 DEF Counted, Rows
  <2>2. CASE Head(job[s].todo).mark # m
    <3>1. [job[s] EXCEPT !.at = "inbox"].todo = job[s].todo
      BY <1>1 DEF JobOK, Filer
    <3>2. PICK j : Goto(s, j) /\ Head(j.todo).mark # m
      BY <1>3, <2>2, <3>1
    <3> QED BY <1>1, <3>2, MoveKeeps
  <2> QED BY <2>1, <2>2
<1> QED BY <1>2, <1>3 DEF Look

LEMMA InboxCounts == ASSUME IInv, NEW s \in Sessions, Inbox(s), NEW m \in Marks PROVE Counted(m)'
<1> DEFINE j == [at |-> "insert", call |-> job[s].call, todo |-> job[s].todo]
<1>1. UNCHANGED rows /\ job[s].at = "inbox"
  BY DEF Inbox, ledger, At
<1>2. CASE Refused(s)
  <2>1. PICK k : Goto(s, k) /\ k.at \in {"idle", "look"}
    BY <1>2, OnwardAt
  <2> QED BY <1>1, <2>1, MoveKeeps
<1>3. CASE Goto(s, j)
  <2>1. j.call = "delegate" \/ Head(j.todo).mark # m \/ s \in Looked(m)
    BY <1>1 DEF Looked
  <2>2. PICK k : Goto(s, k) /\ (k.call = "delegate" \/ Head(k.todo).mark # m \/ s \in Looked(m))
    BY <1>3, <2>1
  <2> QED BY <1>1, <2>2, MoveKeeps
<1> QED BY <1>2, <1>3 DEF Inbox

LEMMA InsertCounts == ASSUME IInv, NEW s \in Sessions, Insert(s), NEW m \in Marks PROVE Counted(m)'
<1>1. job[s].at = "insert" /\ JobOK(s, job[s])
  BY DEF Insert, At, IInv, Good, Jobs
<1>2. PICK j : Goto(s, j) /\ j.at \in {"idle", "look"}
  BY OnwardAt DEF Insert
<1>3. CASE UNCHANGED rows
  BY <1>2, <1>3, MoveKeeps
<1>4. ASSUME NEW row, row.mark = Head(job[s].todo).mark, {"mark", "status"} \subseteq DOMAIN row,
             Appended(row)
      PROVE  Counted(m)'
  <2>1. /\ RowsKept /\ DOMAIN rows' = DOMAIN rows \cup {Len(rows) + 1}
        /\ Len(rows) + 1 \notin DOMAIN rows /\ rows'[Len(rows) + 1] = row
    BY <1>4, AppendKeeps DEF IInv, Good
  <2>2. Looked(m)' \subseteq Looked(m) \ {s}
    BY <1>2, LookedAfter
  <2>3. CASE row.mark # m
    <3>1. Rows(m)' = Rows(m)
      BY <2>1, <2>3 DEF Rows, RowsKept
    <3> QED BY <2>2, <3>1, FewerKeep
  <2>4. CASE row.mark = m
    <3>1. job[s].call # "delegate"
      BY <1>1, <1>4, <2>4 DEF JobOK, Filer, IInv, OrchestrationAssumption
    <3>2. s \in Looked(m)
      BY <1>1, <1>4, <2>4, <3>1 DEF Looked
    <3>3. Rows(m)' = Rows(m) \cup {Len(rows) + 1} /\ Len(rows) + 1 \notin Rows(m)
      BY <2>1, <2>4 DEF Rows, RowsKept
    <3>4. Cardinality(Rows(m)') = Cardinality(Rows(m)) + 1
      BY <3>3, FiniteSets, FS_AddElement
    <3>5. /\ IsFiniteSet(Looked(m) \ {s})
          /\ Cardinality(Looked(m) \ {s}) = Cardinality(Looked(m)) - 1
      BY <3>2, FiniteSets, FS_RemoveElement
    <3>6. /\ Cardinality(Looked(m)') <= Cardinality(Looked(m)) - 1
          /\ Cardinality(Looked(m)') \in Nat
      BY <2>2, <3>5, FS_Subset, FS_CardinalityType
    <3>7. Cardinality(Rows(m)) + Cardinality(Looked(m)) <= Cardinality(Filers)
      <4>1. CASE Rows(m) = {}
        BY <4>1, FiniteSets, FS_EmptySet
      <4>2. CASE Rows(m) # {}
        BY <4>2 DEF IInv, Counted
      <4> QED BY <4>1, <4>2
    <3>8. Cardinality(Rows(m)') + Cardinality(Looked(m)') <= Cardinality(Filers)
      BY <3>4, <3>6, <3>7, FiniteSets
    <3> QED BY <3>8 DEF Counted
  <2> QED BY <2>3, <2>4
<1>5. CASE Refused(s) /\ UNCHANGED ledger
  BY <1>3, <1>5 DEF ledger
<1>6. CASE ~(Refused(s) /\ UNCHANGED ledger)
  <2> DEFINE f == Head(job[s].todo)
  <2>1. Appended(Row(f.mark, f.tag, f.says))
    BY <1>6 DEF Insert
  <2>2. /\ Row(f.mark, f.tag, f.says).mark = f.mark
        /\ {"mark", "status"} \subseteq DOMAIN Row(f.mark, f.tag, f.says)
    BY DEF Row
  <2> QED BY <1>4, <2>1, <2>2
<1> QED BY <1>5, <1>6

\* Steps of a session that look nothing up for a filing and write no row.
LEMMA AsideCounts ==
    ASSUME IInv, NEW s \in Sessions, NEW m \in Marks, UNCHANGED rows,
           \E j : Goto(s, j) /\ (j.at \notin {"inbox", "insert"} \/ j.call = "delegate")
    PROVE  Counted(m)'
BY MoveKeeps

LEMMA SessionCounts ==
    ASSUME IInv, NEW s \in Sessions, Session(s), NEW m \in Marks
    PROVE  Counted(m)'
<1> DEFINE Aside == \E j : Goto(s, j) /\ (j.at \notin {"inbox", "insert"} \/ j.call = "delegate")
<1>1. ASSUME NEW j, Goto(s, j), j.at \notin {"inbox", "insert"} \/ j.call = "delegate"
      PROVE  Aside
  BY <1>1
<1>2. Seed(s) => UNCHANGED rows /\ Aside
  <2>1. Filing("seed", Specs(declared)).at \in {"idle", "look"}
    BY FilingAt
  <2> QED BY <1>1, <2>1 DEF Seed, ledger
<1>3. Capture(s) => UNCHANGED rows /\ Aside
  <2>1. HAVE Capture(s)
  <2>2. PICK facts : Goto(s, Filing("capture", facts))
    BY <2>1 DEF Capture
  <2>3. Filing("capture", facts).at \in {"idle", "look"}
    BY FilingAt
  <2> QED BY <1>1, <2>1, <2>2, <2>3 DEF Capture, ledger
<1>4. Delegate(s) => UNCHANGED rows /\ Aside
  <2>1. HAVE Delegate(s)
  <2>2. PICK w \in Workloads :
            Goto(s, [at |-> "row", call |-> "delegate", work |-> w, data |-> declared,
                     roles |-> {r \in Roles : declared[r] # NoModel},
                     row |-> 0, pinned |-> NoModel])
    BY <2>1 DEF Delegate
  <2> QED BY <1>1, <2>1, <2>2 DEF Delegate, ledger
<1>5. ASSUME job[s].at \in Reading, NEW model
      PROVE  Asking(job[s], model).at = "ask" /\ NextRole(job[s]).at \in {"ask", "row"}
  <2>1. "at" \in DOMAIN job[s]
    BY DEF IInv, Good, Jobs, JobOK
  <2> QED BY <2>1 DEF NextRole, Asking
<1>6. ReadRow(s) => UNCHANGED rows /\ Aside
  <2>1. HAVE ReadRow(s)
  <2>2. job[s].at \in Reading /\ "at" \in DOMAIN job[s]
    BY <2>1 DEF ReadRow, At, Reading, IInv, Good, Jobs, JobOK
  <2>3. [job[s] EXCEPT !.at = "claim", !.row = Ours(Turn(job[s]))].at = "claim"
    BY <2>2
  <2> QED BY <1>1, <1>5, <2>1, <2>2, <2>3 DEF ReadRow, ledger
<1>7. ReadClaim(s) => UNCHANGED rows /\ Aside
  <2>1. HAVE ReadClaim(s)
  <2>2. job[s].at \in Reading /\ "at" \in DOMAIN job[s]
    BY <2>1 DEF ReadClaim, At, Reading, IInv, Good, Jobs, JobOK
  <2>3. [job[s] EXCEPT !.at = "dispute"].at = "dispute"
    BY <2>2
  <2> QED BY <1>1, <1>5, <2>1, <2>2, <2>3 DEF ReadClaim, ledger
<1>8. ReadDispute(s) => UNCHANGED rows /\ Aside
  <2>1. HAVE ReadDispute(s)
  <2>2. job[s].at \in Reading
    BY <2>1 DEF ReadDispute, At, Reading
  <2> QED BY <1>1, <1>5, <2>1, <2>2 DEF ReadDispute, ledger
<1>9. Ask(s) => UNCHANGED rows /\ Aside
  <2>1. HAVE Ask(s)
  <2>2. PICK r, e, d :
            Goto(s, [at |-> "inbox", call |-> "delegate", work |-> job[s].work,
                     data |-> job[s].data, pinned |-> job[s].pinned, routing |-> r,
                     estimate |-> e, delegated |-> d,
                     todo |-> <<Fact(NoMark, NoMark, NoModel, TRUE)>>])
    BY <2>1 DEF Ask
  <2> QED BY <1>1, <2>1, <2>2 DEF Ask, ledger
<1>10. Crash(s) => UNCHANGED rows /\ Aside
  BY <1>1 DEF Crash, Idle, ledger
<1> HIDE DEF Aside
<1>11. UNCHANGED rows /\ Aside => Counted(m)'
  BY AsideCounts DEF Aside
<1> QED BY <1>2, <1>3, <1>4, <1>6, <1>7, <1>8, <1>9, <1>10, <1>11,
           LookCounts, InboxCounts, InsertCounts DEF Session

LEMMA LedgerCounts == ASSUME IInv, Ledger, NEW m \in Marks PROVE Counted(m)'
<1>1. UNCHANGED job
  BY LedgerKeeps DEF IInv
<1>2. Looked(m)' = Looked(m)
  BY <1>1 DEF Looked
<1>3. Rows(m)' = Rows(m)
  <2>1. CASE Squat
    <3>1. PICK role \in Roles, x \in Models : Appended(Row(NoMark, role, x))
      BY <2>1 DEF Squat
    <3> DEFINE row == Row(NoMark, role, x)
    <3>2. {"mark", "status"} \subseteq DOMAIN row /\ row.mark = NoMark
      BY DEF Row
    <3> HIDE DEF row
    <3>3. /\ RowsKept /\ DOMAIN rows' = DOMAIN rows \cup {Len(rows) + 1}
          /\ rows'[Len(rows) + 1] = row
      BY <3>1, <3>2, AppendKeeps DEF IInv, Good, row
    <3>4. m # NoMark
      BY DEF IInv, OrchestrationAssumption
    <3> QED BY <3>2, <3>3, <3>4 DEF Rows, RowsKept
  <2>2. CASE Swap
    BY <2>2 DEF Swap, ledger, Rows
  <2>3. CASE \E i \in DOMAIN rows : Review(i) \/ ClaimChanges(i)
    <3>1. RowsKept /\ DOMAIN rows' = DOMAIN rows
      BY <2>3, ReviewKeeps, ClaimChangesKeeps DEF IInv, Good
    <3> QED BY <3>1 DEF Rows, RowsKept
  <2> QED BY <2>1, <2>2, <2>3 DEF Ledger
<1> QED BY <1>2, <1>3, FewerKeep

LEMMA InitIInv == OrchestrationAssumption /\ Init => IInv
<1> SUFFICES ASSUME OrchestrationAssumption, Init PROVE IInv
  OBVIOUS
<1>1. DOMAIN rows = {}
  BY DEF Init
<1>2. \A m \in Marks : Counted(m)
  BY <1>1 DEF Counted, Rows
<1> QED BY <1>2, InitGood DEF IInv

LEMMA NextIInv == IInv /\ [Next]_vars => IInv'
<1> SUFFICES ASSUME IInv, [Next]_vars PROVE IInv'
  OBVIOUS
<1>1. Good'
  BY NextKeepsGood DEF IInv
<1>2. ASSUME NEW m \in Marks
      PROVE  Counted(m)'
  <2>1. CASE Ledger
    BY <2>1, LedgerCounts
  <2>2. ASSUME NEW s \in Sessions, Session(s)
        PROVE  Counted(m)'
    BY <2>2, SessionCounts
  <2>3. CASE UNCHANGED vars
    <3>1. Rows(m)' = Rows(m) /\ Looked(m)' = Looked(m)
      BY <2>3 DEF vars, Rows, Looked
    <3> QED BY <3>1, FewerKeep
  <2> QED BY <2>1, <2>2, <2>3 DEF Next
<1> QED BY <1>1, <1>2 DEF IInv, OrchestrationAssumption

LEMMA IInvHolds == OrchestrationAssumption /\ Spec => []IInv
BY InitIInv, NextIInv, PTL DEF Spec

-----------------------------------------------------------------------------
\* registry.py:479-494, perfcapture.py:309-345: however seeds and captures look a fact up and
\* file it in two transactions, race, fail and are repeated, and whatever a human decides on
\* the rows, a fact has at most one row for each process that files facts.
THEOREM FactsAreFiledOnce == OrchestrationAssumption /\ Spec => []FiledOncePerRacer
<1>1. IInv => FiledOncePerRacer
  <2> SUFFICES ASSUME IInv, NEW m \in Marks
               PROVE  Cardinality(Rows(m)) <= Cardinality(Filers)
    BY DEF FiledOncePerRacer, Rows, Filers
  <2>1. CASE Rows(m) = {}
    BY <2>1, FiniteSets, FS_EmptySet
  <2>2. CASE Cardinality(Rows(m)) + Cardinality(Looked(m)) <= Cardinality(Filers)
    BY <2>2, FiniteSets
  <2> QED BY <2>1, <2>2 DEF IInv, Counted
<1> QED BY <1>1, IInvHolds, PTL

\* delegate.py:398-489: however squatters, reviewers, disputes and edits of the tiers fall
\* between its three queries and its two answers, a recorded decision pins only a model
\* whose role's own row a human promoted, and keeps no answer that leaves the box against
\* the workload's floor and ceilings.
THEOREM PinsAndPlacesByRight == OrchestrationAssumption /\ Spec => []DelegatesWithinItsRights
<1>1. IInv => DelegatesWithinItsRights
  BY GoodDelegates DEF IInv
<1> QED BY <1>1, IInvHolds, PTL
=============================================================================
