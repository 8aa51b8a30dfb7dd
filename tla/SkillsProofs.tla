---------------------------- MODULE SkillsProofs ----------------------------
(***************************************************************************)
(* For any sessions, skills, texts and bounds: the tables keep their       *)
(* shape, a skill that was never approved is in no directory, a revert     *)
(* brings back no claim that is not trusted, and a skill written from      *)
(* claims that no longer are is reported, however commands interleave and  *)
(* wherever they crash.  As long as none came between the steps of         *)
(* another, what is approved is linked to trusted claims only.             *)
(***************************************************************************)
EXTENDS SkillsInTurn, SequenceTheorems, TLAPS

Texts == Bodies \cup {NoBody}
Ops == {"idle", "set body", "approve", "stamp", "render", "revert", "reinstall", "retire",
        "retired", "render all", "install", "mark"}

\* What a session has still to do, against the tables `rows` and `versions`.
JobOK(j, rows, versions) ==
    /\ j.op \in Ops
    /\ j.op \notin {"idle", "render all"} =>
          j.skill \in Skills /\ rows[j.skill].status # "none"
    /\ j.op = "set body" => j.body \in Bodies /\ j.hash \in Hashes /\ j.from \in Facts
    /\ j.op \in {"approve", "stamp"} => rows[j.skill].body # NoBody
    /\ j.op = "stamp" => j.hash \in Hashes
    /\ j.op = "revert" => j.version \in Versions
    /\ j.op \in {"retire", "retired"} =>
          j.into \in Skills /\ rows[j.into].status # "none"
    /\ j.op = "mark" => j.installed \in BOOLEAN
    /\ j.op = "install" => j.body \in Texts /\ versions[j.skill] # <<>>
    /\ j.op = "render all" =>
          \A k \in Skills : k \in DOMAIN j.rows =>
                               j.rows[k] \in Texts /\ versions[k] # <<>>

Jobs == /\ job = [s \in Sessions |-> job[s]]
        /\ \A s \in Sessions : JobOK(job[s], skill, history)

\* An approved row has been through the gate.
ApprovedHasVersion ==
    \A k \in Skills : skill[k].status = "approved" => history[k] # <<>>

IInv == /\ TypeOK
        /\ Jobs
        /\ ApprovedHasVersion
        /\ DraftsStayOffDisk

\* No row goes away, none loses its text, no history is forgotten.
Grows ==
    \A k \in Skills :
        /\ skill[k].status # "none" => skill'[k].status # "none"
        /\ skill[k].status # "none" /\ skill[k].body # NoBody => skill'[k].body # NoBody
        /\ history[k] # <<>> => history'[k] # <<>>

\* Jobs that a step does not touch stay good while the tables only grow.
LEMMA JobsKeep ==
    ASSUME Jobs, Grows, NEW s \in Sessions, NEW j,
           job' = [job EXCEPT ![s] = j], JobOK(j, skill', history')
    PROVE  Jobs'
<1>1. job' = [t \in Sessions |-> job'[t]] /\ job'[s] = j
  BY DEF Jobs
<1>2. ASSUME NEW t \in Sessions, t # s
      PROVE  JobOK(job[t], skill', history')
  <2>1. JobOK(job[t], skill, history)
    BY DEF Jobs
  <2> QED BY <2>1 DEF JobOK, Grows, Ops
<1>3. \A t \in Sessions : t # s => job'[t] = job[t]
  BY DEF Jobs
<1> QED BY <1>1, <1>2, <1>3 DEF Jobs

LEMMA JobsStay ==
    ASSUME Jobs, Grows, UNCHANGED job
    PROVE  Jobs'
<1>1. ASSUME NEW t \in Sessions
      PROVE  JobOK(job[t], skill', history')
  <2>1. JobOK(job[t], skill, history)
    BY DEF Jobs
  <2> QED BY <2>1 DEF JobOK, Grows, Ops
<1> QED BY <1>1 DEF Jobs

LEMMA TablesUnchangedGrow == UNCHANGED <<skill, history>> => Grows
BY DEF Grows

\* A session that has nothing more to do.
LEMMA DoneKeeps ==
    ASSUME Jobs, Grows, NEW s \in Sessions, Done(s)
    PROVE  Jobs'
<1>1. JobOK(Idle, skill', history')
  BY DEF JobOK, Idle, Ops
<1> QED BY <1>1, JobsKeep DEF Done, Continue

LEMMA InitIInv == Init => IInv
<1> SUFFICES ASSUME Init PROVE IInv
  OBVIOUS
<1>1. TypeOK
  BY SkillsAssumption DEF Init, TypeOK, Exists, NoSkill, NoRow, Facts
<1>2. Jobs
  BY DEF Init, Jobs, JobOK, Idle, Ops
<1>3. ApprovedHasVersion /\ DraftsStayOffDisk
  BY DEF Init, ApprovedHasVersion, DraftsStayOffDisk, NoSkill
<1> QED BY <1>1, <1>2, <1>3 DEF IInv

-----------------------------------------------------------------------------
(* The claims *)

\* Facts and bases of any set of links are of their type.
LEMMA FactsTyped ==
    ASSUME TypeOK, NEW ids \in SUBSET Rows
    PROVE  FactsOf(ids) \in Facts
BY DEF TypeOK, FactsOf, Rows, ClaimRows, Facts

LEMMA BasisTyped ==
    ASSUME TypeOK, NEW links
    PROVE  Basis(links) \in Hashes
BY DEF TypeOK, Basis, Promoted, Rows, ClaimRows, Hashes

\* A step on the claims or a row that keeps every version, directory and job.
LEMMA QuietStep ==
    ASSUME IInv, UNCHANGED <<history, dirs, job>>, TypeOK', Grows, ApprovedHasVersion'
    PROVE  IInv'
<1>1. Jobs'
  BY JobsStay DEF IInv
<1>2. DraftsStayOffDisk'
  BY DEF IInv, DraftsStayOffDisk, dirs
<1> QED BY <1>1, <1>2 DEF IInv

LEMMA FileClaimStep ==
    ASSUME IInv, NEW s \in Sessions, FileClaim(s)
    PROVE  IInv'
<1> USE DEF FileClaim, tables, dirs
<1>1. TypeOK'
  <2>1. PICK i \in Ids :
          claim' = [claim EXCEPT ![i] = [fact |-> filed + 1, status |-> "pending"]]
    OBVIOUS
  <2>2. [fact |-> filed + 1, status |-> "pending"] \in ClaimRows
    BY SkillsAssumption DEF IInv, TypeOK, ClaimRows
  <2>3. Rows \subseteq Rows'
    BY <2>1, <2>2 DEF IInv, TypeOK, Rows, NoRow, ClaimRows
  <2>4. claim' \in [Ids -> ClaimRows \cup {NoRow}] /\ filed' \in 0 .. MaxFacts
    BY <2>1, <2>2, SkillsAssumption DEF IInv, TypeOK
  <2> QED BY <2>3, <2>4 DEF IInv, TypeOK, Exists
<1>2. Grows /\ ApprovedHasVersion'
  BY TablesUnchangedGrow DEF IInv, ApprovedHasVersion
<1> QED BY <1>1, <1>2, QuietStep

LEMMA ReviewClaimStep ==
    ASSUME IInv, NEW s \in Sessions, ReviewClaim(s)
    PROVE  IInv'
<1> USE DEF ReviewClaim, tables, dirs
<1>1. TypeOK'
  <2>1. PICK i \in Rows, verdict \in {"promoted", "rejected"} :
          claim' = [claim EXCEPT ![i].status = verdict]
    OBVIOUS
  <2>2. i \in Ids /\ claim[i] \in ClaimRows
    BY DEF Rows, IInv, TypeOK
  <2>3. claim' = [claim EXCEPT ![i] = [fact |-> claim[i].fact, status |-> verdict]]
    BY <2>1, <2>2 DEF IInv, TypeOK, ClaimRows
  <2>4. claim' \in [Ids -> ClaimRows \cup {NoRow}]
    BY <2>2, <2>3 DEF IInv, TypeOK, ClaimRows
  <2>5. claim'[i].status # "none"
    BY <2>2, <2>3 DEF IInv, TypeOK
  <2>6. Rows \subseteq Rows'
    BY <2>2, <2>3, <2>5 DEF IInv, TypeOK, Rows, NoRow
  <2> QED BY <2>4, <2>6 DEF IInv, TypeOK, Exists
<1>2. Grows /\ ApprovedHasVersion'
  BY TablesUnchangedGrow DEF IInv, ApprovedHasVersion
<1> QED BY <1>1, <1>2, QuietStep

\* The new row of one skill, where the other rows stay.
LEMMA RowTyped ==
    ASSUME TypeOK, NEW k \in Skills, NEW row \in SkillRows, row.links \subseteq Rows,
           skill' = [skill EXCEPT ![k] = row], UNCHANGED <<claims, dirs>>,
           history' \in [Skills -> Seq(Versions)],
           origin' \in [Skills -> Facts], rebased' \in [Skills -> BOOLEAN]
    PROVE  TypeOK'
<1>1. skill' \in [Skills -> SkillRows \cup {NoSkill}]
  BY DEF TypeOK
<1>2. \A j \in Skills : Exists(j)' => skill'[j].links \subseteq Rows'
  BY DEF TypeOK, Exists, Rows, claims
<1> QED BY <1>1, <1>2 DEF TypeOK, claims, dirs

LEMMA DropClaimStep ==
    ASSUME IInv, NEW s \in Sessions, DropClaim(s)
    PROVE  IInv'
<1> USE DEF DropClaim, dirs
<1>1. PICK i \in Rows \ Promoted :
        /\ claim' = [claim EXCEPT ![i] = NoRow]
        /\ skill' = [k \in Skills |->
                       IF Exists(k) THEN [skill[k] EXCEPT !.links = @ \ {i}] ELSE skill[k]]
  OBVIOUS
<1>2. ASSUME NEW k \in Skills
      PROVE  \/ ~Exists(k) /\ skill'[k] = NoSkill
             \/ /\ Exists(k)
                /\ skill'[k] \in SkillRows
                /\ skill'[k].links = skill[k].links \ {i}
                /\ skill'[k].body = skill[k].body
                /\ skill'[k].status = skill[k].status
  <2>1. CASE Exists(k)
    <3>1. skill[k] \in SkillRows
      BY <2>1 DEF IInv, TypeOK, Exists, NoSkill
    <3>2. skill'[k] = [skill[k] EXCEPT !.links = @ \ {i}]
      BY <1>1, <2>1
    <3> QED BY <2>1, <3>1, <3>2 DEF SkillRows
  <2>2. CASE ~Exists(k)
    BY <1>1, <2>2 DEF IInv, TypeOK, Exists, SkillRows
  <2> QED BY <2>1, <2>2
<1>3. TypeOK'
  <2>1. Rows' = Rows \ {i}
    BY <1>1 DEF IInv, TypeOK, Rows
  <2>2. claim' \in [Ids -> ClaimRows \cup {NoRow}]
    BY <1>1 DEF IInv, TypeOK
  <2>3. skill' \in [Skills -> SkillRows \cup {NoSkill}]
    BY <1>1, <1>2
  <2>4. \A k \in Skills : Exists(k)' => skill'[k].links \subseteq Rows'
    BY <1>2, <2>1 DEF IInv, TypeOK, Exists, NoSkill
  <2> QED BY <2>2, <2>3, <2>4 DEF IInv, TypeOK
<1>4. Grows /\ ApprovedHasVersion'
  BY <1>2 DEF Grows, Exists, NoSkill, IInv, ApprovedHasVersion
<1> QED BY <1>3, <1>4, QuietStep

-----------------------------------------------------------------------------
(* Authoring *)

\* One row changes and nothing else that the invariant is about.
LEMMA RowStep ==
    ASSUME IInv, NEW k \in Skills, NEW row \in SkillRows, row.links \subseteq Rows,
           skill' = [skill EXCEPT ![k] = row],
           UNCHANGED <<claims, history, origin, rebased, dirs, job>>,
           row.status = "approved" => history[k] # <<>>,
           Exists(k) /\ skill[k].body # NoBody => row.body # NoBody
    PROVE  IInv'
<1>1. TypeOK'
  BY RowTyped DEF IInv, TypeOK
<1>2. skill'[k] = row /\ \A j \in Skills : j # k => skill'[j] = skill[j]
  BY DEF IInv, TypeOK
<1>3. Grows /\ ApprovedHasVersion'
  BY <1>2 DEF Grows, Exists, IInv, ApprovedHasVersion, SkillRows
<1> QED BY <1>1, <1>3, QuietStep

LEMMA RowOf ==
    ASSUME IInv, NEW k \in Skills, Exists(k)
    PROVE  skill[k] \in SkillRows /\ skill[k].links \subseteq Rows
BY DEF IInv, TypeOK, Exists, NoSkill

LEMMA NewStep ==
    ASSUME IInv, NEW s \in Sessions, NEW k \in Skills, New(s, k)
    PROVE  IInv'
<1>1. PICK links \in SUBSET Rows :
        skill' = [skill EXCEPT ![k] = [status |-> "draft", body |-> NoBody, links |-> links,
                                       hash |-> {}, installed |-> FALSE]]
  BY DEF New
<1>2. [status |-> "draft", body |-> NoBody, links |-> links, hash |-> {},
       installed |-> FALSE] \in SkillRows
  BY DEF SkillRows, Rows, Hashes
<1> QED BY <1>1, <1>2, RowStep DEF New

LEMMA DescribeStep ==
    ASSUME IInv, NEW s \in Sessions, NEW k \in Skills, Describe(s, k)
    PROVE  IInv'
<1>1. PICK text \in Bodies : skill' = [skill EXCEPT ![k].body = text]
  BY DEF Describe
<1> DEFINE row == [skill[k] EXCEPT !.body = text]
<1>2. skill[k] \in SkillRows /\ skill[k].links \subseteq Rows
  BY RowOf DEF Describe
<1>3. row \in SkillRows /\ row.links \subseteq Rows /\ row.body # NoBody
      /\ row.status = skill[k].status
  BY <1>2, SkillsAssumption DEF SkillRows
<1>4. skill' = [skill EXCEPT ![k] = row]
  BY <1>1, <1>2 DEF IInv, TypeOK, SkillRows
<1>5. row.status = "approved" => history[k] # <<>>
  BY <1>3 DEF IInv, ApprovedHasVersion
<1>6. UNCHANGED <<claims, history, origin, rebased, dirs, job>>
  BY DEF Describe
<1> HIDE DEF row
<1> QED BY <1>3, <1>4, <1>5, <1>6, RowStep

\* attach and detach replace the links of a row.
LEMMA LinkStep ==
    ASSUME IInv, NEW k \in Skills, Exists(k), NEW links \in SUBSET Rows,
           skill' = [skill EXCEPT ![k].links = links],
           UNCHANGED <<claims, history, origin, rebased, dirs, job>>
    PROVE  IInv'
<1> DEFINE row == [skill[k] EXCEPT !.links = links]
<1>1. skill[k] \in SkillRows
  BY RowOf
<1>2. row \in SkillRows /\ row.links \subseteq Rows /\ row.body = skill[k].body
      /\ row.status = skill[k].status
  BY <1>1 DEF SkillRows, Rows
<1>3. skill' = [skill EXCEPT ![k] = row]
  BY <1>1 DEF IInv, TypeOK, SkillRows
<1>4. row.status = "approved" => history[k] # <<>>
  BY <1>2 DEF IInv, ApprovedHasVersion
<1> HIDE DEF row
<1> QED BY <1>2, <1>3, <1>4, RowStep

LEMMA AttachStep ==
    ASSUME IInv, NEW s \in Sessions, NEW k \in Skills, Attach(s, k)
    PROVE  IInv'
<1>1. PICK i \in Rows : skill' = [skill EXCEPT ![k].links = @ \cup {i}]
  BY DEF Attach
<1>2. skill[k].links \cup {i} \in SUBSET Rows
  BY RowOf DEF Attach
<1>3. skill' = [skill EXCEPT ![k].links = skill[k].links \cup {i}]
  BY <1>1 DEF IInv, TypeOK
<1> QED BY <1>2, <1>3, LinkStep DEF Attach

LEMMA DetachStep ==
    ASSUME IInv, NEW s \in Sessions, NEW k \in Skills, Detach(s, k)
    PROVE  IInv'
<1>1. PICK i \in skill[k].links : skill' = [skill EXCEPT ![k].links = @ \ {i}]
  BY DEF Detach
<1>2. skill[k].links \ {i} \in SUBSET Rows
  BY RowOf DEF Detach
<1>3. skill' = [skill EXCEPT ![k].links = skill[k].links \ {i}]
  BY <1>1 DEF IInv, TypeOK
<1> QED BY <1>2, <1>3, LinkStep DEF Detach

-----------------------------------------------------------------------------
(* Steps that only read *)

LEMMA ReadStep ==
    ASSUME IInv, NEW s \in Sessions, NEW j, JobOK(j, skill, history), Continue(s, j),
           UNCHANGED <<claims, tables, dirs>>
    PROVE  IInv'
<1>1. Grows /\ ApprovedHasVersion' /\ DraftsStayOffDisk'
  BY DEF Grows, IInv, ApprovedHasVersion, DraftsStayOffDisk, tables, dirs
<1>2. Jobs'
  <2>1. JobOK(j, skill', history')
    BY DEF tables
  <2> QED BY <1>1, <2>1, JobsKeep DEF IInv, Continue
<1>3. TypeOK'
  BY DEF IInv, TypeOK, Exists, Rows, claims, tables, dirs
<1> QED BY <1>1, <1>2, <1>3 DEF IInv

LEMMA JobOf ==
    ASSUME IInv, NEW s \in Sessions
    PROVE  JobOK(job[s], skill, history)
BY DEF IInv, Jobs

LEMMA StopStep ==
    ASSUME IInv, NEW s \in Sessions, Stop(s)
    PROVE  IInv'
<1>1. JobOK(Idle, skill, history)
  BY DEF JobOK, Idle, Ops
<1> QED BY <1>1, ReadStep DEF Stop, Done

LEMMA SetBodyReadStep ==
    ASSUME IInv, NEW s \in Sessions, NEW k \in Skills, SetBodyRead(s, k)
    PROVE  IInv'
<1> DEFINE basis == Basis(skill[k].links)
           facts == FactsOf(skill[k].links \cap Promoted)
<1>1. PICK body \in Bodies :
        Continue(s, [op |-> "set body", skill |-> k, body |-> body,
                     hash |-> basis, from |-> facts])
  BY DEF SetBodyRead
<1> DEFINE j == [op |-> "set body", skill |-> k, body |-> body,
                 hash |-> basis, from |-> facts]
<1>2. skill[k].links \subseteq Rows /\ skill[k].status # "none"
  BY RowOf DEF SetBodyRead, Exists
<1>3. basis \in Hashes /\ facts \in Facts
  BY <1>2, BasisTyped, FactsTyped DEF IInv
<1> HIDE DEF basis, facts
<1>4. JobOK(j, skill, history)
  BY <1>2, <1>3 DEF JobOK, Ops
<1>5. Continue(s, j) /\ UNCHANGED <<claims, tables, dirs>>
  BY <1>1 DEF SetBodyRead
<1> HIDE DEF j
<1> QED BY <1>4, <1>5, ReadStep

LEMMA ApproveCheckStep ==
    ASSUME IInv, NEW s \in Sessions, NEW k \in Skills, ApproveCheck(s, k)
    PROVE  IInv'
<1> DEFINE j == [op |-> "approve", skill |-> k]
<1>1. skill[k].body # NoBody /\ skill[k].status # "none"
  BY DEF ApproveCheck, Blocked, Exists
<1>2. JobOK(j, skill, history)
  BY <1>1 DEF JobOK, Ops
<1>3. Continue(s, j) /\ UNCHANGED <<claims, tables, dirs>>
  BY DEF ApproveCheck
<1> HIDE DEF j
<1> QED BY <1>2, <1>3, ReadStep

LEMMA ApproveHashStep ==
    ASSUME IInv, NEW s \in Sessions, ApproveHash(s)
    PROVE  IInv'
<1> DEFINE j == [op |-> "stamp", skill |-> job[s].skill,
                 hash |-> Basis(skill[job[s].skill].links)]
<1>1. JobOK(job[s], skill, history) /\ job[s].op = "approve"
  BY JobOf DEF ApproveHash, Doing
<1>2. Basis(skill[job[s].skill].links) \in Hashes
  BY BasisTyped DEF IInv
<1>3. JobOK(j, skill, history)
  BY <1>1, <1>2 DEF JobOK, Ops
<1>4. Continue(s, j) /\ UNCHANGED <<claims, tables, dirs>>
  BY DEF ApproveHash
<1> HIDE DEF j
<1> QED BY <1>3, <1>4, ReadStep

LEMMA RevertReadStep ==
    ASSUME IInv, NEW s \in Sessions, NEW k \in Skills, RevertRead(s, k)
    PROVE  IInv'
<1>1. PICK to \in DOMAIN history[k] :
        Continue(s, [op |-> "revert", skill |-> k, version |-> history[k][to],
                     reinstall |-> skill[k].installed])
  BY DEF RevertRead
<1> DEFINE j == [op |-> "revert", skill |-> k, version |-> history[k][to],
                 reinstall |-> skill[k].installed]
<1>2. history[k][to] \in Versions
  BY DEF IInv, TypeOK
<1>3. JobOK(j, skill, history)
  BY <1>2 DEF JobOK, Ops, RevertRead, Exists
<1>4. Continue(s, j) /\ UNCHANGED <<claims, tables, dirs>>
  BY <1>1 DEF RevertRead
<1> HIDE DEF j
<1> QED BY <1>3, <1>4, ReadStep

LEMMA RetireReadStep ==
    ASSUME IInv, NEW s \in Sessions, NEW k \in Skills, NEW into \in Skills,
           RetireRead(s, k, into)
    PROVE  IInv'
<1> DEFINE j == [op |-> "retire", skill |-> k, into |-> into]
<1>1. JobOK(j, skill, history)
  BY DEF JobOK, Ops, RetireRead, Retirable, Exists
<1>2. Continue(s, j) /\ UNCHANGED <<claims, tables, dirs>>
  BY DEF RetireRead
<1> HIDE DEF j
<1> QED BY <1>1, <1>2, ReadStep

LEMMA RenderReadStep ==
    ASSUME IInv, NEW s \in Sessions, RenderRead(s)
    PROVE  IInv'
<1> DEFINE rows == [k \in {i \in Skills : Renderable(i)} |-> skill[k].body]
           j == [op |-> "render all", rows |-> rows]
<1>1. ASSUME NEW k \in Skills, k \in DOMAIN rows
      PROVE  rows[k] \in Texts /\ history[k] # <<>>
  <2>1. Renderable(k) /\ rows[k] = skill[k].body
    BY <1>1
  <2>2. skill[k] \in SkillRows
    BY <2>1, RowOf DEF Renderable, Exists
  <2> QED BY <2>1, <2>2 DEF SkillRows, Texts, IInv, ApprovedHasVersion, Renderable
<1> HIDE DEF rows
<1>2. JobOK(j, skill, history)
  BY <1>1 DEF JobOK, Ops
<1>3. Continue(s, j) /\ UNCHANGED <<claims, tables, dirs>>
  BY DEF RenderRead, rows
<1> HIDE DEF j
<1> QED BY <1>2, <1>3, ReadStep

LEMMA InstallReadStep ==
    ASSUME IInv, NEW s \in Sessions, NEW k \in Skills, InstallRead(s, k)
    PROVE  IInv'
<1> DEFINE j == [op |-> "install", skill |-> k, body |-> skill[k].body]
<1>1. skill[k].status = "approved"
  BY DEF InstallRead, Renderable
<1>2. skill[k].body \in Texts
  BY <1>1, RowOf DEF Exists, SkillRows, Texts
<1>3. JobOK(j, skill, history)
  BY <1>1, <1>2 DEF JobOK, Ops, IInv, ApprovedHasVersion
<1>4. Continue(s, j) /\ UNCHANGED <<claims, tables, dirs>>
  BY DEF InstallRead
<1> HIDE DEF j
<1> QED BY <1>3, <1>4, ReadStep

-----------------------------------------------------------------------------
(* Steps on the directories *)

LEMMA DirStep ==
    ASSUME IInv, NEW s \in Sessions, NEW j, JobOK(j, skill, history), Continue(s, j),
           UNCHANGED <<claims, tables>>,
           repoDir' \in [Skills -> Texts], globalDir' \in [Skills -> Texts],
           DraftsStayOffDisk'
    PROVE  IInv'
<1>1. Grows /\ ApprovedHasVersion'
  BY DEF Grows, IInv, ApprovedHasVersion, tables
<1>2. Jobs'
  <2>1. JobOK(j, skill', history')
    BY DEF tables
  <2> QED BY <1>1, <2>1, JobsKeep DEF IInv, Continue
<1>3. TypeOK'
  BY DEF IInv, TypeOK, Exists, Rows, claims, tables, Texts
<1> QED BY <1>1, <1>2, <1>3 DEF IInv

LEMMA RenderOneStep ==
    ASSUME IInv, NEW s \in Sessions, RenderOne(s)
    PROVE  IInv'
<1> DEFINE k == job[s].skill
<1>1. JobOK(job[s], skill, history) /\ job[s].op = "render"
  BY JobOf DEF RenderOne, Doing
<1>2. k \in Skills /\ skill[k].status = "approved"
  BY <1>1 DEF JobOK, RenderOne, Renderable
<1>3. skill[k].body \in Texts /\ history[k] # <<>>
  BY <1>2, RowOf DEF Exists, SkillRows, Texts, IInv, ApprovedHasVersion
<1>4. repoDir' = [repoDir EXCEPT ![k] = skill[k].body]
      /\ UNCHANGED <<claims, tables, globalDir>>
  BY DEF RenderOne
<1>5. repoDir' \in [Skills -> Texts] /\ globalDir' \in [Skills -> Texts]
  BY <1>3, <1>4 DEF IInv, TypeOK, Texts
<1>6. DraftsStayOffDisk'
  BY <1>3, <1>4 DEF IInv, TypeOK, DraftsStayOffDisk, tables
<1>7. JobOK(Idle, skill, history)
  BY DEF JobOK, Idle, Ops
<1>8. JobOK([op |-> "reinstall", skill |-> k], skill, history)
  BY <1>2 DEF JobOK, Ops
<1>9. Continue(s, [op |-> "reinstall", skill |-> k]) \/ Continue(s, Idle)
  BY DEF RenderOne, Done
<1> QED BY <1>4, <1>5, <1>6, <1>7, <1>8, <1>9, DirStep

LEMMA RetireRemoveStep ==
    ASSUME IInv, NEW s \in Sessions, RetireRemove(s)
    PROVE  IInv'
<1> DEFINE j == [op |-> "retired", skill |-> job[s].skill, into |-> job[s].into]
<1>1. JobOK(job[s], skill, history) /\ job[s].op = "retire"
  BY JobOf DEF RetireRemove, Doing
<1>2. JobOK(j, skill, history)
  BY <1>1 DEF JobOK, Ops
<1>3. Continue(s, j) /\ UNCHANGED <<claims, tables, globalDir>>
      /\ repoDir' = [repoDir EXCEPT ![job[s].skill] = NoBody]
  BY DEF RetireRemove
<1>4. repoDir' \in [Skills -> Texts] /\ globalDir' \in [Skills -> Texts]
  BY <1>3 DEF IInv, TypeOK, Texts
<1>5. DraftsStayOffDisk'
  BY <1>3 DEF IInv, TypeOK, DraftsStayOffDisk, tables
<1> HIDE DEF j
<1> QED BY <1>2, <1>3, <1>4, <1>5, DirStep

LEMMA RenderWriteStep ==
    ASSUME IInv, NEW s \in Sessions, RenderWrite(s)
    PROVE  IInv'
<1> DEFINE rows == job[s].rows
<1>1. JobOK(job[s], skill, history) /\ job[s].op = "render all"
  BY JobOf DEF RenderWrite, Doing
<1>2. \A k \in Skills : k \in DOMAIN rows => rows[k] \in Texts /\ history[k] # <<>>
  BY <1>1 DEF JobOK
<1>3. /\ repoDir' = [k \in Skills |-> IF k \in DOMAIN rows THEN rows[k] ELSE NoBody]
      /\ Continue(s, Idle) /\ UNCHANGED <<claims, tables, globalDir>>
  BY DEF RenderWrite, Done
<1> HIDE DEF rows
<1>4. repoDir' \in [Skills -> Texts] /\ globalDir' \in [Skills -> Texts]
  BY <1>2, <1>3 DEF IInv, TypeOK, Texts
<1>5. DraftsStayOffDisk'
  BY <1>2, <1>3 DEF IInv, TypeOK, DraftsStayOffDisk, tables
<1>6. JobOK(Idle, skill, history)
  BY DEF JobOK, Idle, Ops
<1> QED BY <1>3, <1>4, <1>5, <1>6, DirStep

LEMMA InstallCopyStep ==
    ASSUME IInv, NEW s \in Sessions, InstallCopy(s)
    PROVE  IInv'
<1> DEFINE k == job[s].skill
           j == [op |-> "mark", skill |-> k, installed |-> TRUE]
<1>1. JobOK(job[s], skill, history) /\ job[s].op = "install"
  BY JobOf DEF InstallCopy, Doing
<1>2. /\ k \in Skills /\ job[s].body \in Texts /\ history[k] # <<>>
      /\ JobOK(j, skill, history)
  BY <1>1 DEF JobOK, Ops
<1>3. /\ repoDir' = [repoDir EXCEPT ![k] = IF @ = NoBody THEN job[s].body ELSE @]
      /\ globalDir' = [globalDir EXCEPT ![k] = repoDir'[k]]
      /\ Continue(s, j) /\ UNCHANGED <<claims, tables>>
  BY DEF InstallCopy
<1>4. repoDir' \in [Skills -> Texts]
  BY <1>2, <1>3 DEF IInv, TypeOK, Texts
<1>5. globalDir' \in [Skills -> Texts]
  BY <1>2, <1>3, <1>4 DEF IInv, TypeOK, Texts
<1>6. DraftsStayOffDisk'
  BY <1>2, <1>3 DEF IInv, TypeOK, DraftsStayOffDisk, tables
<1> HIDE DEF j
<1> QED BY <1>2, <1>3, <1>4, <1>5, <1>6, DirStep

LEMMA UninstallRemoveStep ==
    ASSUME IInv, NEW s \in Sessions, NEW k \in Skills, UninstallRemove(s, k)
    PROVE  IInv'
<1> DEFINE j == [op |-> "mark", skill |-> k, installed |-> FALSE]
<1>1. JobOK(j, skill, history)
  BY DEF UninstallRemove, Exists, JobOK, Ops
<1>2. /\ globalDir' = [globalDir EXCEPT ![k] = NoBody]
      /\ Continue(s, j) /\ UNCHANGED <<claims, tables, repoDir>>
  BY DEF UninstallRemove
<1>3. repoDir' \in [Skills -> Texts] /\ globalDir' \in [Skills -> Texts]
  BY <1>2 DEF IInv, TypeOK, Texts
<1>4. DraftsStayOffDisk'
  BY <1>2 DEF IInv, TypeOK, DraftsStayOffDisk, tables
<1> HIDE DEF j
<1> QED BY <1>1, <1>2, <1>3, <1>4, DirStep

-----------------------------------------------------------------------------
(* Steps that write a row and go on: the gate, retire, mark *)

\* One row changes, perhaps with a new version, and the session goes on.
LEMMA WriteStep ==
    ASSUME IInv, NEW s \in Sessions, NEW k \in Skills, NEW row \in SkillRows,
           row.links \subseteq Rows, skill' = [skill EXCEPT ![k] = row],
           UNCHANGED <<claims, dirs>>,
           history' \in [Skills -> Seq(Versions)],
           origin' \in [Skills -> Facts], rebased' \in [Skills -> BOOLEAN],
           \A i \in Skills : history[i] # <<>> => history'[i] # <<>>,
           row.status = "approved" => history'[k] # <<>>,
           Exists(k) /\ skill[k].body # NoBody => row.body # NoBody,
           NEW j, Continue(s, j), JobOK(j, skill', history')
    PROVE  IInv'
<1>1. TypeOK'
  BY RowTyped DEF IInv
<1>2. skill'[k] = row /\ \A i \in Skills : i # k => skill'[i] = skill[i]
  BY DEF IInv, TypeOK
<1>3. Grows /\ ApprovedHasVersion'
  BY <1>2 DEF Grows, Exists, IInv, ApprovedHasVersion, SkillRows
<1>4. Jobs'
  BY <1>3, JobsKeep DEF IInv, Continue
<1>5. DraftsStayOffDisk'
  BY DEF IInv, DraftsStayOffDisk, dirs
<1> QED BY <1>1, <1>3, <1>4, <1>5 DEF IInv

LEMMA MarkStep ==
    ASSUME IInv, NEW s \in Sessions, Mark(s)
    PROVE  IInv'
<1> DEFINE k == job[s].skill
           row == [skill[k] EXCEPT !.installed = job[s].installed]
<1>1. JobOK(job[s], skill, history) /\ job[s].op = "mark"
  BY JobOf DEF Mark, Doing
<1>2. k \in Skills /\ skill[k].status # "none" /\ job[s].installed \in BOOLEAN
  BY <1>1 DEF JobOK
<1>3. skill[k] \in SkillRows /\ skill[k].links \subseteq Rows
  BY <1>2, RowOf DEF Exists
<1>4. /\ row \in SkillRows /\ row.links \subseteq Rows
      /\ row.status = skill[k].status /\ row.body = skill[k].body
  BY <1>2, <1>3 DEF SkillRows
<1>5. skill' = [skill EXCEPT ![k] = row]
  BY <1>2, <1>3 DEF Mark, IInv, TypeOK, SkillRows
<1>6. Continue(s, Idle) /\ UNCHANGED <<claims, history, origin, rebased, dirs>>
  BY DEF Mark, Done
<1>7. JobOK(Idle, skill', history')
  BY DEF JobOK, Idle, Ops
<1>8. row.status = "approved" => history'[k] # <<>>
  BY <1>2, <1>4, <1>6 DEF IInv, ApprovedHasVersion
<1>9. /\ history' \in [Skills -> Seq(Versions)]
      /\ origin' \in [Skills -> Facts] /\ rebased' \in [Skills -> BOOLEAN]
      /\ \A i \in Skills : history[i] # <<>> => history'[i] # <<>>
  BY <1>6 DEF IInv, TypeOK
<1> HIDE DEF row, k
<1> QED BY <1>2, <1>4, <1>5, <1>6, <1>7, <1>8, <1>9, WriteStep

LEMMA RetireWriteStep ==
    ASSUME IInv, NEW s \in Sessions, RetireWrite(s)
    PROVE  IInv'
<1> DEFINE k == job[s].skill
           into == job[s].into
<1>1. JobOK(job[s], skill, history) /\ job[s].op = "retired"
  BY JobOf DEF RetireWrite, Doing
<1>2. k \in Skills /\ Exists(k) /\ into \in Skills /\ Exists(into)
  BY <1>1 DEF JobOK, Exists
<1>3. /\ skill[k] \in SkillRows /\ skill[k].links \subseteq Rows
      /\ skill[into] \in SkillRows /\ skill[into].links \subseteq Rows
  BY <1>2, RowOf
<1>4. /\ skill' = [skill EXCEPT ![k].status = "archived",
                                ![into].links = @ \cup skill[k].links]
      /\ Continue(s, Idle) /\ UNCHANGED <<claims, history, origin, rebased, dirs>>
  BY DEF RetireWrite, Done
<1> DEFINE links == skill[into].links \cup skill[k].links
<1>5. links \subseteq Rows
  BY <1>3
<1> HIDE DEF k, into
<1>6. \A i \in Skills \ {k, into} : skill'[i] = skill[i]
  BY <1>4 DEF IInv, TypeOK
<1>7. k # into => /\ skill'[k] = [skill[k] EXCEPT !.status = "archived"]
                  /\ skill'[into] = [skill[into] EXCEPT !.links = links]
  BY <1>2, <1>4 DEF IInv, TypeOK
<1>8. k = into => skill'[k] = [[skill[k] EXCEPT !.status = "archived"]
                                  EXCEPT !.links = links]
  BY <1>2, <1>3, <1>4 DEF IInv, TypeOK, SkillRows
<1> HIDE DEF links
<1>9. /\ skill'[k] \in SkillRows /\ skill'[k].status = "archived"
      /\ skill'[k].body = skill[k].body /\ skill'[k].links \subseteq Rows
      /\ skill'[into] \in SkillRows /\ skill'[into].status \in {"archived", skill[into].status}
      /\ skill'[into].body = skill[into].body /\ skill'[into].links \subseteq Rows
  <2>1. links \in SUBSET Ids
    BY <1>5 DEF Rows
  <2>2. CASE k # into
    BY <1>3, <1>5, <1>7, <2>1, <2>2 DEF SkillRows
  <2>3. CASE k = into
    BY <1>3, <1>5, <1>8, <2>1, <2>3 DEF SkillRows
  <2> QED BY <2>2, <2>3
<1>10. TypeOK'
  <2>1. skill' \in [Skills -> SkillRows \cup {NoSkill}]
    <3>1. skill' = [i \in Skills |-> skill'[i]]
      BY <1>4 DEF IInv, TypeOK
    <3>2. \A i \in Skills : skill'[i] \in SkillRows \cup {NoSkill}
      BY <1>6, <1>9 DEF IInv, TypeOK
    <3> QED BY <3>1, <3>2
  <2>2. \A i \in Skills : Exists(i)' => skill'[i].links \subseteq Rows'
    BY <1>4, <1>6, <1>9 DEF IInv, TypeOK, Exists, Rows, claims
  <2> QED BY <1>4, <2>1, <2>2 DEF IInv, TypeOK, claims, dirs
<1>11. Grows /\ ApprovedHasVersion'
  BY <1>2, <1>4, <1>6, <1>9 DEF Grows, Exists, IInv, ApprovedHasVersion, SkillRows
<1>12. Jobs'
  BY <1>4, <1>11, DoneKeeps DEF IInv, Done
<1>13. DraftsStayOffDisk'
  BY <1>4 DEF IInv, DraftsStayOffDisk, dirs
<1> QED BY <1>10, <1>11, <1>12, <1>13 DEF IInv

LEMMA SetBodyWriteStep ==
    ASSUME IInv, NEW s \in Sessions, SetBodyWrite(s)
    PROVE  IInv'
<1> DEFINE k == job[s].skill
           row == [skill[k] EXCEPT !.body = job[s].body, !.hash = job[s].hash]
<1>1. JobOK(job[s], skill, history) /\ job[s].op = "set body"
  BY JobOf DEF SetBodyWrite, Doing
<1>2. /\ k \in Skills /\ Exists(k)
      /\ job[s].body \in Bodies /\ job[s].hash \in Hashes /\ job[s].from \in Facts
  BY <1>1 DEF JobOK, Exists
<1>3. skill[k] \in SkillRows /\ skill[k].links \subseteq Rows
  BY <1>2, RowOf
<1>4. /\ row \in SkillRows /\ row.links \subseteq Rows
      /\ row.body # NoBody /\ row.status = skill[k].status
  BY <1>2, <1>3, SkillsAssumption DEF SkillRows
<1>5. skill' = [skill EXCEPT ![k] = row]
  BY <1>2, <1>3 DEF SetBodyWrite, IInv, TypeOK, SkillRows
<1>6. /\ Continue(s, Idle) /\ UNCHANGED <<claims, history, dirs>>
      /\ origin' = [origin EXCEPT ![k] = job[s].from]
      /\ rebased' = [rebased EXCEPT ![k] = FALSE]
  BY DEF SetBodyWrite, Done
<1>7. JobOK(Idle, skill', history')
  BY DEF JobOK, Idle, Ops
<1>8. row.status = "approved" => history'[k] # <<>>
  BY <1>2, <1>4, <1>6 DEF IInv, ApprovedHasVersion
<1>9. /\ history' \in [Skills -> Seq(Versions)]
      /\ origin' \in [Skills -> Facts] /\ rebased' \in [Skills -> BOOLEAN]
      /\ \A i \in Skills : history[i] # <<>> => history'[i] # <<>>
  BY <1>2, <1>6 DEF IInv, TypeOK
<1> HIDE DEF row, k
<1> QED BY <1>2, <1>4, <1>5, <1>6, <1>7, <1>8, <1>9, WriteStep

\* A snapshot appends one version of the type, and forgets none.
LEMMA SnapshotTyped ==
    ASSUME TypeOK, NEW k \in Skills, NEW row \in SkillRows, row.body # NoBody,
           NEW from \in Facts, NEW moved \in BOOLEAN, Snapshot(k, row, from, moved)
    PROVE  /\ history' \in [Skills -> Seq(Versions)]
           /\ origin' \in [Skills -> Facts] /\ rebased' \in [Skills -> BOOLEAN]
           /\ history'[k] # <<>>
           /\ \A i \in Skills : history[i] # <<>> => history'[i] # <<>>
<1> DEFINE version == [body |-> row.body, links |-> row.links, hash |-> row.hash,
                       from |-> from, rebased |-> moved]
<1>1. version \in Versions
  BY DEF SkillRows, Versions
<1>2. history' = [history EXCEPT ![k] = Append(history[k], version)]
  BY DEF Snapshot, TypeOK
<1> HIDE DEF version
<1>3. history[k] \in Seq(Versions)
  BY DEF TypeOK
<1>4. /\ Append(history[k], version) \in Seq(Versions)
      /\ Append(history[k], version) # <<>>
  BY <1>1, <1>3, AppendProperties
<1>5. origin' \in [Skills -> Facts] /\ rebased' \in [Skills -> BOOLEAN]
  BY DEF Snapshot, TypeOK
<1> QED BY <1>2, <1>4, <1>5 DEF TypeOK

LEMMA ApproveWriteStep ==
    ASSUME IInv, NEW s \in Sessions, ApproveWrite(s)
    PROVE  IInv'
<1> DEFINE k == job[s].skill
           row == [skill[k] EXCEPT !.status = "approved", !.hash = job[s].hash]
           moved == rebased[k] \/ job[s].hash # skill[k].hash
           j == [op |-> "render", skill |-> k, reinstall |-> FALSE]
<1>1. JobOK(job[s], skill, history) /\ job[s].op = "stamp"
  BY JobOf DEF ApproveWrite, Doing
<1>2. /\ k \in Skills /\ Exists(k) /\ skill[k].body # NoBody
      /\ job[s].hash \in Hashes
  BY <1>1 DEF JobOK, Exists
<1>3. skill[k] \in SkillRows /\ skill[k].links \subseteq Rows
  BY <1>2, RowOf
<1>4. /\ row \in SkillRows /\ row.links \subseteq Rows
      /\ row.body # NoBody /\ row.status = "approved"
  BY <1>2, <1>3 DEF SkillRows
<1>5. /\ Snapshot(k, row, origin[k], moved) /\ Continue(s, j)
      /\ UNCHANGED <<claims, dirs>>
  BY DEF ApproveWrite
<1>6. /\ skill' = [skill EXCEPT ![k] = row]
      /\ origin[k] \in Facts /\ moved \in BOOLEAN
  BY <1>2, <1>5 DEF Snapshot, IInv, TypeOK
<1> HIDE DEF row, moved
<1>7. /\ history' \in [Skills -> Seq(Versions)] /\ history'[k] # <<>>
      /\ origin' \in [Skills -> Facts] /\ rebased' \in [Skills -> BOOLEAN]
      /\ \A i \in Skills : history[i] # <<>> => history'[i] # <<>>
  BY <1>2, <1>4, <1>5, <1>6, SnapshotTyped DEF IInv
<1>8. JobOK(j, skill', history')
  <2>1. skill'[k].status = "approved"
    BY <1>2, <1>4, <1>6 DEF IInv, TypeOK
  <2> QED BY <1>2, <2>1 DEF JobOK, Ops
<1> HIDE DEF k, j
<1> QED BY <1>2, <1>4, <1>5, <1>6, <1>7, <1>8, WriteStep

LEMMA RevertWriteStep ==
    ASSUME IInv, NEW s \in Sessions, RevertWrite(s)
    PROVE  IInv'
<1> DEFINE k == job[s].skill
           old == job[s].version
           links == old.links \cap Rows
           row == [skill[k] EXCEPT !.status = "approved", !.body = old.body,
                                   !.links = links, !.hash = old.hash]
           j == [op |-> "render", skill |-> k, reinstall |-> job[s].reinstall]
<1>1. JobOK(job[s], skill, history) /\ job[s].op = "revert"
  BY JobOf DEF RevertWrite, Doing
<1>2. k \in Skills /\ Exists(k) /\ old \in Versions
  BY <1>1 DEF JobOK, Exists
<1>3. skill[k] \in SkillRows
  BY <1>2, RowOf
<1>4. /\ row \in SkillRows /\ row.links \subseteq Rows
      /\ row.body # NoBody /\ row.status = "approved"
      /\ old.from \in Facts /\ old.rebased \in BOOLEAN
  BY <1>2, <1>3, SkillsAssumption DEF SkillRows, Versions
<1>5. /\ Snapshot(k, row, old.from, old.rebased) /\ Continue(s, j)
      /\ UNCHANGED <<claims, dirs>>
  BY DEF RevertWrite
<1>6. skill' = [skill EXCEPT ![k] = row]
  BY <1>5 DEF Snapshot
<1> HIDE DEF row, old
<1>7. /\ history' \in [Skills -> Seq(Versions)] /\ history'[k] # <<>>
      /\ origin' \in [Skills -> Facts] /\ rebased' \in [Skills -> BOOLEAN]
      /\ \A i \in Skills : history[i] # <<>> => history'[i] # <<>>
  BY <1>2, <1>4, <1>5, SnapshotTyped DEF IInv
<1>8. JobOK(j, skill', history')
  <2>1. skill'[k].status = "approved"
    BY <1>2, <1>4, <1>6 DEF IInv, TypeOK
  <2> QED BY <1>2, <2>1 DEF JobOK, Ops
<1> HIDE DEF k, j
<1> QED BY <1>2, <1>4, <1>5, <1>6, <1>7, <1>8, WriteStep

-----------------------------------------------------------------------------
(* The theorems *)

LEMMA StepIInv == IInv /\ [Next]_vars => IInv'
<1> SUFFICES ASSUME IInv, [Next]_vars
             PROVE  IInv'
  OBVIOUS
<1>1. ASSUME NEW s \in Sessions, FileClaim(s) \/ ReviewClaim(s) \/ DropClaim(s)
      PROVE  IInv'
  BY <1>1, FileClaimStep, ReviewClaimStep, DropClaimStep
<1>2. ASSUME NEW s \in Sessions, NEW k \in Skills, Command(s, k)
      PROVE  IInv'
  <2>1. CASE New(s, k) \/ SetBodyRead(s, k) \/ Describe(s, k) \/ Attach(s, k) \/ Detach(s, k)
    BY <2>1, NewStep, SetBodyReadStep, DescribeStep, AttachStep, DetachStep
  <2>2. CASE ApproveCheck(s, k) \/ RevertRead(s, k)
    BY <2>2, ApproveCheckStep, RevertReadStep
  <2>3. CASE \E into \in Skills : RetireRead(s, k, into)
    BY <2>3, RetireReadStep
  <2>4. CASE InstallRead(s, k) \/ UninstallRemove(s, k)
    BY <2>4, InstallReadStep, UninstallRemoveStep
  <2> QED BY <1>2, <2>1, <2>2, <2>3, <2>4 DEF Command
<1>3. ASSUME NEW s \in Sessions, Rest(s)
      PROVE  IInv'
  <2>1. CASE SetBodyWrite(s) \/ ApproveHash(s) \/ ApproveWrite(s) \/ RevertWrite(s)
    BY <2>1, SetBodyWriteStep, ApproveHashStep, ApproveWriteStep, RevertWriteStep
  <2>2. CASE RetireRemove(s) \/ RetireWrite(s) \/ RenderRead(s) \/ RenderWrite(s)
    BY <2>2, RetireRemoveStep, RetireWriteStep, RenderReadStep, RenderWriteStep
  <2>3. CASE RenderOne(s) \/ InstallCopy(s) \/ Mark(s) \/ Stop(s)
    BY <2>3, RenderOneStep, InstallCopyStep, MarkStep, StopStep
  <2> QED BY <1>3, <2>1, <2>2, <2>3 DEF Rest
<1>4. CASE UNCHANGED vars
  BY <1>4, TablesUnchangedGrow, QuietStep
     DEF IInv, TypeOK, ApprovedHasVersion, Exists, Rows, vars, claims, tables, dirs
<1> QED BY <1>1, <1>2, <1>3, <1>4 DEF Next

\* In every reachable state the tables and the directories keep their shape, and
\* no skill is linked to a claim that is gone.
THEOREM TypeCorrect == Spec => []TypeOK
<1>1. IInv => TypeOK
  BY DEF IInv
<1> QED BY InitIInv, StepIInv, <1>1, PTL DEF Spec

\* Authoring is not activating: no interleaving of commands and crashes puts a
\* skill that was never approved into a skills directory.
THEOREM DraftsAreNeverOnDisk == Spec => []DraftsStayOffDisk
<1>1. IInv => DraftsStayOffDisk
  BY DEF IInv
<1> QED BY InitIInv, StepIInv, <1>1, PTL DEF Spec

\* A session in the middle of a revert takes it to its render by RevertWrite only.
LEMMA OnlyRevertWrite ==
    ASSUME IInv, Next, NEW s \in Sessions, Doing(s, "revert"), job'[s].op = "render"
    PROVE  RevertWrite(s)
<1>1. job[s] # Idle /\ job = [t \in Sessions |-> job[t]] /\ job'[s] # job[s]
  BY DEF Doing, Idle, IInv, Jobs
<1>2. ASSUME NEW t \in Sessions, NEW j, Continue(t, j)
      PROVE  t = s
  BY <1>1, <1>2 DEF Continue
<1>3. ASSUME NEW t \in Sessions, FileClaim(t) \/ ReviewClaim(t) \/ DropClaim(t)
      PROVE  FALSE
  BY <1>1, <1>3 DEF FileClaim, ReviewClaim, DropClaim
<1>4. ASSUME NEW t \in Sessions, NEW k \in Skills, Command(t, k)
      PROVE  FALSE
  <2>1. UNCHANGED job \/ \E j : Continue(t, j)
    BY <1>4 DEF Command, New, SetBodyRead, Describe, Attach, Detach, ApproveCheck,
                RevertRead, RetireRead, InstallRead, UninstallRemove
  <2>2. t = s
    BY <1>1, <1>2, <2>1
  <2> QED BY <1>1, <1>4, <2>2
          DEF Command, New, SetBodyRead, Describe, Attach, Detach, ApproveCheck,
              RevertRead, RetireRead, InstallRead, UninstallRemove, Doing
<1>5. ASSUME NEW t \in Sessions, Rest(t)
      PROVE  t = s
  <2>1. \E j : Continue(t, j)
    BY <1>5 DEF Rest, SetBodyWrite, ApproveHash, ApproveWrite, RevertWrite, RenderOne, RetireRemove,
                RetireWrite, RenderRead, RenderWrite, InstallCopy, Mark, Stop, Done
  <2> QED BY <1>2, <2>1
<1>6. Rest(s)
  BY <1>3, <1>4, <1>5 DEF Next
<1>7. ~Stop(s)
  BY <1>1 DEF Stop, Done, Continue, Idle
<1> QED BY <1>1, <1>6, <1>7
        DEF Rest, SetBodyWrite, ApproveHash, ApproveWrite, RenderOne, RetireRemove, RetireWrite,
            RenderRead, RenderWrite, InstallCopy, Mark, Doing

\* A revert never brings back a claim that is not trusted when it commits.
THEOREM RevertsBringTruth == Spec => RevertsAreTrue
<1>1. ASSUME IInv, Next, NEW s \in Sessions, Doing(s, "revert"), job'[s].op = "render"
      PROVE  skill'[job[s].skill].links \subseteq Promoted'
  <2> DEFINE k == job[s].skill
             old == job[s].version
             links == old.links \cap Rows
             row == [skill[k] EXCEPT !.status = "approved", !.body = old.body,
                                     !.links = links, !.hash = old.hash]
  <2>1. RevertWrite(s)
    BY <1>1, OnlyRevertWrite
  <2>2. links \subseteq Promoted
    BY <2>1 DEF RevertWrite, Cleared, Blocked
  <2>3. k \in Skills /\ skill[k] \in SkillRows
    BY <1>1, JobOf, RowOf DEF JobOK, Doing, Exists
  <2>4. row.links = links
    BY <2>3 DEF SkillRows
  <2>5. skill' = [skill EXCEPT ![k] = row] /\ UNCHANGED claims
    BY <2>1 DEF RevertWrite, Snapshot
  <2> HIDE DEF row
  <2>6. skill'[k] = row
    BY <1>1, <2>3, <2>5 DEF IInv, TypeOK
  <2> QED BY <2>2, <2>4, <2>5, <2>6 DEF Promoted, Rows, claims
<1>2. IInv /\ [Next]_vars =>
        [\A s \in Sessions : Doing(s, "revert") /\ job'[s].op = "render"
             => skill'[job[s].skill].links \subseteq Promoted']_vars
  BY <1>1
<1> QED BY InitIInv, StepIInv, <1>2, PTL DEF Spec, RevertsAreTrue

-----------------------------------------------------------------------------
(***************************************************************************)
(* What a stamp tells of                                                   *)
(***************************************************************************)
\* The claims that a stamp names.
Told(hash) == {h[2] : h \in hash}

\* A stamp that no approval replaced names what the text was written from, in the
\* row, in every version and in what a session is about to write.
StampOK(k) == rebased[k] \/ origin[k] = IF Exists(k) THEN Told(skill[k].hash) ELSE {}
VersionOK(v) == v.rebased \/ v.from = Told(v.hash)
PlanOK(j) == /\ j.op = "set body" => j.from = Told(j.hash)
             /\ j.op = "revert" => VersionOK(j.version)

StampsOK ==
    /\ \A k \in Skills : StampOK(k)
    /\ \A k \in Skills : \A i \in DOMAIN history[k] : VersionOK(history[k][i])
    /\ \A s \in Sessions : PlanOK(job[s])

LEMMA BasisTells ==
    ASSUME NEW links
    PROVE  Told(Basis(links)) = FactsOf(links \cap Promoted)
<1>1. ASSUME NEW x \in Told(Basis(links))
      PROVE  x \in FactsOf(links \cap Promoted)
  <2>1. PICK h \in Basis(links) : x = h[2]
    BY <1>1 DEF Told
  <2>2. PICK i \in links \cap Promoted : h = <<i, claim[i].fact>>
    BY <2>1 DEF Basis
  <2> QED BY <2>1, <2>2 DEF FactsOf
<1>2. ASSUME NEW x \in FactsOf(links \cap Promoted)
      PROVE  x \in Told(Basis(links))
  <2>1. PICK i \in links \cap Promoted : x = claim[i].fact
    BY <1>2 DEF FactsOf
  <2>2. <<i, claim[i].fact>> \in Basis(links)
    BY DEF Basis
  <2> QED BY <2>1, <2>2 DEF Told
<1> QED BY <1>1, <1>2

LEMMA InitStamps == Init => StampsOK
<1> SUFFICES ASSUME Init PROVE StampsOK
  OBVIOUS
<1>1. \A k \in Skills : StampOK(k)
  BY DEF Init, StampOK, Exists, NoSkill
<1>2. \A s \in Sessions : PlanOK(job[s])
  BY DEF Init, PlanOK, Idle
<1>3. \A k \in Skills : history[k] = <<>>
  BY DEF Init
<1> QED BY <1>1, <1>2, <1>3 DEF StampsOK

\* What a session goes on with is the only plan that changes.
LEMMA PlansKept ==
    ASSUME IInv, StampsOK,
           UNCHANGED job \/ \E s \in Sessions : \E j : Continue(s, j) /\ PlanOK(j)
    PROVE  \A t \in Sessions : PlanOK(job'[t])
<1>1. CASE UNCHANGED job
  BY <1>1 DEF StampsOK
<1>2. ASSUME NEW s \in Sessions, NEW j, Continue(s, j), PlanOK(j)
      PROVE  \A t \in Sessions : PlanOK(job'[t])
  <2>1. job'[s] = j /\ \A t \in Sessions \ {s} : job'[t] = job[t]
    BY <1>2 DEF IInv, Jobs, Continue
  <2> QED BY <1>2, <2>1 DEF StampsOK
<1> QED BY <1>1, <1>2

\* What keeps the stamps keeps them true.
SameStamps ==
    \A k \in Skills : /\ skill'[k].status = "none" <=> skill[k].status = "none"
                      /\ skill[k].status # "none" => skill'[k].hash = skill[k].hash

LEMMA StampsKept ==
    ASSUME IInv, StampsOK, UNCHANGED <<origin, rebased, history>>, SameStamps,
           UNCHANGED job \/ \E s \in Sessions : \E j : Continue(s, j) /\ PlanOK(j)
    PROVE  StampsOK'
<1>1. ASSUME NEW k \in Skills PROVE StampOK(k)'
  BY DEF StampsOK, StampOK, Exists, SameStamps
<1>2. \A t \in Sessions : PlanOK(job[t])'
  BY PlansKept DEF PlanOK, VersionOK
<1>3. \A k \in Skills : \A i \in DOMAIN history'[k] : VersionOK(history'[k][i])
  BY DEF StampsOK
<1> QED BY <1>1, <1>2, <1>3 DEF StampsOK, VersionOK

\* A row given new text or links.
LEMMA RowHash ==
    ASSUME IInv, NEW k \in Skills, Exists(k), NEW row, skill' = [skill EXCEPT ![k] = row],
           row.status # "none", row.hash = skill[k].hash
    PROVE  SameStamps
BY DEF IInv, TypeOK, Exists, SameStamps

LEMMA ClaimsStamps ==
    ASSUME IInv, StampsOK, NEW s \in Sessions, FileClaim(s) \/ ReviewClaim(s) \/ DropClaim(s)
    PROVE  StampsOK'
<1>1. UNCHANGED <<origin, rebased, history, job>>
  BY DEF FileClaim, ReviewClaim, DropClaim, tables
<1>2. SameStamps
  <2>1. CASE DropClaim(s)
    <3>1. PICK i : skill' = [k \in Skills |->
                               IF Exists(k) THEN [skill[k] EXCEPT !.links = @ \ {i}] ELSE skill[k]]
      BY <2>1 DEF DropClaim
    <3>2. ASSUME NEW k \in Skills, Exists(k)
          PROVE  skill'[k].status = skill[k].status /\ skill'[k].hash = skill[k].hash
      <4>1. skill[k] \in SkillRows /\ skill'[k] = [skill[k] EXCEPT !.links = @ \ {i}]
        BY <3>1, <3>2, RowOf
      <4> QED BY <4>1 DEF SkillRows
    <3>3. \A k \in Skills : ~Exists(k) => skill'[k] = skill[k]
      BY <3>1
    <3> QED BY <3>2, <3>3 DEF Exists, SameStamps
  <2>2. CASE FileClaim(s) \/ ReviewClaim(s)
    BY <2>2 DEF FileClaim, ReviewClaim, tables, SameStamps
  <2> QED BY <2>1, <2>2
<1> QED BY <1>1, <1>2, StampsKept

LEMMA NewStamps ==
    ASSUME IInv, StampsOK, NEW s \in Sessions, NEW k \in Skills, New(s, k)
    PROVE  StampsOK'
<1>1. UNCHANGED <<origin, rebased, history, job>> /\ ~Exists(k)
  BY DEF New
<1>2. PICK links : skill' = [skill EXCEPT ![k] = [status |-> "draft", body |-> NoBody,
                                                  links |-> links, hash |-> {},
                                                  installed |-> FALSE]]
  BY DEF New
<1>3. skill'[k].status = "draft" /\ skill'[k].hash = {}
      /\ \A m \in Skills \ {k} : skill'[m] = skill[m]
  BY <1>2 DEF IInv, TypeOK
<1>4. ASSUME NEW m \in Skills PROVE StampOK(m)'
  <2>1. StampOK(m) /\ origin'[m] = origin[m] /\ rebased'[m] = rebased[m]
    BY <1>1 DEF StampsOK
  <2>2. CASE m = k
    BY <1>1, <1>3, <2>1, <2>2 DEF StampOK, Exists, Told
  <2>3. CASE m # k
    BY <1>3, <2>1, <2>3 DEF StampOK, Exists
  <2> QED BY <2>2, <2>3
<1> QED BY <1>1, <1>4 DEF StampsOK, PlanOK, VersionOK

LEMMA EditsStamps ==
    ASSUME IInv, StampsOK, NEW s \in Sessions, NEW k \in Skills,
           Describe(s, k) \/ Attach(s, k) \/ Detach(s, k)
    PROVE  StampsOK'
<1>1. UNCHANGED <<origin, rebased, history, job>> /\ Exists(k) /\ skill[k] \in SkillRows
  BY RowOf DEF Describe, Attach, Detach
<1>2. \E x : \/ skill' = [skill EXCEPT ![k] = [skill[k] EXCEPT !.body = x]]
             \/ skill' = [skill EXCEPT ![k] = [skill[k] EXCEPT !.links = x]]
  BY DEF Describe, Attach, Detach
<1>3. PICK x : \/ skill' = [skill EXCEPT ![k] = [skill[k] EXCEPT !.body = x]]
               \/ skill' = [skill EXCEPT ![k] = [skill[k] EXCEPT !.links = x]]
  BY <1>2
<1> PICK row : /\ row \in {[skill[k] EXCEPT !.body = x], [skill[k] EXCEPT !.links = x]}
               /\ skill' = [skill EXCEPT ![k] = row]
  BY <1>3
<1>4. row.hash = skill[k].hash /\ row.status = skill[k].status
  BY <1>1 DEF SkillRows
<1>5. SameStamps
  BY <1>1, <1>4, RowHash DEF Exists
<1> QED BY <1>1, <1>5, StampsKept

\* What set_body is about to stamp names the claims its text is written from, and a
\* revert is about to restore a version.
LEMMA PlansStamps ==
    ASSUME IInv, StampsOK, NEW s \in Sessions, NEW k \in Skills,
           SetBodyRead(s, k) \/ RevertRead(s, k)
    PROVE  StampsOK'
<1>1. UNCHANGED <<origin, rebased, history, skill>>
  BY DEF SetBodyRead, RevertRead, tables
<1>2. \E j : Continue(s, j) /\ PlanOK(j)
  <2>1. CASE SetBodyRead(s, k)
    <3> DEFINE hash == Basis(skill[k].links)
               from == FactsOf(skill[k].links \cap Promoted)
    <3>1. PICK body : Continue(s, [op |-> "set body", skill |-> k, body |-> body,
                                   hash |-> hash, from |-> from])
      BY <2>1 DEF SetBodyRead
    <3>2. from = Told(hash)
      BY BasisTells
    <3> HIDE DEF hash, from
    <3> PICK j : j = [op |-> "set body", skill |-> k, body |-> body, hash |-> hash,
                      from |-> from]
      OBVIOUS
    <3>3. j.op = "set body" /\ j.hash = hash /\ j.from = from /\ Continue(s, j)
      BY <3>1
    <3> QED BY <3>2, <3>3 DEF PlanOK
  <2>2. CASE RevertRead(s, k)
    <3>1. PICK to \in DOMAIN history[k] :
             Continue(s, [op |-> "revert", skill |-> k, version |-> history[k][to],
                          reinstall |-> skill[k].installed])
      BY <2>2 DEF RevertRead
    <3>2. VersionOK(history[k][to])
      BY DEF StampsOK
    <3> PICK j : j = [op |-> "revert", skill |-> k, version |-> history[k][to],
                      reinstall |-> skill[k].installed]
      OBVIOUS
    <3>3. j.op = "revert" /\ j.version = history[k][to] /\ Continue(s, j)
      BY <3>1
    <3> QED BY <3>2, <3>3 DEF PlanOK
  <2> QED BY <2>1, <2>2
<1>3. SameStamps
  BY <1>1 DEF SameStamps
<1> QED BY <1>1, <1>2, <1>3, StampsKept

LEMMA SetBodyStamps ==
    ASSUME IInv, StampsOK, NEW s \in Sessions, SetBodyWrite(s)
    PROVE  StampsOK'
<1> DEFINE k == job[s].skill
<1>1. JobOK(job[s], skill, history) /\ PlanOK(job[s]) /\ job[s].op = "set body"
  BY JobOf DEF SetBodyWrite, Doing, StampsOK
<1>2. k \in Skills /\ Exists(k) /\ job[s].from = Told(job[s].hash)
  BY <1>1 DEF JobOK, Exists, PlanOK
<1>3. skill[k] \in SkillRows
  BY <1>2, RowOf
<1>4. /\ skill' = [skill EXCEPT ![k].body = job[s].body, ![k].hash = job[s].hash]
      /\ origin' = [origin EXCEPT ![k] = job[s].from]
      /\ rebased' = [rebased EXCEPT ![k] = FALSE]
      /\ Continue(s, Idle) /\ UNCHANGED history
  BY DEF SetBodyWrite, Done
<1> HIDE DEF k
<1>5. /\ skill'[k].status = skill[k].status /\ skill'[k].hash = job[s].hash
      /\ origin'[k] = job[s].from
      /\ \A m \in Skills \ {k} : /\ skill'[m] = skill[m] /\ origin'[m] = origin[m]
                                 /\ rebased'[m] = rebased[m]
  BY <1>2, <1>3, <1>4 DEF IInv, TypeOK, SkillRows
<1>6. ASSUME NEW m \in Skills PROVE StampOK(m)'
  <2>1. CASE m = k
    BY <1>2, <1>5, <2>1 DEF StampOK, Exists
  <2>2. CASE m # k
    BY <1>5, <2>2 DEF StampsOK, StampOK, Exists
  <2> QED BY <2>1, <2>2
<1>7. PlanOK(Idle)
  BY DEF PlanOK, Idle
<1>8. \A t \in Sessions : PlanOK(job'[t])
  BY <1>4, <1>7, PlansKept
<1> QED BY <1>4, <1>6, <1>8 DEF StampsOK, PlanOK, VersionOK

\* A new version, stamped with what it was written from or marked as rebased.
LEMMA SnapshotStamps ==
    ASSUME IInv, StampsOK, NEW s \in Sessions, NEW k \in Skills, Exists(k),
           NEW row, row.status = "approved", NEW from, NEW moved \in BOOLEAN,
           Snapshot(k, row, from, moved), moved \/ from = Told(row.hash),
           NEW j, Continue(s, j), PlanOK(j)
    PROVE  StampsOK'
<1> PICK version : version = [body |-> row.body, links |-> row.links, hash |-> row.hash,
                              from |-> from, rebased |-> moved]
  OBVIOUS
<1>1. VersionOK(version)
  BY DEF VersionOK
<1>2. /\ skill'[k] = row /\ history'[k] = Append(history[k], version)
      /\ origin'[k] = from /\ rebased'[k] = moved
      /\ \A m \in Skills \ {k} : /\ skill'[m] = skill[m] /\ origin'[m] = origin[m]
                                 /\ rebased'[m] = rebased[m] /\ history'[m] = history[m]
  BY DEF Snapshot, IInv, TypeOK
<1>3. ASSUME NEW m \in Skills PROVE StampOK(m)'
  <2>1. CASE m = k
    BY <1>2, <2>1 DEF StampOK, Exists
  <2>2. CASE m # k
    BY <1>2, <2>2 DEF StampsOK, StampOK, Exists
  <2> QED BY <2>1, <2>2
<1>4. ASSUME NEW m \in Skills, NEW i \in DOMAIN history'[m]
      PROVE  VersionOK(history'[m][i])
  <2>1. CASE m # k
    BY <1>2, <1>4, <2>1 DEF StampsOK
  <2>2. CASE m = k
    <3>1. history[k] \in Seq(Versions)
      BY DEF IInv, TypeOK
    <3>2. i \in DOMAIN history[k] \/ i = Len(history[k]) + 1
      BY <1>2, <1>4, <2>2, <3>1
    <3>3. CASE i \in DOMAIN history[k]
      <4>1. history'[k][i] = history[k][i]
        BY <1>2, <3>1, <3>3
      <4> QED BY <2>2, <3>3, <4>1 DEF StampsOK
    <3>4. CASE i = Len(history[k]) + 1
      <4>1. history'[k][i] = version
        BY <1>2, <3>1, <3>4
      <4> QED BY <1>1, <2>2, <4>1
    <3> QED BY <3>2, <3>3, <3>4
  <2> QED BY <2>1, <2>2
<1>5. \A t \in Sessions : PlanOK(job'[t])
  BY PlansKept
<1> QED BY <1>3, <1>4, <1>5 DEF StampsOK, PlanOK, VersionOK

LEMMA ApproveStamps ==
    ASSUME IInv, StampsOK, NEW s \in Sessions, ApproveWrite(s)
    PROVE  StampsOK'
<1> DEFINE k == job[s].skill
           moved == rebased[k] \/ job[s].hash # skill[k].hash
<1>1. JobOK(job[s], skill, history) /\ job[s].op = "stamp"
  BY JobOf DEF ApproveWrite, Doing
<1>2. k \in Skills /\ Exists(k)
  BY <1>1 DEF JobOK, Exists
<1>3. skill[k] \in SkillRows
  BY <1>2, RowOf
<1> PICK row : row = [skill[k] EXCEPT !.status = "approved", !.hash = job[s].hash]
  OBVIOUS
<1>4. row.status = "approved" /\ row.hash = job[s].hash
  BY <1>3 DEF SkillRows
<1>5. Snapshot(k, row, origin[k], moved)
      /\ Continue(s, [op |-> "render", skill |-> k, reinstall |-> FALSE])
  BY DEF ApproveWrite
<1>6. moved \in BOOLEAN /\ (moved \/ origin[k] = Told(row.hash))
  BY <1>2, <1>4 DEF IInv, TypeOK, StampsOK, StampOK
<1>7. PlanOK([op |-> "render", skill |-> k, reinstall |-> FALSE])
  BY DEF PlanOK
<1> HIDE DEF k, moved
<1> QED BY <1>2, <1>4, <1>5, <1>6, <1>7, SnapshotStamps

LEMMA RevertStamps ==
    ASSUME IInv, StampsOK, NEW s \in Sessions, RevertWrite(s)
    PROVE  StampsOK'
<1> DEFINE k == job[s].skill
           old == job[s].version
<1>1. JobOK(job[s], skill, history) /\ PlanOK(job[s]) /\ job[s].op = "revert"
  BY JobOf DEF RevertWrite, Doing, StampsOK
<1>2. k \in Skills /\ Exists(k) /\ old \in Versions /\ VersionOK(old)
  BY <1>1 DEF JobOK, Exists, PlanOK
<1>3. skill[k] \in SkillRows
  BY <1>2, RowOf
<1> PICK row : row = [skill[k] EXCEPT !.status = "approved", !.body = old.body,
                                      !.links = old.links \cap Rows, !.hash = old.hash]
  OBVIOUS
<1>4. row.status = "approved" /\ row.hash = old.hash
  BY <1>3 DEF SkillRows
<1>5. Snapshot(k, row, old.from, old.rebased)
      /\ Continue(s, [op |-> "render", skill |-> k, reinstall |-> job[s].reinstall])
  BY DEF RevertWrite
<1>6. old.rebased \in BOOLEAN /\ (old.rebased \/ old.from = Told(row.hash))
  BY <1>2, <1>4 DEF Versions, VersionOK
<1>7. PlanOK([op |-> "render", skill |-> k, reinstall |-> job[s].reinstall])
  BY DEF PlanOK
<1> HIDE DEF k, old
<1> QED BY <1>2, <1>4, <1>5, <1>6, <1>7, SnapshotStamps

LEMMA MarksStamps ==
    ASSUME IInv, StampsOK, NEW s \in Sessions, Mark(s) \/ RetireWrite(s)
    PROVE  StampsOK'
<1>1. UNCHANGED <<origin, rebased, history>> /\ Continue(s, Idle)
  BY DEF Mark, RetireWrite, Done
<1>2. JobOK(job[s], skill, history)
  BY JobOf
<1>3. SameStamps
  <2>1. CASE Mark(s)
    <3>1. job[s].skill \in Skills /\ Exists(job[s].skill)
      BY <1>2, <2>1 DEF Mark, Doing, JobOK, Exists
    <3>2. skill[job[s].skill] \in SkillRows
      BY <3>1, RowOf
    <3>3. skill' = [skill EXCEPT ![job[s].skill].installed = job[s].installed]
      BY <2>1 DEF Mark
    <3> QED BY <3>1, <3>2, <3>3 DEF IInv, TypeOK, SkillRows, SameStamps
  <2>2. CASE RetireWrite(s)
    <3> DEFINE k == job[s].skill
               into == job[s].into
    <3>1. k \in Skills /\ Exists(k) /\ into \in Skills /\ Exists(into)
      BY <1>2, <2>2 DEF RetireWrite, Doing, JobOK, Exists
    <3>2. skill[k] \in SkillRows /\ skill[into] \in SkillRows
      BY <3>1, RowOf
    <3>3. skill' = [skill EXCEPT ![k].status = "archived",
                                 ![into].links = @ \cup skill[k].links]
      BY <2>2 DEF RetireWrite
    <3> HIDE DEF k, into
    <3>4. ASSUME NEW m \in Skills
          PROVE  /\ skill'[m].status = "none" <=> skill[m].status = "none"
                 /\ skill[m].status # "none" => skill'[m].hash = skill[m].hash
      BY <3>1, <3>2, <3>3 DEF IInv, TypeOK, SkillRows, Exists
    <3> QED BY <3>4 DEF SameStamps
  <2> QED BY <2>1, <2>2
<1>4. PlanOK(Idle)
  BY DEF PlanOK, Idle
<1> QED BY <1>1, <1>3, <1>4, StampsKept

-----------------------------------------------------------------------------
(* What a session goes on with *)

\* Neither what approve() checked, nor a text that is planned.
Unchecked(j) == j.op \notin {"approve", "stamp"}
Unplanned(j) == j.op \notin {"set body", "revert"}
Routine(j) == Unchecked(j) /\ Unplanned(j)

\* Steps on the directories, and the reads of commands that plan no text.
LEMMA DirJobs ==
    ASSUME NEW s \in Sessions,
           \/ RenderOne(s) \/ RetireRemove(s) \/ RenderRead(s) \/ RenderWrite(s)
           \/ InstallCopy(s) \/ Stop(s)
           \/ \E k \in Skills : \/ InstallRead(s, k) \/ UninstallRemove(s, k)
                                \/ \E into \in Skills : RetireRead(s, k, into)
    PROVE  /\ UNCHANGED <<claims, tables>>
           /\ \E j : Continue(s, j) /\ Routine(j)
<1> USE DEF Routine, Unchecked, Unplanned
<1>1. UNCHANGED <<claims, tables>>
  BY DEF RenderOne, RetireRemove, RenderRead, RenderWrite, InstallCopy, Stop, InstallRead,
         UninstallRemove, RetireRead
<1>2. Idle.op = "idle"
  BY DEF Idle
<1>3. \E j : Continue(s, j) /\ j.op \in {"idle", "reinstall", "retired", "render all", "mark",
                                        "install", "retire"}
  <2>1. CASE RenderOne(s)
    <3> PICK j : j = [op |-> "reinstall", skill |-> job[s].skill]
      OBVIOUS
    <3>1. j.op = "reinstall" /\ (Continue(s, j) \/ Continue(s, Idle))
      BY <2>1 DEF RenderOne, Done
    <3> QED BY <1>2, <3>1
  <2>2. CASE RetireRemove(s)
    <3> PICK j : j = [op |-> "retired", skill |-> job[s].skill, into |-> job[s].into]
      OBVIOUS
    <3>1. j.op = "retired" /\ Continue(s, j)
      BY <2>2 DEF RetireRemove
    <3> QED BY <3>1
  <2>3. CASE RenderRead(s)
    <3> PICK j : j = [op |-> "render all", rows |->
                        [k \in {m \in Skills : Renderable(m)} |-> skill[k].body]]
      OBVIOUS
    <3>1. Continue(s, j) /\ j.op = "render all"
      BY <2>3 DEF RenderRead
    <3> QED BY <3>1
  <2>4. CASE RenderWrite(s) \/ Stop(s)
    BY <1>2, <2>4 DEF RenderWrite, Stop, Done
  <2>5. CASE InstallCopy(s)
    <3> PICK j : j = [op |-> "mark", skill |-> job[s].skill, installed |-> TRUE]
      OBVIOUS
    <3>1. j.op = "mark" /\ Continue(s, j)
      BY <2>5 DEF InstallCopy
    <3> QED BY <3>1
  <2>6. ASSUME NEW k \in Skills, InstallRead(s, k) \/ UninstallRemove(s, k)
               \/ \E into \in Skills : RetireRead(s, k, into)
        PROVE  \E j : Continue(s, j) /\ j.op \in {"mark", "install", "retire"}
    <3>1. CASE InstallRead(s, k)
      BY <3>1 DEF InstallRead
    <3>2. CASE UninstallRemove(s, k)
      BY <3>2 DEF UninstallRemove
    <3>3. CASE \E into \in Skills : RetireRead(s, k, into)
      BY <3>3 DEF RetireRead
    <3> QED BY <2>6, <3>1, <3>2, <3>3
  <2>7. CASE \E k \in Skills : \/ InstallRead(s, k) \/ UninstallRemove(s, k)
                              \/ \E into \in Skills : RetireRead(s, k, into)
    BY <2>6, <2>7
  <2> QED BY <2>1, <2>2, <2>3, <2>4, <2>5, <2>7
<1> QED BY <1>1, <1>3

LEMMA ReadsStamps ==
    ASSUME IInv, StampsOK, NEW s \in Sessions, NEW j, Continue(s, j), Unplanned(j),
           UNCHANGED tables
    PROVE  StampsOK'
<1>1. PlanOK(j)
  BY DEF PlanOK, Unplanned
<1>2. SameStamps
  BY DEF tables, SameStamps
<1> QED BY <1>1, <1>2, StampsKept DEF tables

LEMMA ChecksStamps ==
    ASSUME IInv, StampsOK, NEW s \in Sessions,
           ApproveHash(s) \/ \E k \in Skills : ApproveCheck(s, k)
    PROVE  StampsOK'
<1>1. UNCHANGED tables
  BY DEF ApproveHash, ApproveCheck
<1>2. \E j : Continue(s, j) /\ j.op \in {"approve", "stamp"}
  <2>1. CASE ApproveHash(s)
    <3> PICK j : j = [op |-> "stamp", skill |-> job[s].skill,
                      hash |-> Basis(skill[job[s].skill].links)]
      OBVIOUS
    <3>1. Continue(s, j)
      BY <2>1 DEF ApproveHash
    <3> QED BY <3>1
  <2>2. ASSUME NEW k \in Skills, ApproveCheck(s, k)
        PROVE  \E j : Continue(s, j) /\ j.op = "approve"
    <3> PICK j : j = [op |-> "approve", skill |-> k]
      OBVIOUS
    <3>1. Continue(s, j)
      BY <2>2 DEF ApproveCheck
    <3> QED BY <3>1
  <2> QED BY <2>1, <2>2
<1> QED BY <1>1, <1>2, ReadsStamps DEF Unplanned

LEMMA StepStamps == IInv /\ StampsOK /\ [Next]_vars => StampsOK'
<1> SUFFICES ASSUME IInv, StampsOK, [Next]_vars
             PROVE  StampsOK'
  OBVIOUS
<1>1. CASE UNCHANGED vars
  <2>1. UNCHANGED <<origin, rebased, history, skill, job>>
    BY <1>1 DEF vars, tables
  <2> QED BY <2>1, StampsKept DEF SameStamps
<1>2. CASE Next
  <2>1. PICK s \in Sessions : \/ FileClaim(s) \/ ReviewClaim(s) \/ DropClaim(s)
                              \/ \E k \in Skills : Command(s, k)
                              \/ Rest(s)
    BY <1>2 DEF Next
  <2>2. ASSUME \/ RenderOne(s) \/ RetireRemove(s) \/ RenderRead(s) \/ RenderWrite(s)
               \/ InstallCopy(s) \/ Stop(s)
               \/ \E k \in Skills : \/ InstallRead(s, k) \/ UninstallRemove(s, k)
                                    \/ \E into \in Skills : RetireRead(s, k, into)
        PROVE  StampsOK'
    BY <2>2, DirJobs, ReadsStamps DEF Routine
  <2>3. ASSUME NEW k \in Skills, Command(s, k)
        PROVE  StampsOK'
    BY <2>2, <2>3, NewStamps, PlansStamps, EditsStamps, ChecksStamps DEF Command
  <2>4. ASSUME Rest(s)
        PROVE  StampsOK'
    BY <2>2, <2>4, SetBodyStamps, ChecksStamps, ApproveStamps, RevertStamps, MarksStamps DEF Rest
  <2> QED BY <2>1, <2>3, <2>4, ClaimsStamps
<1> QED BY <1>1, <1>2

\* However commands interleave and wherever they crash, check() tells of every approved
\* skill that was written from a claim no longer trusted, unless it was approved over
\* another basis than its own: its stamp names what its text was written from.
THEOREM StaleSkillsAreTold == Spec => []DriftIsReported
<1>1. StampsOK => DriftIsReported
  <2> SUFFICES ASSUME StampsOK, NEW k \in Skills, skill[k].status = "approved", ~rebased[k],
                      ~Drifted(k)
               PROVE  origin[k] \subseteq FactsOf(Promoted)
    BY DEF DriftIsReported
  <2>1. origin[k] = Told(skill[k].hash) /\ Basis(skill[k].links) = skill[k].hash
    BY DEF StampsOK, StampOK, Exists, Drifted
  <2>2. origin[k] = FactsOf(skill[k].links \cap Promoted)
    BY <2>1, BasisTells
  <2> QED BY <2>2 DEF FactsOf
<1> QED BY <1>1, InitIInv, StepIInv, InitStamps, StepStamps, PTL DEF Spec

-----------------------------------------------------------------------------
(***************************************************************************)
(* One command at a time (module SkillsInTurn)                             *)
(***************************************************************************)
\* What approve() found is still so.
CheckedOK(j) == Unchecked(j) \/ skill[j.skill].links \subseteq Promoted

InTurnOK ==
    ~overlapped => /\ \A s, t \in Sessions : s # t => job[s] = Idle \/ job[t] = Idle
                   /\ \A s \in Sessions : CheckedOK(job[s])

LEMMA IdleChecked == CheckedOK(Idle)' /\ CheckedOK(Idle)
BY DEF CheckedOK, Idle, Unchecked

LEMMA InTurnInit == SkillsInit => IInv /\ InTurnOK
<1> SUFFICES ASSUME SkillsInit PROVE IInv /\ InTurnOK
  OBVIOUS
<1>1. IInv
  BY InitIInv DEF SkillsInit
<1>2. \A s \in Sessions : job[s] = Idle
  BY DEF SkillsInit, Init
<1> QED BY <1>1, <1>2, IdleChecked DEF InTurnOK

\* A command of one step comes only where nobody is at work.
LEMMA OneStepInTurn ==
    ASSUME overlapped' = (overlapped \/ Interrupts), UNCHANGED job
    PROVE  InTurnOK'
<1> SUFFICES ASSUME ~overlapped' PROVE InTurnOK'
  BY DEF InTurnOK
<1>1. \A t \in Sessions : job'[t] = Idle
  BY DEF Interrupts
<1> QED BY <1>1, IdleChecked DEF InTurnOK

\* And the other steps where nobody else is.
LEMMA OwnStepInTurn ==
    ASSUME IInv, overlapped' = (overlapped \/ Interrupts),
           NEW s \in Sessions, NEW j, Continue(s, j), ~overlapped => CheckedOK(j)'
    PROVE  InTurnOK'
<1> SUFFICES ASSUME ~overlapped' PROVE InTurnOK'
  BY DEF InTurnOK
<1>1. job'[s] = j /\ \A t \in Sessions \ {s} : job'[t] = job[t]
  BY DEF IInv, Jobs, Continue
<1>2. ~overlapped /\ \A t \in Sessions \ {s} : job'[t] = Idle
  BY <1>1 DEF Interrupts
<1>3. ASSUME NEW t \in Sessions, NEW q, q = job'[t]
      PROVE  CheckedOK(q)'
  BY <1>1, <1>2, <1>3, IdleChecked
<1> QED BY <1>2, <1>3 DEF InTurnOK

\* What a session goes on with has nothing left to hold true, or was just found.
LEMMA ChecksInTurn ==
    ASSUME InTurnOK, NEW s \in Sessions, ApproveHash(s) \/ \E k \in Skills : ApproveCheck(s, k)
    PROVE  \E j : Continue(s, j) /\ (~overlapped => CheckedOK(j)')
<1>1. UNCHANGED <<claim, skill>>
  BY DEF ApproveHash, ApproveCheck, claims, tables
<1>2. \E j : Continue(s, j) /\ (~overlapped => CheckedOK(j))
  <2>1. CASE ApproveHash(s)
    <3> PICK j : j = [op |-> "stamp", skill |-> job[s].skill,
                      hash |-> Basis(skill[job[s].skill].links)]
      OBVIOUS
    <3>1. Continue(s, j) /\ job[s].op = "approve" /\ j.skill = job[s].skill
      BY <2>1 DEF ApproveHash, Doing
    <3>2. ~overlapped => CheckedOK(j)
      BY <3>1 DEF InTurnOK, CheckedOK, Unchecked
    <3> QED BY <3>1, <3>2
  <2>2. ASSUME NEW k \in Skills, ApproveCheck(s, k)
        PROVE  \E j : Continue(s, j) /\ CheckedOK(j)
    <3>1. Continue(s, [op |-> "approve", skill |-> k]) /\ skill[k].links \subseteq Promoted
      BY <2>2 DEF ApproveCheck, Blocked
    <3> QED BY <3>1 DEF CheckedOK
  <2> QED BY <2>1, <2>2
<1> QED BY <1>1, <1>2 DEF CheckedOK, Promoted, Rows

LEMMA WritesInTurn ==
    ASSUME NEW s \in Sessions,
           \/ SetBodyWrite(s) \/ ApproveWrite(s) \/ RevertWrite(s) \/ RetireWrite(s) \/ Mark(s)
           \/ \E k \in Skills : SetBodyRead(s, k) \/ RevertRead(s, k)
    PROVE  \E j : Continue(s, j) /\ Unchecked(j)
<1>1. CASE SetBodyWrite(s) \/ RetireWrite(s) \/ Mark(s)
  <2>1. Continue(s, Idle) /\ Idle.op = "idle"
    BY <1>1 DEF SetBodyWrite, RetireWrite, Mark, Done, Idle
  <2> QED BY <2>1 DEF Unchecked
<1>2. CASE ApproveWrite(s) \/ RevertWrite(s)
  <2>1. \E j : Continue(s, j) /\ j.op = "render"
    BY <1>2 DEF ApproveWrite, RevertWrite
  <2> QED BY <2>1 DEF Unchecked
<1>3. ASSUME NEW k \in Skills, SetBodyRead(s, k) \/ RevertRead(s, k)
      PROVE  \E j : Continue(s, j) /\ j.op \in {"set body", "revert"}
  <2>1. CASE SetBodyRead(s, k)
    <3>1. PICK body, hash, from :
             Continue(s, [op |-> "set body", skill |-> k, body |-> body, hash |-> hash,
                          from |-> from])
      BY <2>1 DEF SetBodyRead
    <3> PICK j : j = [op |-> "set body", skill |-> k, body |-> body, hash |-> hash,
                      from |-> from]
      OBVIOUS
    <3>2. Continue(s, j) /\ j.op = "set body"
      BY <3>1
    <3> QED BY <3>2
  <2>2. CASE RevertRead(s, k)
    <3>1. PICK version, reinstall :
             Continue(s, [op |-> "revert", skill |-> k, version |-> version,
                          reinstall |-> reinstall])
      BY <2>2 DEF RevertRead
    <3> PICK j : j = [op |-> "revert", skill |-> k, version |-> version,
                      reinstall |-> reinstall]
      OBVIOUS
    <3>2. Continue(s, j) /\ j.op = "revert"
      BY <3>1
    <3> QED BY <3>2
  <2> QED BY <1>3, <2>1, <2>2
<1> QED BY <1>1, <1>2, <1>3 DEF Unchecked

LEMMA InTurnStep == IInv /\ InTurnOK /\ [SkillsNext]_skillVars => IInv' /\ InTurnOK'
<1> SUFFICES ASSUME IInv, InTurnOK, [SkillsNext]_skillVars
             PROVE  IInv' /\ InTurnOK'
  OBVIOUS
<1>1. IInv'
  BY StepIInv DEF SkillsNext, skillVars
<1>2. CASE UNCHANGED skillVars
  <2>1. UNCHANGED <<claim, skill, job, overlapped>>
    BY <1>2 DEF skillVars, vars, claims, tables
  <2> QED BY <1>1, <2>1 DEF InTurnOK, CheckedOK, Promoted, Rows
<1>3. CASE SkillsNext
  <2>1. overlapped' = (overlapped \/ Interrupts)
    BY <1>3 DEF SkillsNext
  <2>2. PICK s \in Sessions : \/ FileClaim(s) \/ ReviewClaim(s) \/ DropClaim(s)
                              \/ \E k \in Skills : Command(s, k)
                              \/ Rest(s)
    BY <1>3 DEF SkillsNext, Next
  <2>3. ASSUME NEW j, Continue(s, j), Unchecked(j)
        PROVE  InTurnOK'
    BY <2>1, <2>3, OwnStepInTurn DEF CheckedOK, Unchecked
  <2>4. ASSUME UNCHANGED job
        PROVE  InTurnOK'
    BY <2>1, <2>4, OneStepInTurn
  <2>5. FileClaim(s) \/ ReviewClaim(s) \/ DropClaim(s) => InTurnOK'
    BY <2>4 DEF FileClaim, ReviewClaim, DropClaim
  <2>6. (ApproveHash(s) \/ \E k \in Skills : ApproveCheck(s, k)) => InTurnOK'
    BY <2>1, ChecksInTurn, OwnStepInTurn
  <2>7. SetBodyWrite(s) \/ ApproveWrite(s) \/ RevertWrite(s) \/ RetireWrite(s) \/ Mark(s)
          => InTurnOK'
    BY <2>3, WritesInTurn
  <2>8. ASSUME \/ RenderOne(s) \/ RetireRemove(s) \/ RenderRead(s) \/ RenderWrite(s)
               \/ InstallCopy(s) \/ Stop(s)
               \/ \E k \in Skills : \/ InstallRead(s, k) \/ UninstallRemove(s, k)
                                    \/ \E into \in Skills : RetireRead(s, k, into)
        PROVE  InTurnOK'
    BY <2>3, <2>8, DirJobs DEF Routine
  <2>9. ASSUME NEW k \in Skills, Command(s, k)
        PROVE  InTurnOK'
    <3>1. New(s, k) \/ Describe(s, k) \/ Attach(s, k) \/ Detach(s, k) => InTurnOK'
      BY <2>4 DEF New, Describe, Attach, Detach
    <3>2. SetBodyRead(s, k) \/ RevertRead(s, k) => InTurnOK'
      BY <2>3, WritesInTurn
    <3> QED BY <2>6, <2>8, <2>9, <3>1, <3>2 DEF Command
  <2>10. ASSUME Rest(s)
         PROVE  InTurnOK'
    BY <2>6, <2>7, <2>8, <2>10 DEF Rest
  <2> QED BY <1>1, <2>2, <2>5, <2>9, <2>10
<1> QED BY <1>2, <1>3

LEMMA InTurnKept == SkillsSpec => [](IInv /\ InTurnOK)
BY InTurnInit, InTurnStep, PTL DEF SkillsSpec

\* Every step but approve's and revert's writes leaves the versions alone.
LEMMA OnlySnapshots ==
    ASSUME NEW s \in Sessions,
           \/ FileClaim(s) \/ ReviewClaim(s) \/ DropClaim(s) \/ Rest(s)
           \/ \E k \in Skills : Command(s, k)
    PROVE  UNCHANGED history \/ ApproveWrite(s) \/ RevertWrite(s)
BY DEF FileClaim, ReviewClaim, DropClaim, Command, Rest, New, SetBodyRead, Describe, Attach,
       Detach, ApproveCheck, RevertRead, RetireRead, InstallRead, UninstallRemove, SetBodyWrite,
       ApproveHash, RenderOne, RetireRemove, RetireWrite, RenderRead, RenderWrite, InstallCopy,
       Mark, Stop, tables

\* Approve writes the links it checked, and revert checks the links it writes.
LEMMA SnapshotLinks ==
    ASSUME IInv, InTurnOK, ~overlapped, NEW s \in Sessions, ApproveWrite(s) \/ RevertWrite(s),
           NEW m \in Skills, history'[m] # history[m]
    PROVE  skill'[m].links \subseteq Promoted'
<1> DEFINE k == job[s].skill
           old == job[s].version
<1>1. JobOK(job[s], skill, history) /\ CheckedOK(job[s])
  BY JobOf DEF InTurnOK
<1>2. k \in Skills /\ Exists(k)
  BY <1>1 DEF ApproveWrite, RevertWrite, Doing, JobOK, Exists
<1>3. skill[k] \in SkillRows
  BY <1>2, RowOf
<1>4. \E row, from, moved : Snapshot(k, row, from, moved) /\ row.links \subseteq Promoted
  <2>1. CASE ApproveWrite(s)
    <3> PICK row : row = [skill[k] EXCEPT !.status = "approved", !.hash = job[s].hash]
      OBVIOUS
    <3>1. row.links = skill[k].links
      BY <1>3 DEF SkillRows
    <3>2. job[s].op = "stamp" /\ \E from, moved : Snapshot(k, row, from, moved)
      BY <2>1 DEF ApproveWrite, Doing
    <3> QED BY <1>1, <3>1, <3>2 DEF CheckedOK, Unchecked
  <2>2. CASE RevertWrite(s)
    <3> PICK row : row = [skill[k] EXCEPT !.status = "approved", !.body = old.body,
                                          !.links = old.links \cap Rows, !.hash = old.hash]
      OBVIOUS
    <3>1. row.links = old.links \cap Rows
      BY <1>3 DEF SkillRows
    <3>2. /\ old.links \cap Rows \subseteq Promoted
          /\ \E from, moved : Snapshot(k, row, from, moved)
      BY <2>2 DEF RevertWrite, Cleared, Blocked
    <3> QED BY <3>1, <3>2
  <2> QED BY <2>1, <2>2
<1>5. PICK row, from, moved : Snapshot(k, row, from, moved) /\ row.links \subseteq Promoted
  BY <1>4
<1> HIDE DEF k, old
<1>6. skill'[k] = row /\ m = k
  BY <1>2, <1>5 DEF Snapshot, IInv, TypeOK
<1>7. Promoted' = Promoted
  BY DEF ApproveWrite, RevertWrite, Promoted, Rows, claims
<1> QED BY <1>5, <1>6, <1>7

\* What approve() validated is true of the version it writes.
THEOREM ApprovalsAreTrue == SkillsSpec => OnlyTruthIsApproved
<1>1. IInv /\ InTurnOK /\ [SkillsNext]_skillVars =>
        [~overlapped =>
          \A k \in Skills : history'[k] # history[k] => skill'[k].links \subseteq Promoted']_skillVars
  <2> SUFFICES ASSUME IInv, InTurnOK, SkillsNext, ~overlapped, NEW k \in Skills,
                      history'[k] # history[k]
               PROVE  skill'[k].links \subseteq Promoted'
    OBVIOUS
  <2>1. PICK s \in Sessions : ApproveWrite(s) \/ RevertWrite(s)
    BY OnlySnapshots DEF SkillsNext, Next
  <2> QED BY <2>1, SnapshotLinks
<1> QED BY <1>1, InTurnKept, PTL DEF SkillsSpec, OnlyTruthIsApproved
=============================================================================
