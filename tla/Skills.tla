------------------------------- MODULE Skills -------------------------------
(***************************************************************************)
(* Skills authored from promoted claims (skills.py): drafts in the         *)
(* database, an approval gate that snapshots a version, a projection of    *)
(* approved skills to the repository's .claude/skills, and an opt-in copy  *)
(* in ~/.claude/skills.                                                    *)
(*                                                                         *)
(* A session runs one command at a time.  What a command has read before   *)
(* its transaction, and what it still has to do to the directories before  *)
(* or after its commit, is in `job`; a crash drops the rest of the job.    *)
(***************************************************************************)
EXTENDS Naturals, Sequences

CONSTANTS Sessions,
          Skills,      \* skill names
          Bodies,      \* what a SKILL.md may say: description, body and tools
          NoBody,      \* an empty body; also a directory that is not there
          MaxClaim,    \* bound on claim ids
          MaxFacts,    \* bound on the claims ever filed
          MaxVersions  \* bound on the versions of a skill

ASSUME SkillsAssumption ==
    /\ NoBody \notin Bodies
    /\ MaxClaim \in Nat /\ MaxFacts \in Nat /\ MaxVersions \in Nat

Ids == 1 .. MaxClaim

VARIABLES
    claim,      \* claims: which claim a row is, and its status; NoRow
    filed,      \* history: how many claims were ever filed
    skill,      \* skills, NoSkill where there is no row
    history,    \* skill_versions, in order; skills.version is its length
    origin,     \* history: the claims each skill's text was written from
    rebased,    \* history: an approval put another basis under the text than that
    repoDir,    \* .claude/skills/<name>, NoBody where there is no directory
    globalDir,  \* ~/.claude/skills/<name>
    job         \* what each session has still to do

claims == <<claim, filed>>
tables == <<skill, history, origin, rebased>>
dirs == <<repoDir, globalDir>>
vars == <<claims, tables, dirs, job>>

Idle == [op |-> "idle"]
NoSkill == [status |-> "none"]
NoRow == [fact |-> 0, status |-> "none"]

Init ==
    /\ claim = [i \in Ids |-> NoRow]
    /\ filed = 0
    /\ skill = [k \in Skills |-> NoSkill]
    /\ history = [k \in Skills |-> <<>>]
    /\ origin = [k \in Skills |-> {}]
    /\ rebased = [k \in Skills |-> FALSE]
    /\ repoDir = [k \in Skills |-> NoBody]
    /\ globalDir = [k \in Skills |-> NoBody]
    /\ job = [s \in Sessions |-> Idle]

Exists(k) == skill[k].status # "none"
Rows == {i \in Ids : claim[i] # NoRow}
Promoted == {i \in Rows : claim[i].status = "promoted"}

Continue(s, record) == job' = [job EXCEPT ![s] = record]
Done(s) == Continue(s, Idle)
Doing(s, op) == job[s].op = op

\* A refusal, an exception or the end of the process: what was not committed is
\* gone, what was done to the directories stays.
Stop(s) == job[s] # Idle /\ Done(s) /\ UNCHANGED <<claims, tables, dirs>>

(***************************************************************************)
(* The claims the skills link to (module ClaimLedger, in brief)            *)
(***************************************************************************)
\* An extraction inserts a pending claim; ids come back after deletes.
FileClaim(s) ==
    /\ job[s] = Idle
    /\ filed < MaxFacts
    /\ \E i \in Ids :
          /\ i = 1 \/ i - 1 \in Rows
          /\ \A j \in Rows : j < i
          /\ claim' = [claim EXCEPT ![i] = [fact |-> filed + 1, status |-> "pending"]]
    /\ filed' = filed + 1
    /\ UNCHANGED <<tables, dirs, job>>

ReviewClaim(s) ==
    /\ job[s] = Idle
    /\ \E i \in Rows, verdict \in {"promoted", "rejected"} :
          /\ verdict = "promoted" => claim[i].status = "pending"
          /\ claim' = [claim EXCEPT ![i].status = verdict]
    /\ UNCHANGED <<filed, tables, dirs, job>>

\* A refile deletes claims that are not promoted; skill_claims cascades.
DropClaim(s) ==
    /\ job[s] = Idle
    /\ \E i \in Rows \ Promoted :
          /\ claim' = [claim EXCEPT ![i] = NoRow]
          /\ skill' = [k \in Skills |->
                         IF Exists(k) THEN [skill[k] EXCEPT !.links = @ \ {i}]
                                      ELSE skill[k]]
    /\ UNCHANGED <<filed, history, origin, rebased, dirs, job>>

(***************************************************************************)
(* Authoring                                                               *)
(***************************************************************************)
FactsOf(ids) == {claim[i].fact : i \in ids}

\* Mutant of Basis: the ids alone, without the review timestamps.
BasisByIds(links) == {<<i, 0>> : i \in links \cap Promoted}

\* _input_hash, up to equality: the promoted linked claims.  Id and timestamp tell
\* two claims apart that had the same id.
Basis(links) == {<<i, claim[i].fact>> : i \in links \cap Promoted}

\* Mutant of Blocked: the links are not looked at.
BlockedEmpty(body, links) == body = NoBody

\* _validate, its errors: no text, or a link to a claim that is not promoted.
Blocked(body, links) == body = NoBody \/ ~(links \subseteq Promoted)

New(s, k) ==
    /\ job[s] = Idle
    /\ ~Exists(k)
    /\ \E links \in SUBSET Rows :
          skill' = [skill EXCEPT ![k] = [status |-> "draft", body |-> NoBody,
                                         links |-> links, hash |-> {},
                                         installed |-> FALSE]]
    /\ UNCHANGED <<claims, history, origin, rebased, dirs, job>>

\* set_body, whatever the status: the hash is read before the transaction, and the
\* text is written from the claims linked and trusted then.
SetBodyRead(s, k) ==
    /\ job[s] = Idle
    /\ Exists(k)
    /\ \E body \in Bodies :
          Continue(s, [op |-> "set body", skill |-> k, body |-> body,
                       hash |-> Basis(skill[k].links),
                       from |-> FactsOf(skill[k].links \cap Promoted)])
    /\ UNCHANGED <<claims, tables, dirs>>

SetBodyWrite(s) ==
    LET k == job[s].skill IN
    /\ Doing(s, "set body")
    /\ skill' = [skill EXCEPT ![k].body = job[s].body, ![k].hash = job[s].hash]
    /\ origin' = [origin EXCEPT ![k] = job[s].from]
    /\ rebased' = [rebased EXCEPT ![k] = FALSE]
    /\ Done(s)
    /\ UNCHANGED <<claims, history, dirs>>

\* describe, tools: another text, the same stamp.
Describe(s, k) ==
    /\ job[s] = Idle
    /\ Exists(k)
    /\ skill[k].body # NoBody
    /\ \E text \in Bodies : skill' = [skill EXCEPT ![k].body = text]
    /\ UNCHANGED <<claims, history, origin, rebased, dirs, job>>

Attach(s, k) ==
    /\ job[s] = Idle
    /\ Exists(k)
    /\ \E i \in Rows : skill' = [skill EXCEPT ![k].links = @ \cup {i}]
    /\ UNCHANGED <<claims, history, origin, rebased, dirs, job>>

Detach(s, k) ==
    /\ job[s] = Idle
    /\ Exists(k)
    /\ \E i \in skill[k].links : skill' = [skill EXCEPT ![k].links = @ \ {i}]
    /\ UNCHANGED <<claims, history, origin, rebased, dirs, job>>

(***************************************************************************)
(* The gate: approve and revert, each a version, then the repository copy  *)
(***************************************************************************)
\* approve: validate, compute the hash, and only then write.
ApproveCheck(s, k) ==
    /\ job[s] = Idle
    /\ Exists(k)
    /\ ~Blocked(skill[k].body, skill[k].links)
    /\ Continue(s, [op |-> "approve", skill |-> k])
    /\ UNCHANGED <<claims, tables, dirs>>

ApproveHash(s) ==
    /\ Doing(s, "approve")
    /\ Continue(s, [op |-> "stamp", skill |-> job[s].skill,
                     hash |-> Basis(skill[job[s].skill].links)])
    /\ UNCHANGED <<claims, tables, dirs>>

\* _snapshot: the row as it now is becomes the next version.  What its text was
\* written from goes with it.
Snapshot(k, row, from, moved) ==
    /\ Len(history[k]) < MaxVersions
    /\ skill' = [skill EXCEPT ![k] = row]
    /\ history' = [history EXCEPT ![k] = Append(@, [body |-> row.body, links |-> row.links,
                                                    hash |-> row.hash, from |-> from,
                                                    rebased |-> moved])]
    /\ origin' = [origin EXCEPT ![k] = from]
    /\ rebased' = [rebased EXCEPT ![k] = moved]

\* The text stays what it was, and so does what it was written from.  The stamp is
\* replaced by the basis of now, whichever one the text had.
ApproveWrite(s) ==
    LET k == job[s].skill IN
    /\ Doing(s, "stamp")
    /\ Snapshot(k, [skill[k] EXCEPT !.status = "approved", !.hash = job[s].hash],
                origin[k], rebased[k] \/ job[s].hash # skill[k].hash)
    /\ Continue(s, [op |-> "render", skill |-> k, reinstall |-> FALSE])
    /\ UNCHANGED <<claims, dirs>>

RevertRead(s, k) ==
    /\ job[s] = Idle
    /\ Exists(k)
    /\ \E to \in DOMAIN history[k] :
          Continue(s, [op |-> "revert", skill |-> k, version |-> history[k][to],
                       reinstall |-> skill[k].installed])
    /\ UNCHANGED <<claims, tables, dirs>>

\* Mutant of Cleared: a revert trusts the version it restores.
ClearedOnce(body, links) == body # NoBody

\* The restored row clears the same gate, inside the transaction that restores it.
Cleared(body, links) == ~Blocked(body, links)

\* Links are restored by id, to the claims that exist.
RevertWrite(s) ==
    LET k == job[s].skill
        old == job[s].version
        links == old.links \cap Rows
    IN /\ Doing(s, "revert")
       /\ Cleared(old.body, links)
       /\ Snapshot(k, [skill[k] EXCEPT !.status = "approved", !.body = old.body,
                                       !.links = links, !.hash = old.hash],
                   old.from, old.rebased)
       /\ Continue(s, [op |-> "render", skill |-> k, reinstall |-> job[s].reinstall])
       /\ UNCHANGED <<claims, dirs>>

\* Mutant of Renderable: everything that is not archived is projected.
RenderableDrafts(k) == skill[k].status \in {"draft", "approved"}

Renderable(k) == skill[k].status = "approved"

\* render_one re-reads the row, and refuses one that is no longer approved.
RenderOne(s) ==
    LET k == job[s].skill IN
    /\ Doing(s, "render")
    /\ Renderable(k)
    /\ repoDir' = [repoDir EXCEPT ![k] = skill[k].body]
    /\ IF job[s].reinstall THEN Continue(s, [op |-> "reinstall", skill |-> k]) ELSE Done(s)
    /\ UNCHANGED <<claims, tables, globalDir>>

(***************************************************************************)
(* Retiring: archive, and merge into another skill                         *)
(***************************************************************************)
Retirable(k) == Exists(k) /\ ~skill[k].installed

\* `into` is the skill that takes the links over, k itself when k is archived.
RetireRead(s, k, into) ==
    /\ job[s] = Idle
    /\ Retirable(k)
    /\ Exists(into)
    /\ Continue(s, [op |-> "retire", skill |-> k, into |-> into])
    /\ UNCHANGED <<claims, tables, dirs>>

\* The directory goes before the commit.
RetireRemove(s) ==
    /\ Doing(s, "retire")
    /\ repoDir' = [repoDir EXCEPT ![job[s].skill] = NoBody]
    /\ Continue(s, [op |-> "retired", skill |-> job[s].skill, into |-> job[s].into])
    /\ UNCHANGED <<claims, tables, globalDir>>

RetireWrite(s) ==
    LET k == job[s].skill IN
    /\ Doing(s, "retired")
    /\ skill' = [skill EXCEPT ![k].status = "archived",
                              ![job[s].into].links = @ \cup skill[k].links]
    /\ Done(s)
    /\ UNCHANGED <<claims, history, origin, rebased, dirs>>

(***************************************************************************)
(* Projection and installation                                             *)
(***************************************************************************)
RenderRead(s) ==
    /\ job[s] = Idle
    /\ Continue(s, [op |-> "render all", rows |->
                      [k \in {j \in Skills : Renderable(j)} |-> skill[k].body]])
    /\ UNCHANGED <<claims, tables, dirs>>

\* render: every row read is written, every other generated directory removed.
RenderWrite(s) ==
    /\ Doing(s, "render all")
    /\ LET rows == job[s].rows
       IN repoDir' = [k \in Skills |-> IF k \in DOMAIN rows THEN rows[k] ELSE NoBody]
    /\ Done(s)
    /\ UNCHANGED <<claims, tables, globalDir>>

InstallRead(s, k) ==
    /\ job[s] = Idle \/ (Doing(s, "reinstall") /\ job[s].skill = k)
    /\ Renderable(k)
    /\ Continue(s, [op |-> "install", skill |-> k, body |-> skill[k].body])
    /\ UNCHANGED <<claims, tables, dirs>>

\* What is copied is the repository's directory, rendered first only if missing.
InstallCopy(s) ==
    LET k == job[s].skill IN
    /\ Doing(s, "install")
    /\ repoDir' = [repoDir EXCEPT ![k] = IF @ = NoBody THEN job[s].body ELSE @]
    /\ globalDir' = [globalDir EXCEPT ![k] = repoDir'[k]]
    /\ Continue(s, [op |-> "mark", skill |-> k, installed |-> TRUE])
    /\ UNCHANGED <<claims, tables>>

UninstallRemove(s, k) ==
    /\ job[s] = Idle
    /\ Exists(k)
    /\ globalDir' = [globalDir EXCEPT ![k] = NoBody]
    /\ Continue(s, [op |-> "mark", skill |-> k, installed |-> FALSE])
    /\ UNCHANGED <<claims, tables, repoDir>>

\* install and uninstall set the flag after the directory has changed.
Mark(s) ==
    /\ Doing(s, "mark")
    /\ skill' = [skill EXCEPT ![job[s].skill].installed = job[s].installed]
    /\ Done(s)
    /\ UNCHANGED <<claims, history, origin, rebased, dirs>>

\* check, and lint's part of it: the stamp is out of date, or nothing trusted is linked.
Drifted(k) == \/ Basis(skill[k].links) # skill[k].hash
              \/ skill[k].links \cap Promoted = {}

Command(s, k) == \/ New(s, k) \/ SetBodyRead(s, k) \/ Describe(s, k)
                 \/ Attach(s, k) \/ Detach(s, k)
                 \/ ApproveCheck(s, k) \/ RevertRead(s, k)
                 \/ \E into \in Skills : RetireRead(s, k, into)
                 \/ InstallRead(s, k) \/ UninstallRemove(s, k)

Rest(s) == \/ SetBodyWrite(s) \/ ApproveHash(s) \/ ApproveWrite(s) \/ RevertWrite(s) \/ RenderOne(s)
           \/ RetireRemove(s) \/ RetireWrite(s)
           \/ RenderRead(s) \/ RenderWrite(s) \/ InstallCopy(s) \/ Mark(s)
           \/ Stop(s)

Next == \E s \in Sessions : \/ FileClaim(s) \/ ReviewClaim(s) \/ DropClaim(s)
                            \/ \E k \in Skills : Command(s, k)
                            \/ Rest(s)

Spec == Init /\ [][Next]_vars

(***************************************************************************)
(* Properties                                                              *)
(***************************************************************************)
Hashes == SUBSET (Ids \X (1 .. MaxFacts))
SkillRows == [status : {"draft", "approved", "archived"}, body : Bodies \cup {NoBody},
              links : SUBSET Ids, hash : Hashes, installed : BOOLEAN]
Facts == SUBSET (1 .. MaxFacts)
Versions == [body : Bodies, links : SUBSET Ids, hash : Hashes, from : Facts,
             rebased : BOOLEAN]
ClaimRows == [fact : 1 .. MaxFacts, status : {"pending", "promoted", "rejected"}]

\* The tables and the directories keep their shape, and no skill is linked to a
\* claim that is gone.
TypeOK ==
    /\ claim \in [Ids -> ClaimRows \cup {NoRow}]
    /\ filed \in 0 .. MaxFacts
    /\ skill \in [Skills -> SkillRows \cup {NoSkill}]
    /\ \A k \in Skills : Exists(k) => skill[k].links \subseteq Rows
    /\ history \in [Skills -> Seq(Versions)]
    /\ origin \in [Skills -> Facts]
    /\ rebased \in [Skills -> BOOLEAN]
    /\ repoDir \in [Skills -> Bodies \cup {NoBody}]
    /\ globalDir \in [Skills -> Bodies \cup {NoBody}]

\* Authoring is not activating: a skill nobody ever approved is in no directory,
\* whatever sessions interleave and wherever they crash.
DraftsStayOffDisk ==
    \A k \in Skills : history[k] = <<>> => repoDir[k] = NoBody /\ globalDir[k] = NoBody

\* A revert never brings a claim back that was rejected since the version was taken.
RevertsAreTrue ==
    [][\A s \in Sessions :
          Doing(s, "revert") /\ job'[s].op = "render"
              => skill'[job[s].skill].links \subseteq Promoted']_vars

\* check() and lint() report an approved skill as soon as one of the claims its text
\* was written from (at set_body, or in the version a revert brings back) is no
\* longer trusted: deleted claims, ids that another claim has since, links that were
\* changed and commands that interleave included.  Only a text that was approved
\* over another basis than its own is not followed: approve() replaces the stamp.
DriftIsReported ==
    \A k \in Skills :
        skill[k].status = "approved" /\ ~rebased[k] /\ ~(origin[k] \subseteq FactsOf(Promoted))
            => Drifted(k)
=============================================================================
