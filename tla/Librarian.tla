----------------------------- MODULE Librarian ------------------------------
(***************************************************************************)
(* The librarian (librarian/extract.py, triage.py, adjudicate.py,          *)
(* maintain.py, watch.py, client.py): a model between the inbox and the    *)
(* human gate, on a database people work with at the same time.            *)
(*                                                                         *)
(* A session runs one command: maintain chains catch_up, triage,           *)
(* adjudicate and the housekeeping on one connection; watch runs catch_up  *)
(* over what it has ingested; triage and adjudicate are commands too.      *)
(* What a session has written and not committed is in `open` and `torn`;   *)
(* while there is any it holds the write lock, through its calls of the    *)
(* model.  (synthesize, the fourth stage, is in module Pages.)             *)
(***************************************************************************)
EXTENDS Naturals, FiniteSets, Sequences, TLC

CONSTANTS
    Sources,          \* ids, 1..n
    Poison,           \* sources no model can be relied on to extract, whose calls may fail for ever
    Grade,            \* [Sources -> what the rules see in a claim of the source]
    Cases, Kind, Of,  \* contradictions and escalations, [Cases -> kind], [Cases -> source]
    Sessions, Runs,   \* [Sessions -> the commands run in it]
    Retries,          \* [librarian] retries
    Accepts,          \* the response formats the model's server takes
    NoSession,
    MaxRows, MaxTexts, MaxCrashes     \* bounds

ASSUME LibrarianAssumption ==
    /\ Sources = 1..Cardinality(Sources) /\ Poison \subseteq Sources
    /\ Grade \in [Sources -> {"degenerate", "duplicate", "clean", "near", "doubtful"}]
    /\ Retries \in Nat /\ NoSession \notin Sessions

VARIABLES
    dropped,   \* what lies in the drop folder or is newly bookmarked
    source,    \* sources.status, "absent" where there is no row
    astray,    \* sources whose artifact is not where their row says
    rows,      \* claims: a function from their ids
    texts,     \* how many claims were ever filed: names their texts
    advice,    \* claim_triage, committed: the claims with a recommendation
    case,      \* contradictions and escalations: their status, whether one is proposed
    lock,      \* the session with an open transaction
    open,      \* the claims with a recommendation written in it
    torn,      \* the database as it sees it after a filing that failed, or Whole
    job,       \* what each session is doing
    reports,   \* history: the claims triage has reported as triaged
    crashes

inputs == <<dropped, source, astray>>
ledger == <<rows, texts, case>>
txn == <<lock, open, torn, advice>>
vars == <<inputs, ledger, txn, job, reports, crashes>>

Idle == [at |-> "idle"]
Absent == [status |-> "absent", proposed |-> FALSE]
Whole == [nothing |-> "torn"]

Init ==
    /\ dropped = {} /\ source = [s \in Sources |-> "absent"] /\ astray = {}
    /\ rows = [id \in {} |-> 0] /\ texts = 0
    /\ case = [k \in Cases |-> Absent]
    /\ lock = NoSession /\ open = {} /\ torn = Whole /\ advice = {}
    /\ job = [l \in Sessions |-> Idle]
    /\ reports = {} /\ crashes = 0

At(l, steps) == job[l].at \in steps
Goto(l, j) == job' = [job EXCEPT ![l] = j]
MayWrite(l) == lock \in {NoSession, l}
Least(S) == CHOOSE x \in S : \A y \in S : x <= y
Only(f, S) == [x \in DOMAIN f \cap S |-> f[x]]

\* The tables as a session reads them: its own writes with what is committed.
Committed == [source |-> source, rows |-> rows, texts |-> texts, case |-> case]
View(l) == IF lock = l /\ torn # Whole THEN torn ELSE Committed

Released(l) ==
    /\ lock' = IF lock = l THEN NoSession ELSE lock
    /\ open' = IF lock = l THEN {} ELSE open
    /\ torn' = IF lock = l THEN Whole ELSE torn

\* finalize, or any commit on the session's connection, which leaves the tables as in v.
Commit(l, v) ==
    /\ Released(l)
    /\ advice' = IF lock = l THEN open \cup advice ELSE advice
    /\ source' = v.source /\ rows' = v.rows /\ texts' = v.texts /\ case' = v.case

\* The connection is closed without a commit.
Rollback(l) == Released(l) /\ UNCHANGED advice

(***************************************************************************)
(* Filing an extraction (file_claims_data)                                 *)
(***************************************************************************)
Pending(v) == {id \in DOMAIN v.rows : v.rows[id].status = "pending"}
OfSource(s) == {id \in DOMAIN rows : rows[id].source = s}

\* The prior claims go, with their contradictions; freed ids are given out again.
Kept(s) == Only(rows, DOMAIN rows \ OfSource(s))
Cleared(s) == [k \in Cases |-> IF Kind[k] = "contradiction" /\ Of[k] = s THEN Absent ELSE case[k]]
Free(s) == {id \in 1..MaxRows : /\ \A n \in DOMAIN Kept(s) : n < id
                                /\ id = 1 \/ id - 1 \in DOMAIN Kept(s)}

\* Of these the new claim may open some.
Openable(s, kinds) == {k \in Cases : Of[k] = s /\ Kind[k] \in kinds /\ Cleared(s)[k] = Absent}

\* What a transaction sees that has filed it.
Filing(s, id, opened) ==
    [source |-> [source EXCEPT ![s] = "extracted"], texts |-> texts + 1,
     rows |-> [n \in DOMAIN Kept(s) \cup {id} |->
                 IF n = id THEN [source |-> s, text |-> texts + 1, status |-> "pending"]
                 ELSE Kept(s)[n]],
     case |-> [k \in Cases |->
                 IF k \in opened THEN [Absent EXCEPT !.status = "open"] ELSE Cleared(s)[k]]]

\* All of it, committed; recommendations go with their claims (ON DELETE CASCADE).
Filed(s) ==
    /\ \E id \in Free(s), opened \in SUBSET Openable(s, {"contradiction", "escalation"}) :
          LET v == Filing(s, id, opened)
          IN  source' = v.source /\ rows' = v.rows /\ texts' = v.texts /\ case' = v.case
    /\ lock' = NoSession /\ open' = {} /\ torn' = Whole
    /\ advice' = (open \cup advice) \cap DOMAIN Kept(s)

(***************************************************************************)
(* People                                                                  *)
(***************************************************************************)
Drop(s) ==
    /\ source[s] = "absent" /\ dropped' = dropped \cup {s}
    /\ UNCHANGED <<source, astray, ledger, txn, job, reports, crashes>>

AddSource(s) ==
    /\ lock = NoSession /\ source[s] = "absent" /\ s \notin dropped
    /\ source' = [source EXCEPT ![s] = "new"]
    /\ UNCHANGED <<dropped, astray, ledger, txn, job, reports, crashes>>

Judge(id) ==
    /\ lock = NoSession /\ id \in Pending(Committed)
    /\ \E verdict \in {"promoted", "rejected"} : rows' = [rows EXCEPT ![id].status = verdict]
    /\ UNCHANGED <<inputs, texts, case, txn, job, reports, crashes>>

\* file-claims --refile; the bound leaves each source its own extraction.
Refile(s) ==
    /\ lock = NoSession /\ source[s] = "extracted" /\ s \notin astray
    /\ \A id \in OfSource(s) : rows[id].status # "promoted"
    /\ texts + Cardinality({t \in Sources : source[t] # "extracted"}) < MaxTexts
    /\ Filed(s)
    /\ UNCHANGED <<dropped, astray, job, reports, crashes>>

HumanCase(k) ==
    /\ lock = NoSession /\ case[k].status = "open"
    /\ \/ case' = [case EXCEPT ![k].proposed = TRUE]
       \/ case' = [case EXCEPT ![k].status = "closed"]
    /\ UNCHANGED <<inputs, rows, texts, txn, job, reports, crashes>>

(***************************************************************************)
(* Commands and their stages                                               *)
(***************************************************************************)
\* maintain records a stage that raised and goes on; any other command ends.
StageAfter == "catch_up" :> "triage" @@ "triage" :> "adjudicate" @@ "adjudicate" :> "housekeeping"
Last(j) == j.run # "maintain" \/ j.stage = "housekeeping"
Enter(run, stage) ==
    [at |-> "begin", run |-> run, stage |-> stage, todo |-> {}, item |-> 0, tries |-> 0, done |-> {}]
NextJob(j) == IF Last(j) THEN Idle ELSE Enter(j.run, StageAfter[j.stage])

\* The stage raised: what it has written stays in the open transaction.
StageError(l) ==
    /\ Goto(l, NextJob(job[l]))
    /\ IF Last(job[l]) THEN Rollback(l) ELSE UNCHANGED txn
    /\ UNCHANGED <<inputs, ledger, reports, crashes>>

\* The preflight has found a model configured and answering, or nothing begins.
FirstStage == "maintain" :> "catch_up" @@ "watch" :> "catch_up" @@
              "triage" :> "triage" @@ "adjudicate" :> "adjudicate"

\* A tick of watch ingests what has landed, and goes on only if something has.
Begin(l, run) ==
    /\ job[l] = Idle /\ run \in Runs[l]
    /\ IF run = "watch"
       THEN /\ dropped # {} /\ lock = NoSession
            /\ source' = [s \in Sources |-> IF s \in dropped THEN "new" ELSE source[s]]
            /\ dropped' = {} /\ UNCHANGED astray
       ELSE UNCHANGED inputs
    /\ Goto(l, Enter(run, FirstStage[run]))
    /\ UNCHANGED <<ledger, txn, reports, crashes>>

\* The work list of a stage is read once.
New == {s \in Sources : source[s] = "new"}
Untriaged(v) == Pending(v) \ advice
Unproposed(v) == {k \in Cases : v.case[k] = [Absent EXCEPT !.status = "open"]}

ReadWork(l) ==
    /\ At(l, {"begin"}) /\ job[l].stage # "housekeeping"
    /\ Goto(l, [job[l] EXCEPT !.at = "work",
                 !.todo = CASE job[l].stage = "catch_up" -> New
                            [] job[l].stage = "triage" -> Untriaged(View(l))
                            [] job[l].stage = "adjudicate" -> Unproposed(View(l))])
    /\ UNCHANGED <<inputs, ledger, txn, reports, crashes>>

Working(l, stage) == At(l, {"work"}) /\ job[l].stage = stage /\ job[l].todo # {}
Took(j, x) == [j EXCEPT !.todo = j.todo \ {x}]
Asking(j, x) == [Took(j, x) EXCEPT !.at = "ask", !.item = x, !.tries = Retries + 1]

(***************************************************************************)
(* The model                                                               *)
(***************************************************************************)
\* chat: the most constrained format first, a looser one where it is refused.
Formats == {"json_schema", "json_object", "plain"}
Served == Formats \cap Accepts # {}

\* Mutant of Failed: the batch ends with the first item that fails.
FailedAborts(j) == [j EXCEPT !.at = "work", !.item = 0, !.todo = {}]

\* No answer, or the last one that breaks the contract: the item has failed.
Failed(j) == [j EXCEPT !.at = "work", !.item = 0]

AskFails(l) ==
    /\ At(l, {"ask"})
    /\ Goto(l, Failed(job[l]))
    /\ UNCHANGED <<inputs, ledger, txn, reports, crashes>>

AskInvalid(l) ==
    /\ At(l, {"ask"}) /\ Served
    /\ Goto(l, IF job[l].tries > 1 THEN [job[l] EXCEPT !.tries = job[l].tries - 1]
               ELSE Failed(job[l]))
    /\ UNCHANGED <<inputs, ledger, txn, reports, crashes>>

AskValid(l, x) ==
    /\ At(l, {"ask"}) /\ Served /\ job[l].item = x
    /\ Goto(l, [job[l] EXCEPT !.at = "write"])
    /\ UNCHANGED <<inputs, ledger, txn, reports, crashes>>

\* The answer meets the contract, for a source.
Extracted(l, s) == At(l, {"ask"}) /\ job[l].stage = "catch_up" /\ AskValid(l, s)

(***************************************************************************)
(* catch_up                                                                *)
(***************************************************************************)
\* extract_source: refused if it is extracted by now, or if its artifact is not there.
Extract(l) ==
    /\ Working(l, "catch_up")
    /\ LET s == Least(job[l].todo)
       IN  Goto(l, IF source[s] = "new" /\ s \notin astray THEN Asking(job[l], s)
                   ELSE Took(job[l], s))
    /\ UNCHANGED <<inputs, ledger, txn, reports, crashes>>

MayFile(l, step) == At(l, {step}) /\ job[l].stage = "catch_up"

\* Extracted by another session since: refused, and asked again in vain.
FileRefused(l) ==
    /\ MayFile(l, "write") /\ source[job[l].item] # "new"
    /\ Goto(l, Failed(job[l]))
    /\ UNCHANGED <<inputs, ledger, txn, reports, crashes>>

\* evidence.file_source, with the claims written before it: the artifact is moved, unless it
\* lies where it belongs.  Its row follows with the commit.
FileMove(l) ==
    LET s == job[l].item
    IN  /\ MayFile(l, "write") /\ source[s] = "new" /\ s \notin astray
        /\ MayWrite(l) /\ lock' = l
        /\ \E moved \in SUBSET {s} : astray' = astray \cup moved
        /\ Goto(l, [job[l] EXCEPT !.at = "filed"])
        /\ UNCHANGED <<dropped, source, ledger, open, torn, advice, reports, crashes>>

FileCommit(l) ==
    LET s == job[l].item
    IN  /\ MayFile(l, "filed") /\ MayWrite(l)
        /\ Filed(s) /\ astray' = astray \ {s}
        /\ Goto(l, [job[l] EXCEPT !.at = "work", !.done = job[l].done \cup {s}])
        /\ UNCHANGED <<dropped, reports, crashes>>

\* The artifact is gone, altered, or cannot be moved: an EvidenceError or OSError, which no
\* loop catches.  The stage has raised, with the claims written and not committed.
Misfiled(l) ==
    LET s == job[l].item
    IN  /\ MayFile(l, "write") /\ source[s] = "new" /\ MayWrite(l)
        /\ \/ Last(job[l]) /\ StageError(l)
           \/ /\ ~ Last(job[l])
              /\ \E id \in Free(s), opened \in SUBSET Openable(s, {"contradiction"}) :
                    torn' = Filing(s, id, opened)
              /\ lock' = l /\ Goto(l, NextJob(job[l]))
              /\ UNCHANGED <<inputs, ledger, open, advice, reports, crashes>>

\* _finish: gate and render, if anything was extracted.
Disputed(v, id) ==
    \E k \in Cases : Kind[k] = "contradiction" /\ Of[k] = v.rows[id].source /\ v.case[k].status = "open"
Promotable(id) == Grade[rows[id].source] \in {"clean", "duplicate"} /\ ~ Disputed(Committed, id)
Gated == [id \in DOMAIN rows |->
            IF id \in Pending(Committed) /\ Promotable(id)
            THEN [rows[id] EXCEPT !.status = "promoted"] ELSE rows[id]]

Finish(l) ==
    /\ At(l, {"work"}) /\ job[l].stage = "catch_up" /\ job[l].todo = {}
    /\ IF job[l].done = {} THEN UNCHANGED <<source, ledger, txn>>
       ELSE MayWrite(l) /\ Commit(l, [Committed EXCEPT !.rows = Gated])
    /\ Goto(l, NextJob(job[l]))
    /\ UNCHANGED <<dropped, astray, reports, crashes>>

(***************************************************************************)
(* triage                                                                  *)
(***************************************************************************)
\* pretriage: what the rules recommend, or "ask".
Rule(v, id) ==
    LET grade == Grade[v.rows[id].source]
    IN  IF grade \in {"degenerate", "duplicate"} THEN "reject"
        ELSE IF ~ Disputed(v, id) /\ grade \in {"clean", "near"} THEN "promote" ELSE "ask"

\* INSERT ... ON CONFLICT DO UPDATE: takes the lock and keeps it.
Record(l, id) ==
    /\ MayWrite(l)
    /\ lock' = l /\ open' = open \cup {id}
    /\ Goto(l, [job[l] EXCEPT !.at = "work", !.todo = job[l].todo \ {id},
                              !.done = job[l].done \cup {<<id, View(l).rows[id].text>>}])
    /\ UNCHANGED <<inputs, ledger, torn, advice, reports, crashes>>

\* A row that is gone is a TypeError; one that was judged is no failure of the run.
Triage(l) ==
    /\ Working(l, "triage")
    /\ LET id == Least(job[l].todo)
           v == View(l)
       IN  \/ id \notin DOMAIN v.rows /\ StageError(l)
           \/ id \in DOMAIN v.rows /\ Rule(v, id) # "ask" /\ Record(l, id)
           \/ /\ id \in DOMAIN v.rows /\ Rule(v, id) = "ask"
              /\ Goto(l, IF id \in Pending(v) THEN Asking(job[l], id) ELSE Took(job[l], id))
              /\ UNCHANGED <<inputs, ledger, txn, reports, crashes>>

\* The foreign key refuses a recommendation for a row that is gone.
Recommend(l) ==
    /\ At(l, {"write"}) /\ job[l].stage = "triage"
    /\ LET id == job[l].item
       IN  IF id \in DOMAIN View(l).rows
           THEN Record(l, id)
           ELSE MayWrite(l) /\ StageError(l)

\* Mutant of TriageCommit: the commit only when the model was asked.
TriageCommitAsked(l) == IF job[l].item # 0 THEN Commit(l, View(l))
                        ELSE /\ IF Last(job[l]) THEN Rollback(l) ELSE UNCHANGED txn
                             /\ UNCHANGED <<source, ledger>>

TriageCommit(l) == IF job[l].done # {} THEN Commit(l, View(l))
                   ELSE /\ IF Last(job[l]) THEN Rollback(l) ELSE UNCHANGED txn
                        /\ UNCHANGED <<source, ledger>>

TriageEnd(l) ==
    /\ At(l, {"work"}) /\ job[l].stage = "triage" /\ job[l].todo = {}
    /\ TriageCommit(l)
    /\ reports' = reports \cup job[l].done
    /\ Goto(l, NextJob(job[l]))
    /\ UNCHANGED <<dropped, astray, crashes>>

(***************************************************************************)
(* adjudicate and the housekeeping                                         *)
(***************************************************************************)
\* contradiction_propose and escalation_propose: whatever is there is overwritten.
Proposed(l, k) ==
    /\ MayWrite(l)
    /\ Commit(l, [View(l) EXCEPT !.case[k].proposed = TRUE])
    /\ Goto(l, [Took(job[l], k) EXCEPT !.at = "work"])
    /\ UNCHANGED <<dropped, astray, reports, crashes>>

\* Contradictions come first; the rules may decide one (preadjudicate_contradiction).
Adjudicate(l) ==
    /\ Working(l, "adjudicate")
    /\ LET pairs == {k \in job[l].todo : Kind[k] = "contradiction"}
           now == View(l).case
       IN  \E k \in IF pairs # {} THEN pairs ELSE job[l].todo :
            \/ k \in pairs /\ now[k].status = "absent" /\ StageError(l)
            \/ k \in pairs /\ now[k].status # "absent" /\ Proposed(l, k)
            \/ /\ now[k].status # "absent"
               /\ Goto(l, IF now[k].status = "open" THEN Asking(job[l], k) ELSE Took(job[l], k))
               /\ UNCHANGED <<inputs, ledger, txn, reports, crashes>>

\* A row that is gone raises SystemExit, which no stage catches: the command ends.
Propose(l) ==
    /\ At(l, {"write"}) /\ job[l].stage = "adjudicate"
    /\ IF View(l).case[job[l].item].status # "absent" THEN Proposed(l, job[l].item)
       ELSE Goto(l, Idle) /\ Rollback(l) /\ UNCHANGED <<inputs, ledger, reports, crashes>>

AdjudicateEnd(l) ==
    /\ At(l, {"work"}) /\ job[l].stage = "adjudicate" /\ job[l].todo = {}
    /\ StageError(l)

\* digest, render and lint commit, and so does what an earlier stage left open.
Housekeep(l) ==
    /\ At(l, {"begin"}) /\ job[l].stage = "housekeeping"
    /\ MayWrite(l) /\ Commit(l, View(l))
    /\ Goto(l, Idle)
    /\ UNCHANGED <<dropped, astray, reports, crashes>>

\* A write that waits longer than busy_timeout for a session that asks its model.
Locked(l) ==
    /\ At(l, {"write", "work", "begin"}) /\ ~ MayWrite(l) /\ At(lock, {"ask"})
    /\ StageError(l)

Crash(l) ==
    /\ crashes < MaxCrashes /\ job[l] # Idle
    /\ crashes' = crashes + 1
    /\ Goto(l, Idle) /\ Rollback(l)
    /\ UNCHANGED <<inputs, ledger, reports>>

Step(l) ==
    \/ ReadWork(l) \/ AskFails(l) \/ AskInvalid(l) \/ Extract(l)
    \/ FileRefused(l) \/ FileMove(l) \/ FileCommit(l) \/ Misfiled(l) \/ Finish(l)
    \/ Triage(l) \/ Recommend(l) \/ TriageEnd(l) \/ Adjudicate(l) \/ Propose(l)
    \/ AdjudicateEnd(l) \/ Housekeep(l) \/ Locked(l)
    \/ \E x \in Sources \cup DOMAIN rows \cup Cases : AskValid(l, x)

People ==
    \/ \E s \in Sources : Drop(s) \/ AddSource(s) \/ Refile(s)
    \/ \E id \in DOMAIN rows : Judge(id)
    \/ \E k \in Cases : HumanCase(k)

Next ==
    \/ People
    \/ \E l \in Sessions : (\E run \in Runs[l] : Begin(l, run)) \/ Step(l) \/ Crash(l)

\* Commands run to their end, maintain is run again and again (by its user or a timer,
\* README.md:553-555), and a source that is not poison is answered for in the end.
Fairness ==
    \A l \in Sessions :
        /\ WF_vars(Step(l))
        /\ WF_vars("maintain" \in Runs[l] /\ Begin(l, "maintain"))
        /\ \A s \in Sources \ Poison : SF_vars(Extracted(l, s))

Spec == Init /\ [][Next]_vars /\ Fairness
-----------------------------------------------------------------------------
\* What triage has reported as triaged is on record when the command has ended or
\* goes on, unless the claim is gone: no early end loses it (triage.py:190-194).
ReportedIsStored ==
    \A r \in reports :
        r[1] \in DOMAIN rows /\ rows[r[1]].text = r[2] => r[1] \in advice

\* Its artifact was moved, and whoever moved it has not come to the commit.
Stranded(s) == s \in astray /\ \A l \in Sessions : At(l, {"filed"}) => job[l].item # s

\* A source that is waiting is extracted in the end, whatever becomes of the others: one that
\* is never answered for, or cannot be filed, holds up nothing for good, and a crash strands
\* at most the one source it was filing (extract.py:204-220, evidence.py:123-125).
NoSourceStarves ==
    /\ [](Cardinality({s \in Sources : Stranded(s)}) <= crashes)
    /\ \A s \in Sources \ Poison : source[s] = "new" ~> source[s] = "extracted" \/ Stranded(s)

\* maintain ends with its housekeeping, however its stages end: "the run never aborts
\* on a single stage" (maintain.py:115-122).
RunNeverAborts ==
    [][\A l \in Sessions :
        job[l] # Idle /\ job[l].run = "maintain" /\ job[l].stage # "housekeeping"
          => job'[l] # Idle \/ crashes' # crashes]_vars
=============================================================================
