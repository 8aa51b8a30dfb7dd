-------------------------------- MODULE Pages --------------------------------
(***************************************************************************)
(* The wiki projection: rows of `pages` with their dirty marks, the files  *)
(* that render() makes of them, and the prose the librarian drafts.        *)
(*                                                                         *)
(* render() reads in autocommit until its first write, which takes the     *)
(* write lock to the end; the files it writes on its way belong to no      *)
(* transaction.  Other sessions review, file and render meanwhile, and     *)
(* any of them may end between two steps.  A file is written in one step.  *)
(***************************************************************************)
EXTENDS FiniteSets, Naturals

CONSTANTS Sessions, Claims, Entities, Sources,
          About,      \* claim_entities: [Claims -> SUBSET Entities], {} if from a candidate
          From,       \* claims.source_id: [Claims -> Sources]
          Opposed,    \* the sets of two claims of opposite polarity
          NoSession,
          MaxTurns    \* bound: commands begun

\* A claim is about entities and from a source.
PagesGiven ==
    /\ About \in [Claims -> SUBSET Entities] /\ From \in [Claims -> Sources]
    /\ \A x \in Opposed : x \subseteq Claims
    /\ NoSession \notin Sessions

VARIABLES
    status,     \* claims.status, "none" where there is no row
    open,       \* the open contradictions
    table,      \* pages: which have a row, which are dirty, their prose and its stamp
    files,      \* wiki/*.md
    lock,       \* who holds the write lock between two steps
    job,        \* what each session is doing
    turns,      \* commands begun
    raced       \* history: somebody wrote while another's job was under way, and no
                \* undisturbed render of all pages has ended since

vars == <<status, open, table, files, lock, job, turns, raced>>

Index == <<"index", "wiki">>
LedgerPage == <<"ledger", "wiki">>
Digest == <<"digest", "today">>
Essay == <<"synthesis", "essay">>
EntityPages == {"entity"} \X Entities
SourcePages == {"source"} \X Sources
Pages == EntityPages \cup SourcePages \cup {Index, LedgerPage, Digest, Essay}

\* rows = SELECT * FROM pages ORDER BY kind, path
Rank(p) == CASE p[1] = "digest" -> 1 [] p[1] = "entity" -> 2 [] p[1] = "index" -> 3
             [] p[1] = "ledger" -> 4 [] p[1] = "source" -> 5 [] p[1] = "synthesis" -> 6

NoFile == [there |-> FALSE]
Idle == [at |-> "idle"]

\* prose and stamp hold the claims drafted from and stamped for, or nothing.
NoRows == [have |-> {}, dirty |-> {}, prose |-> [p \in Pages |-> {}],
           stamp |-> [p \in Pages |-> {}]]

Init ==
    /\ status = [c \in Claims |-> "none"] /\ open = {}
    /\ table = NoRows
    /\ files = [p \in Pages |-> NoFile]
    /\ lock = NoSession
    /\ job = [s \in Sessions |-> Idle]
    /\ turns = 0
    /\ raced = FALSE

With(st) == {c \in Claims : status[c] = st}
Trusted == With("promoted")
Of(p) == CASE p[1] = "entity" -> {c \in Claims : p[2] \in About[c]}
           [] p[1] = "source" -> {c \in Claims : From[c] = p[2]}
           [] p[1] \in {"ledger", "digest"} -> Claims
           [] OTHER -> {}
Basis(p) == Trusted \cap Of(p)

\* What the page of a row says.
Saying(shown, flagged, also, prose, links) ==
    [there |-> TRUE, shown |-> shown, flagged |-> flagged, also |-> also, prose |-> prose,
     links |-> links]
EntityView(p, rows) == Saying(Basis(p), Basis(p) \cap UNION open, {}, rows.prose[p], {})
SourceView(p) == Saying(Basis(p), {}, With("pending") \cap Of(p), {}, {})
DigestView == Saying(Trusted, {}, {}, {}, {})
LedgerView == Saying(Trusted, Trusted \cap UNION open, With("superseded"), {}, {})
IndexView(rows) == Saying({}, {}, {}, {}, rows.have)
EssayView(rows) == Saying({}, {}, {}, rows.prose[Essay], {})

\* The prose is that of the row as read for the loop; all else is queried now.
View(p, read, now) == CASE p[1] = "entity" -> EntityView(p, read)
                        [] p[1] = "source" -> SourceView(p)
                        [] p = Digest -> DigestView
                        [] p = LedgerPage -> LedgerView
                        [] p = Index -> IndexView(now)
                        [] p = Essay -> EssayView(read)

\* A session sees its own uncommitted rows.
Rows(s) == IF lock = s THEN job[s].rows ELSE table
Writable(s) == lock \in {s, NoSession}

Read(s, next) == job' = [job EXCEPT ![s] = next] /\ UNCHANGED raced

\* A commit or a file written is noticed by nobody, but makes a race of the jobs under way.
Write(s, next) ==
    /\ job' = [t \in Sessions |-> IF t = s THEN next
                                  ELSE IF job[t] = Idle THEN Idle
                                  ELSE [job[t] EXCEPT !.alone = FALSE]]
    /\ raced' = (raced \/ \E t \in Sessions \ {s} : job[t] # Idle)

(***************************************************************************)
(* Filing and reviewing, one transaction each                              *)
(***************************************************************************)
Commit(s) == job[s] = Idle /\ lock = NoSession /\ Write(s, Idle) /\ UNCHANGED <<files, lock>>

\* mark_dirty_for_claim: only rows that are there.
Mark(rows, some) ==
    [rows EXCEPT !.dirty = @ \cup {p \in rows.have : p[1] \in {"entity", "source"}
                                                       /\ Of(p) \cap some # {}}]

Judge(s, c, st) == Commit(s) /\ status' = [status EXCEPT ![c] = st]

\* file_claims_data marks the source's page when file_source moved the artifact;
\* no entity's page, whatever the new claim contradicts.
FileClaim(s, c) ==
    /\ status[c] = "none" /\ About[c] # {}
    /\ Judge(s, c, "pending")
    /\ open' = open \cup {x \in Opposed : c \in x /\ x \ {c} \subseteq Trusted}
    /\ \E moved \in BOOLEAN :
          table' = IF moved THEN [table EXCEPT !.dirty =
                                  @ \cup (table.have \cap {<<"source", From[c]>>})]
                   ELSE table

Refile(s, c) ==
    /\ status[c] \in {"pending", "rejected"}
    /\ \A d \in Claims : From[d] = From[c] => status[d] \notin {"promoted", "superseded"}
    /\ Judge(s, c, "none")
    /\ open' = {x \in open : c \notin x}
    /\ UNCHANGED table

\* gate and promote
Promote(s, c) ==
    /\ status[c] = "pending"
    /\ Judge(s, c, "promoted")
    /\ table' = Mark(table, {c}) /\ UNCHANGED open

Reject(s, c) ==
    /\ status[c] \in {"pending", "promoted"}
    /\ Judge(s, c, "rejected")
    /\ table' = Mark(table, {c}) /\ UNCHANGED open

\* candidates.promote marks no page.
PromoteCandidate(s, c) ==
    /\ status[c] = "none" /\ About[c] = {}
    /\ Judge(s, c, "promoted")
    /\ UNCHANGED <<open, table>>

\* Mutant of Supersede: only the new claim's pages are marked.
SupersedeMarksNew(s, old, new) ==
    /\ old # new /\ status[old] # "none" /\ status[new] # "none"
    /\ Commit(s)
    /\ status' = [status EXCEPT ![old] = "superseded",
                                ![new] = IF @ = "pending" THEN "promoted" ELSE @]
    /\ table' = Mark(table, {new}) /\ UNCHANGED open

Supersede(s, old, new) ==
    /\ old # new /\ status[old] # "none" /\ status[new] # "none"
    /\ Commit(s)
    /\ status' = [status EXCEPT ![old] = "superseded",
                                ![new] = IF @ = "pending" THEN "promoted" ELSE @]
    /\ table' = Mark(table, {old, new}) /\ UNCHANGED open

Resolve(s, x) ==
    /\ x \in open
    /\ Commit(s)
    /\ open' = open \ {x}
    /\ table' = Mark(table, x) /\ UNCHANGED status

Review(s) ==
    \/ \E c \in Claims : FileClaim(s, c) \/ Refile(s, c) \/ Promote(s, c) \/ Reject(s, c)
                         \/ PromoteCandidate(s, c)
    \/ \E c, d \in Claims : Supersede(s, c, d)
    \/ \E x \in open : Resolve(s, x)

(***************************************************************************)
(* Rows that are not about claims                                          *)
(***************************************************************************)
Dirtied(p) == [table EXCEPT !.have = @ \cup {p}, !.dirty = @ \cup {p}]

EnsureDigest(s) ==
    /\ Commit(s)
    /\ table' = Dirtied(Digest) /\ UNCHANGED <<status, open>>

\* synthesis_set on a page under wiki/syntheses/
SetEssay(s) ==
    /\ Commit(s)
    /\ table' = [Dirtied(Essay) EXCEPT !.prose[Essay] = {Trusted}]
    /\ UNCHANGED <<status, open>>

(***************************************************************************)
(* render                                                                  *)
(***************************************************************************)
Wanted == {p \in EntityPages : Basis(p) # {}}
            \cup {p \in SourcePages : \E c \in Of(p) : status[c] # "none"}

Rendering(op, all) ==
    [at |-> "reconcile", op |-> op, all |-> all, alone |-> TRUE,
     want |-> Wanted, seen |-> table.have]

\* render, render --all, and synthesize, which starts with render --all.
RenderBegin(s) ==
    /\ job[s] = Idle
    /\ \E how \in {<<"render", FALSE>>, <<"render", TRUE>>, <<"synthesize", TRUE>>} :
          Read(s, Rendering(how[1], how[2]))
    /\ UNCHANGED <<status, open, table, files, lock>>

New(k) == k.want \ k.seen
Gone(k) == (k.seen \cap (EntityPages \cup SourcePages)) \ k.want
Reconciled(k) ==
    LET have == (table.have \cup New(k) \cup {Index, LedgerPage}) \ Gone(k)
        kept == [p \in Pages |-> p \in have]
    IN [have  |-> have,
        dirty |-> (table.dirty \cup (have \ table.have)) \cap have,
        prose |-> [p \in Pages |-> IF kept[p] THEN table.prose[p] ELSE {}],
        stamp |-> [p \in Pages |-> IF kept[p] THEN table.stamp[p] ELSE {}]]

\* The work set, as the rows were read.
Todo(k, rows) == {p \in rows.have : k.all \/ p \in rows.dirty \/ p \in {Index, LedgerPage}}
Working(k, rows, changed) ==
    [at |-> "page", op |-> k.op, all |-> k.all, alone |-> k.alone, changed |-> changed,
     todo |-> Todo(k, rows), read |-> rows, rows |-> rows, review |-> {},
     page |-> Index, view |-> NoFile]

\* _reconcile.  Its first INSERT or DELETE takes the lock; it may end with files
\* deleted and no row.
ReconcilePages(s) ==
    /\ job[s].at = "reconcile"
    /\ UNCHANGED <<status, open, table>>
    /\ LET k == job[s] rows == Reconciled(job[s]) IN
       \/ /\ rows = table
          /\ Read(s, Working(k, table, FALSE)) /\ UNCHANGED <<files, lock>>
       \/ /\ rows # table /\ lock = NoSession
          /\ New(k) \cap table.have = {}                  \* else UNIQUE(path) raises
          /\ lock' = s /\ Write(s, Working(k, rows, TRUE))
          /\ files' = [p \in Pages |-> IF p \in Gone(k) THEN NoFile ELSE files[p]]
       \/ \E lost \in SUBSET Gone(k) :
             /\ files' = [p \in Pages |-> IF p \in lost THEN NoFile ELSE files[p]]
             /\ Write(s, Idle) /\ UNCHANGED lock

Next1(k) == {p \in k.todo : \A q \in k.todo : Rank(p) <= Rank(q)}

\* _render_entity and its siblings: what the page will say.
ComputePage(s) ==
    /\ job[s].at = "page"
    /\ \E p \in Next1(job[s]) :
          Read(s, [job[s] EXCEPT !.at = "write", !.page = p, !.view = View(p, job[s].read, Rows(s)),
                                 !.todo = @ \ {p},
                                 !.review = IF p \in EntityPages
                                               /\ job[s].read.stamp[p] # {Basis(p)}
                                            THEN @ \cup {p} ELSE @])
    /\ UNCHANGED <<status, open, table, files, lock>>

WriteFile(s) ==
    /\ job[s].at = "write"
    /\ LET k == job[s] IN
       /\ files' = [files EXCEPT ![k.page] = k.view]
       /\ Write(s, [k EXCEPT !.at = IF k.page \in k.read.dirty THEN "clear" ELSE "page",
                             !.changed = @ \/ files[k.page] # k.view])
    /\ UNCHANGED <<status, open, table, lock>>

\* UPDATE pages SET dirty = 0: takes the lock if it is the first write.
ClearMark(s) ==
    /\ job[s].at = "clear" /\ Writable(s)
    /\ lock' = s
    /\ Read(s, [job[s] EXCEPT !.at = "page", !.changed = TRUE,
                              !.rows = [Rows(s) EXCEPT !.dirty = @ \ {job[s].page}]])
    /\ UNCHANGED <<status, open, table, files>>

\* The index once more if anything changed, then the commit; synthesize goes on with
\* the pages whose inputs are not those of their stamp.
RenderEnd(s) ==
    /\ job[s].at = "page" /\ job[s].todo = {}
    /\ LET k == job[s]
           mine == Rows(s)
           after == IF k.op = "synthesize"
                    THEN [at |-> "review", op |-> k.op, alone |-> k.alone, review |-> k.review]
                    ELSE Idle
       IN /\ lock' = IF lock = s THEN NoSession ELSE lock
          /\ table' = mine
          /\ files' = IF (k.changed \/ k.all) /\ Index \in mine.have
                      THEN [files EXCEPT ![Index] = IndexView(mine)] ELSE files
          /\ IF k.all /\ k.alone /\ \A t \in Sessions \ {s} : job[t] = Idle
             THEN job' = [job EXCEPT ![s] = after] /\ raced' = FALSE
             ELSE Write(s, after)
    /\ UNCHANGED <<status, open>>

(***************************************************************************)
(* synthesize: read, a model call, write                                   *)
(***************************************************************************)
DraftRead(s) ==
    /\ job[s].at = "review" /\ job[s].review # {}
    /\ \E p \in job[s].review :
          \/ /\ p \in table.have
             /\ Read(s, [at |-> "drafted", op |-> job[s].op, alone |-> job[s].alone,
                         review |-> job[s].review \ {p}, page |-> p, basis |-> Basis(p)])
          \/ Read(s, [job[s] EXCEPT !.review = @ \ {p}])    \* no page, or no answer
    /\ UNCHANGED <<status, open, table, files, lock>>

\* synthesis_set stamps the prose with the inputs as they are now.
DraftWrite(s) ==
    /\ job[s].at = "drafted" /\ lock = NoSession
    /\ job[s].page \in table.have
    /\ LET k == job[s] IN
       /\ table' = [Dirtied(k.page) EXCEPT !.prose[k.page] = {k.basis},
                                           !.stamp[k.page] = {Basis(k.page)}]
       /\ Write(s, [at |-> "review", op |-> k.op, alone |-> k.alone, review |-> k.review])
    /\ UNCHANGED <<status, open, files, lock>>

\* The pages reflect the new prose: a last render.
DraftEnd(s) ==
    /\ job[s].at = "review" /\ job[s].review = {}
    /\ Read(s, Rendering("render", FALSE))
    /\ UNCHANGED <<status, open, table, files, lock>>

\* The end of a process, a lock timeout, synthesis_set without a page: a rollback.
Abort(s) ==
    /\ job[s] # Idle
    /\ lock' = IF lock = s THEN NoSession ELSE lock
    /\ Read(s, Idle)
    /\ UNCHANGED <<status, open, table, files>>

Begin(s) ==
    /\ turns < MaxTurns /\ turns' = turns + 1
    /\ Review(s) \/ EnsureDigest(s) \/ SetEssay(s) \/ RenderBegin(s)

Step(s) ==
    /\ UNCHANGED turns
    /\ \/ ReconcilePages(s) \/ ComputePage(s) \/ WriteFile(s) \/ ClearMark(s) \/ RenderEnd(s)
       \/ DraftRead(s) \/ DraftWrite(s) \/ DraftEnd(s)
       \/ Abort(s)

\* The bound is reached.
Rest == turns = MaxTurns /\ job = [s \in Sessions |-> Idle] /\ UNCHANGED vars

Next == \/ \E s \in Sessions : Begin(s) \/ Step(s)
        \/ Rest

Spec == Init /\ [][Next]_vars

-----------------------------------------------------------------------------
(***************************************************************************)
(* Properties                                                              *)
(***************************************************************************)
\* An entity's page that is not dirty shows exactly the promoted claims about it, and
\* the prose of its row; nobody has to look at the database.  A job that ends
\* half-way, at any step, keeps that; a write beside another's job can break it, and
\* one undisturbed render --all brings it back.
CleanPagesShowTheTruth ==
    ~raced => \A p \in EntityPages :
        (p \in table.have \ table.dirty) =>
            files[p].there /\ files[p].shown = Basis(p) /\ files[p].prose = table.prose[p]

=============================================================================
