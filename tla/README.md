# BrainConnect in TLA+

BrainConnect is a trusted-memory ledger: agents may *propose* memories, and only a
human or a librarian may turn a proposal into a claim that recall hands out as true.
This directory holds TLA+ models of that ledger, the TLC runs that check them on
small instances, and TLAPS proofs of what matters most for every instance. Paths are
relative to the repository; files without a directory are in `cli/brainconnect/`.

## 1. The system

One SQLite database in WAL mode is the whole truth. Its users are processes and
threads that share nothing else: a human at the CLI, the librarian process
(`cli/librarian/`), an MCP server and a threading HTTP server that open a fresh
connection per request. Every interaction between components is therefore a row that
one connection wrote and another read, and the hard behaviour is in what happens
between a read and the write that depends on it.

How transactions work here decides almost everything (`db.py`):

- A `SELECT` outside a transaction is a snapshot of its own. Python's `sqlite3` opens
  a transaction at the first `INSERT`/`UPDATE`/`DELETE`, and that statement takes the
  one write lock, waiting at most `busy_timeout` = 10 s (`db.py:102`).
- `Repo.finalize` (`db.py:156-166`) commits. `Repo.__exit__` (121-134) closes without
  committing, so whatever was not finalized is rolled back.
- Only `candidates.promote` and `migrate` take the lock *before* their first read
  (`BEGIN IMMEDIATE`).
### Components

| Component | State | Operations | What is hard | What makes it correct | Modules |
|---|---|---|---|---|---|
| Candidates (`candidates.py`) | `memory_candidates`, link to `claims` | create, promote, reject, archive | concurrent review, quarantine carried to promotion, lock on error paths | one claim per candidate; a turned-down candidate stays down; risk only with an override on record | `CandidateReview`, `CandidateGate`, `Orchestration` |
| Claims (`ingest.py`, `gate.py`, `review.py`) | `claims`, `contradictions`, `supersessions`, `sources.status` | file/refile an extraction, auto-gate, promote, reject, supersede, resolve | reads before the transaction, ids deleted and reused, a gate pass that sees its own writes | no dangling reference, trusted rows never dropped, extracted once | `ClaimLedger` |
| Pages (`render.py`, `pages.py`, `librarian/synthesize.py`) | `pages`, `wiki/*.md` | render, draft | files written inside a transaction that may be rolled back, a mark cleared after a late read | a page that is not dirty shows what is promoted | `Pages` |
| Skills (`skills.py`) | `skills`, revisions, files | propose, approve, set_body, attach, revert, merge, install | the approved body hash versus later edits | what is installed is what was approved | `Skills` |
| Capture, evidence, drop folder (`ingest.py`, `evidence.py`, `drop.py`) | files in the inbox and under `raw/`, `sources` | capture, add, transcribe, file_source, scan | file system and database commit apart; same-second names | a path points at the bytes that hash to the row | `Evidence` |
| Safety (`safety/`) | none | scan, decide, redact | an engine that fails or is absent; overlapping spans | a scan that could not look is never clean; the mask is exact | `Safety`, `Rulesets`, `SafetyScan` |
| Recall (`recall.py`, `profiles.py`, `scopes.py`, `trust.py`, `federation.py`) | a memo of the federated source | recall | several snapshots; safety on the way out; foreign items | nothing the caller may not have; omissions announced | `Recall`, `Profiles` |
| OKF (`okf/`) | bundle directories, candidates | export, validate, import, round trip | the swap of a directory, repeated and half-done imports, what a format loses | a bundle survives; proposed once; the report is honest | `Okf`, `Bundles`, `Yaml`, `Formats` |
| Research queue, gathering (`queue.py`, `gather.py`, `fetch.py`, `lint.py`) | `research_queue`, `gather_events`, `sources` | add, attempt, done, lint, search, fetch, sync | check-then-record budgets with a network call in between | budgets hold, charges match pages | `Gathering` |
| Librarian (`cli/librarian/`) | recommendations, proposals | maintain, watch, triage, adjudicate | a model that fails, a lock held across its calls, people at work beside it | no source starves, no run aborts, what is reported is stored | `Librarian` |
| Registry, performance capture, delegation (`registry.py`, `perfcapture.py`, `delegate.py`) | candidates with a reserved marker | seed, capture, delegate | check-then-insert in two processes; squatted tags; external engines | one row per fact; nothing is widened, nothing is pinned but by the role's own promoted row | `Orchestration` |
| Database, migrations, backup (`db.py`, `migrate.py`, `backup.py`) | the database file, its WAL, copies of it | init, open, migrate, backup, restore | two first opens, a crash at any step, a copy in use | nobody sees half a migration; a backup is one committed state | `Storage` |
| Server, MCP, API, CLI (`server.py`, `mcp_server.py`, `api.py`, `cli.py`) | none | routing | one connection per request | agents reach no review operation | the sessions of all modules |
| Roles, feedback, search, embeddings, health, configuration | side tables, derived data | | | | section 6 |

Components meet in the database only, so each module that models readers of a table has
the writers of that table as actions too: `Pages` and `Recall` contain the commits of
`ClaimLedger` and `CandidateReview` as single steps, `Skills` the review of claims,
`Okf` and `Orchestration` the review of candidates, `Librarian` and `Gathering` the
people who work beside them. `Safety` is what `Recall` and `SafetyScan` share.

## 2. Modules

| Module | Role |
|---|---|
| `CandidateGate` | abstract: what the ledger promises about a candidate, one step per decision |
| `CandidateReview` | the review of candidates by concurrent sessions |
| `CandidateRefinement` | the mapping under which `CandidateReview` implements `CandidateGate` |
| `ClaimLedger` | extraction, auto-gate and review over the claim tables |
| `Pages` | the wiki projection of the claims, and the prose drafted for it |
| `ClaimsAndPages` | `ClaimLedger` and `Pages` side by side, and whether operations overlapped |
| `Skills` | skills written from promoted claims: gate, versions, directories |
| `SkillsInTurn` | `Skills`, and whether commands overlapped |
| `Evidence` | artifacts and the `sources` rows that point to them |
| `Safety` | the scan as a function: engines, their failures, policy tables, masks |
| `Rulesets` | what the engines report of a kind of text |
| `SafetyScan` | one scan on every surface and configuration |
| `Profiles` | who sees what: profiles, confidence labels, scopes, trust |
| `Recall` | one recall, read by read, beside the writers of the ledger |
| `Yaml`, `Formats` | the frontmatter's emitter and parser; one block written and read back |
| `Bundles` | documents of a bundle, what the validator says of them, what comes back |
| `Okf` | export, import and round trip by concurrent sessions |
| `Gathering` | research queue, budgets, fetches, bookmark sync |
| `Librarian` | the librarian's commands beside people, with models that fail |
| `Orchestration` | registry, performance capture, delegation |
| `Storage` | creation, migration, backup and restore, file by file |
| `Background` | gathering, librarian, orchestration and storage side by side |
| `Readers` | bundles, recall and scans side by side |
| `CandidateReviewProofs`, `ClaimLedgerProofs`, `SkillsProofs`, `EvidenceProofs`, `StorageProofs`, `OrchestrationProofs`, `BackgroundProofs`, `ReadersProofs` | theorems |
| `MCCandidateReview`, `MCClaimLedger`, `MCSkills`, `MCEvidence`, `MCReaders`, `MCBackground`, `MCLibrarian`, `MCStorage`, `MCOrchestration` | the instances TLC checks |


### CandidateReview

A *session* is a connection with a call in progress. `promote` is four steps:
`BeginImmediate` takes the lock, `PromoteCheck` reads the row, scans the text and
passes the safety gate, `PromoteRefuse` is every way to raise (rollback), and
`PromoteCommit` writes the claim and the candidate's row and commits. `reject` and
`archive` are two: `RetireCheck` reads in autocommit, `RetireWrite` is the
unconditional `UPDATE` with its commit. `LockTimeout` is `busy_timeout` running out,
`Crash` the end of a process anywhere in a call.

- Text, reviewer names and confidence labels are left out; no guard looks at them
  except the empty-string checks, which raise before anything is read.
- The safety scan is its verdict (`clean`, `warn`, `block`), chosen at every scan: a
  re-scan may come out differently from the scan at capture. The built-in capture
  policy never blocks (`safety/policies.py`, `_CANDIDATE`), so capture does not refuse.
- A candidate id stands for a row `create_checked` inserted; candidates are never deleted.
- `PromoteCommit` keeps the branch for an `UPDATE` that matches no row. It cannot be
  reached while `BEGIN IMMEDIATE` holds the lock, and the code says as much.

### ClaimLedger

An operation is a read step, which fills `local`, and a write step, which acts on it:
`FileRead`/`FileWrite` (`file_claims_data` with and without `refile`),
`GateRead`/`GateHold`/`GatePass`/`GateWrite` (`gate`), `ReviewRead`/`ReviewWrite`
(`promote`, `reject`), `SupersedeRead`/`SupersedeWrite`, `Resolve`, and
`FileCandidate` for the claims `candidates.promote` inserts. The first write takes
the lock, so everything up to `finalize` is one step. The gate is finer: the claims
it holds before its first `UPDATE` are judged in autocommit, one by one (`GateHold`,
`GatePass`), and from there to its commit it reads its own writes (`GateWrite`, where
`winners` is the only set for which each claim is judged by the promotions before it).
`Abort` is any error or death before the commit.

- Text is what `jaccard` and `polarity_conflict` see of it: `Similar` and `Opposed`
  are relations on `Texts` and need not agree.
- `sure` is confidence against the threshold; `filing` tells which extraction inserted
  a row and is not in the database, nor are `promoter` and `filings`.
- One claim per extraction, one id per `promote`/`reject` call: the code loops, inside
  one transaction, over what the model does once.
- `FileRead` reads the source and its claims together, and `GateHold`/`GatePass` the
  three queries of `hold_reasons`; in the code they follow each other in autocommit.
- A full-text query that fails opens no contradiction at filing (fail open,
  `ingest.py:261-263`) and holds the claim at the gate (fail closed, `gate.py:81-90`).
- Ids are SQLite rowids without `AUTOINCREMENT`: `NextId` is one above the largest row
  left, so a refile that deletes the last claims frees their ids.
- Foreign keys are `Deletable`: a delete fails on a claim that a supersession, a
  `superseded_by` or a candidate names.
- Left out: entities, relations and embeddings (they follow the claim), the `failed`
  and `quarantined` source states (no transition of these operations leads there),
  escalations, summaries' text.

### Skills

A skill is a row, its versions and up to two directories: the repository's
`.claude/skills/<name>` (`repoDir`) and the opt-in copy under `~` (`globalDir`). The
database commits; the directories do not, so a command is a chain of steps whose rest
is in `job`, and `Stop` (an exception, a refusal or the end of the process) drops it:

- `set_body`: `SetBodyRead` (the hash of the claims as they are), `SetBodyWrite`.
- `approve`: `ApproveCheck` (validate), `ApproveHash`, `ApproveWrite` (row and version,
  commit), `RenderOne`. `revert`: `RevertRead`, `RevertWrite` (which validates inside
  its transaction), `RenderOne`, and for an installed skill the steps of `install`.
- `archive` and `merge`: `RetireRead`, `RetireRemove`, `RetireWrite`, with `into` the
  skill that takes the links over and the skill itself for an archive.
- `render`: `RenderRead`, `RenderWrite`. `install`: `InstallRead`, `InstallCopy`,
  `Mark`. `uninstall`: `UninstallRemove`, `Mark`.
- `New`, `Describe` (also `tools`), `Attach`, `Detach` are one step.
- `FileClaim`, `ReviewClaim`, `DropClaim` are what `ClaimLedger` does to the claims,
  as far as skills can see it.

`origin` (`from` in a version) is history: the claims that were linked and trusted when
`set_body` took the text, whatever ids the database uses for them since. An approval does
not change it, a revert restores what its version had. `rebased` records that an approval
put another stamp under the text than the one it had.

- A text stands for description, body and tools together; `NoBody` is a `SKILL.md`
  that is not there. A directory is the text last written to it; the provenance line
  `_content` adds is left out.
- `claim[i].fact` tells claims apart that have had the same id, as `reviewed_at` does
  in `_input_hash`; distinct reviews are taken to have distinct timestamps. A review
  that only restamps a promoted claim is left out: it can only make drift show more.
- Superseded claims are not promoted and behave as rejected ones.
- `merge` reads the links it moves just before it moves them and does both in `RetireWrite`, and
  its lock is not held over the removal of the directory, which allows more.
- `InstallCopy` and `RenderWrite` are atomic: a copy cut short is not modelled.

### Evidence

A file system and a database that commit apart. `file` maps a place (directory, stem,
hash in the name, collision suffix) to bytes; `source` has the committed rows by their
unique hash. As in `Skills` a command is a chain of steps with its rest in `job`:

- `capture`, `add` and `transcribe`: `Capture`, `AddFetched`, `AddFileName` and
  `AddFileCopy` write the artifact, then `Refuse` (known hash; a fetched page's file is
  unlinked) or `Lookup` and `Insert` register it.
- Filing: `Extract` (inside an extraction, under its lock) and `EvidenceFile` (the CLI)
  read the row and verify the bytes, `Move` moves or unlinks, `VerifyAgain` hashes the
  target, `Record` updates the row and commits.
- `drop.scan`: `ScanBegin` lists, `ScanWrite`, `ScanSkip` and `ScanRegister` handle one
  file, `ScanCommit` is the one commit after the last.
- `Stop` is an exception, a refusal, a lock timeout or the end of the process: the
  rows roll back and the files stay.

`spoiled` and `unsettled` are history. The code lets two artifacts share a file name
(captures of one second, a file added between another's check and copy) and lets a
refused add unlink; what that costs is in `spoiled`. A filing that stopped after its
move, or that met another filing of the same source, is in `unsettled`. The properties
say what holds apart from these, which is where the code's own limits are.

- Bytes are model values and stand for their hash. A name is a slug, or a second and a
  slug; the hash prefix in a name is taken to be unique.
- The existence check of `Move` and the move itself are one step, and so are the row
  and the first hash of a filing, and the lookup and the insert of `ScanRegister`.
- One source per filing: `file_all` repeats it in one transaction, and catches the
  errors of one source to go on with the next.
- An artifact's bucket is chosen at its registration and at every extraction (tags);
  the year is left out. At most one collision suffix is added.
- Left out: stubs of failed bookmarks and quarantined sources (they have no artifact
  to file), the binary copy of an image in `raw/assets/`, `evidence-index`.

### Pages

`render` is `RenderBegin` (which pages), `ReconcilePages` (rows and orphaned files),
`ComputePage`, `WriteFile` and `ClearMark` for each, and `RenderEnd` (the commit). Its
reads are in autocommit until its first write takes the lock, and the files it writes
belong to no transaction. Drafting is `DraftRead`, `DraftWrite`, `DraftEnd`. `FileClaim`,
`Refile`, `Promote`, `Reject`, `PromoteCandidate`, `Supersede` and `Resolve` are the
commits that mark pages dirty, or fail to: a claim from a candidate and an open
contradiction mark no page. A view is the set of claims (and the prose) a page shows.
`raced` is history: somebody wrote beside another's job, and nobody has rendered all
pages undisturbed since. The property says what holds apart from that, and that one
undisturbed `render --all` is enough to repair the rest.

### Safety, Rulesets, SafetyScan

`Safety` is the pipeline as operators: which engines a configuration uses on a surface,
what an engine that is absent, slow or raises contributes, the window of `max_chars`,
merging of spans, and the decision tables of `policies.py` per surface. `Rulesets` says
what the baseline and the adapters report: rules with their severities, which match gives
way to which, what an encoded payload adds. Which rules match a text is the input: the
regular expressions are not modelled; what matches lies in the text (`ScanGiven`).
`SafetyScan` is one scan: `ScanFor` refuses the configuration or gives the verdict.

### Profiles, Recall

One recall is a record `call` that grows with every read: `Search`, `ReadRows`,
`ReadDisputes`, `Assemble` (with the read of the supersessions), `SafetyPass`,
`Federate`, `Return`. None opens a transaction, and the review of claims commits between
any two. The ranking of the search and the score of a foreign item are choices.
`promotedOnce` and `clearOnce` are the claims that were promoted, and undisputed, at some
moment of the call.

### Bundles, Okf, Yaml, Formats

A text is a sequence of pieces: words, a secret, a lure, blank space, a line that looks
like one of the exporter's own. `Bundles` has what `export.py` makes of a claim, the
checks of `validate.py` on any bundle, what `okfimport.py` reads of a document and how
`roundtrip.py` classifies what came back. `Okf` has the commands: an export reads, builds
the bundle beside the directory and swaps it in with two renames (`ExportBegin`, `ExportBuild`,
`MoveAside`, `MoveIn`, `RemoveOld`); an import validates and then goes document by
document, a look-up and a commit each (`ReadDocument`, `CompareWithPrior`,
`CreateCandidate`); `Compare` is the round trip's report. Both sides are reviewed
meanwhile (`Curate`, `Judge`). The importer's two scans, of the metadata and of the body,
may each fail for a document: a failed scan drops the strings of the metadata, but leaves
the body as it came (`Scanned`, `Kept`), and either quarantines. A scan that fails here is
one whose failing engine is the one that would have found what there is; had another found
it, it would be masked and quarantined, which is between the two. The exporter's scan is taken to look: one that fails
withholds the body. `Yaml` is `yamlfmt.py`'s emitter and the subset parser of
`validate.py`, character by character where a string is quoted, and `Formats` writes and
reads one block. Numbers, dates and the order of keys are as the exporter writes them.

A call of `_emit_map` or `_emit_list` is a value at a depth, and what it returns is the
recursive function `Lines`; a call of `_map` or `_list` is the line the parser is at, its
indentation, the depth left and whether the line is the spliced first line of an item
(`Calls`), and what it returns is the recursive function `Reader`. The parser's loop over
entries is there a call for the entries from the next line on. `Values` is what may be
written and `Nesting` how deep each value is; `Writable` says what the exporter gives the
emitter: dicts (so one value for a key), no list directly in a list, which `_emit_list`
refuses, no empty dict in a list, and bare words the parser takes back (see section 5).

### Gathering

A session's command is its network calls and its commits: `Search`/`Charge`;
`Fetch`/`Get`/`Register`/`Insert` for a question; `Sync`, with `Stub` for a bookmark that
fails and `Finalize`, for bookmarks; `Add`, `AttemptRead`/`AttemptWrite` and `Done` on the
queue; lint's look-up (`Lint`) and its insert (`LintQueue`). What is read before a network call is acted on after it.
`night` is the local date budgets are counted by, and midnight may come between any two
steps. A session may die or be refused the lock anywhere (`Abort`).

### Librarian

A session runs `maintain` (extract, triage, adjudicate, housekeeping on one connection),
`watch`, `triage` or `adjudicate`. A command reads its work list, and then goes through
it: a call of the model that answers, fails or answers against the contract
(`AskValid`, `AskFails`, `AskInvalid`, with the client's formats and retries), and the
write that follows. `open` holds what a session has written and not committed: triage
keeps it, and the write lock, across its model calls. People drop files, add sources,
judge claims, refile extractions and settle cases beside it. `Grade` is what the rules of
`pretriage` and the gate see of a source's claim. `synthesize` is in `Pages`.

- An answer that meets the contract is filed in two steps: the artifact is moved
  (`FileMove`, in the open transaction), and the row learns of it with the commit
  (`FileCommit`). A process that dies between them leaves the source in `astray`: its row
  is as it was and names a file that is gone, so `Extract` turns it down ever after.
- An artifact that is gone, altered or cannot be moved raises what no loop catches
  (`Misfiled`): the batch is over. In `maintain` the stages after it run on the same
  connection, read what was written before the error (`torn`, which `View` shows to that
  session and to nobody else) and commit it, the status `extracted` included; any other
  command rolls back.
- An error after the move and before the commit (of `write_index`, say) is not an action of
  its own: but for `maintain`, whose later stages commit the new path all the same, it
  leaves what a crash leaves. A refiling by hand is one step, of a source whose artifact is
  in its place: where it dies is in `Evidence`.

### Storage

A file holds an *image*: how much of the core schema is there, which migrations, the
version stamped on it and the last write. A commit lies in the `-wal` file until a
`Checkpoint`. `init_db` runs statement by statement (`CreateTables`, `Stamp`), a
migration is one transaction (`MigrateRead`, which is outside it, `MigrateBegin`,
`MigrateApply`, `MigrateEnd`), `backup` copies to `.partial` and replaces
(`BackupBegin`, `BackupCopy`, `BackupEnd`), `restore` saves the present database, unlinks
the three files and copies (`RestoreBegin` to `RestoreCopy`). A process ends anywhere.

- Nobody is connected while a restore runs, as the guide demands, and one person
  administers the database. In `Background` the other process does not run `init`.
- One call of SQLite's backup API is one step and sees one committed state; that is what
  SQLite promises.

### Orchestration

`rows` are the candidates in id order with the claim each has become. `seed` and
`capture` go through their facts: `Look` (is there a row with this marker?), `Inbox`
(the commit of the captured source), `Insert` (the commit of the candidate).
`delegate` reads the trust of each role query by query (`ReadRow`, `ReadClaim`,
`ReadDispute`), asks the routing and the estimate engine (`Ask`: an answer of any kind,
an answer that cannot be used, an outage), admits or drops what they say, and records the
decision. `Squat` is anybody's candidate under the registry's public tags, `Review` and
`ClaimChanges` what people do, `Swap` an edit of `SEED_TIERS`. The reserved metadata of
`create_checked` is the `mark` no caller can set.

### Background, Readers

The modules that share no state with each other, composed: a step of one leaves the
variables of the others alone. `Background` extends `Gathering` and instantiates
`Librarian`, `Orchestration` and `Storage` (the last two with their theorems); `Readers`
extends `Okf` and instantiates `Recall` and `SafetyScan`. Both name the properties of
what they instantiate, so that a run checks them and a theorem states them of the whole.

## 3. Runs

| Run | Instance | Checks |
|---|---|---|
| `CandidateReview` | 2 sessions, 1 candidate, 2 claims, fair | `TypeOK`, `OneClaimPerCandidate`, `RiskWasAccepted`, `TurnedDownStaysDown`, `ImplementsGate`, `CallsReturn` |
| `Ledger` | *alone*: 1 session, a clip and a web page, two polarities, 2 ids, 3 filings; *together*: 2 sessions, the clip, one text, 2 ids, 3 filings | `TypeOK`, `ReferencesHold`, `ReplacementOnRecord`; without overlap `ExtractedOnce`, `TrustedRowsStay` |
| | *pages*: 2 sessions, a claim from a source and one from a candidate, 1 entity, 5 turns | `CleanPagesShowTheTruth` |
| `Skills` (2,673,853 states) | *alone*: 1 command at a time, 2 skills, 1 text, 1 id, 2 claims, 1 version, no `~/.claude`; *together*: 2 sessions, 1 skill, 1 text, 1 claim, 2 versions | `TypeOK`, `DraftsStayOffDisk`, `RevertsAreTrue`, `DriftIsReported`; without overlap `OnlyTruthIsApproved` |
| `EvidenceConcurrent` | 2 sessions, 2 artifacts, 1 name, 2 buckets, 2 files, 1 drop | `TypeOK`, `NothingLost`, `FiledIsVerified` |
| `Readers` (3,026,732 states) | *bundle*: 2 sessions, 2 claims, 10 texts, 37 foreign bundles, 4 turns, 2 candidates | `ABundleSurvives`, `ProposedOnce`, `ReportIsHonest`, `RawIsQuarantined` |
| | *yaml*: every string of up to 3 of 6 kinds of character, every pair of nested parts with different keys | `ReadsBackWhatItWrote` |
| | *recall*: 2 claims, 3 foreign items, 5 requests | `PackIsVetted`, `NothingUnsafeIsHandedOver`, `OmissionsAreAnnounced` |
| | *scan*: every surface, 9 configurations, 2 lengths, engines in every health | `UnscannedIsNotClean`, `MaskIsExact` |
| `Background` (3,046,727 states) | *queue*, *gather*: 2 workers, 3 pages, 2 questions, budgets of 1, 2 nights | `BudgetsHold`, `ChargesMatchSources`, `ParkedAtTheLimit` |
| | *librarian*: 2 sources, 1 contradiction, every command, 1 retry, no deaths | `ReportedIsStored` |
| | *filing*: 2 processes that seed and capture, 1 model, 2 facts, 3 rows; *delegating*: one seeds, one delegates, 4 workloads, 2 rows, 1 edit | `FiledOncePerRacer`, `DelegatesWithinItsRights` |
| | *storage*: an old database, 3 versions, 2 processes, 1 write, 1 crash | `NoHalfMigration`, `RestoreDestroysNothing`, `BackupIsCommitted` |
| `Librarian` (1,118,073 states) | 2 sources, one added that may never be answered for, one dropped, `watch` beside `maintain`, 3 extractions, 1 crash, fair | `NoSourceStarves` |
| `LedgerStaleGate` | 2 sessions, one claim | violates `GateRespectsRejection` |
| `EvidenceReAdd` | 1 session | violates `RefusedAddKeepsEvidence` |
| `LibrarianAborts` | 2 sources, 1 contradiction, no crash | violates `RunNeverAborts` |
| `RollForward` | 2 processes, no crash | violates `RollsForward` |
| `UnpromotedPin` | one process seeds, one delegates, 2 models, 1 edit | violates `PinnedWasPromoted` |

Scenes. Modules that share no state share a run: its variable `scene` is chosen at the
start and says which module moves; the others keep their initial state. What a run
explores is then the sum of its scenes and not their product, which would show nothing
more. Scenes are used in the same way for two instances of one module: a wide one for one
session and a narrow one for two. The scenes are in the `MC` modules; `Background` and `Readers` themselves let
every part move in every behaviour, and that is what the theorems are about.

Bounds. Two sessions are enough for every race listed: each is between one check and
one other commit. Two claims let one candidate become two if anything allows it; the
theorems cover any number of candidates. Two claim ids and three filings let a claim
be filed, deleted and its id reused while another claim still stands; `MaxFilings`
bounds only the number of extractions, a counter the database does not have.
`MaxFacts` does the same in `Skills`: two claims on one id are what a reused id takes,
and two versions what a revert to another version takes. In `Evidence` one name for two
artifacts makes every collision happen, and two buckets let an extraction file a source
elsewhere than another session is filing it. `MaxFiles` bounds the artifacts on disk:
two are an artifact and a stray copy of it, or two with one name. `MaxDrops` bounds the
files ever dropped: one is what two scans contend for. Budgets of one page, with two
workers, are overrun by one, which is the most the property allows; `MaxEvents` bounds
the searches. Five turns are two renders and what is judged in between; four are two
exports, an import and a review. Two candidates are one document proposed twice, or two
documents. Three rows are a fact filed twice and another fact. Two pending steps
are enough for a migration that stops between them. Strings of three
characters put every escape next to every other, at both ends and in the middle.

Deadlock is checked in every run but `Background`, `RollForward` and `UnpromotedPin`,
where bounded counters leave nothing to do in the end.

The properties that begin with `~overlapped` hold as long as operations do not overlap,
and fail when they do, because the guards behind them are read in autocommit: two
extractions of one source file it twice; a refile deletes ids whose status it read
earlier; `approve` validates before its transaction (`revert`, which validates inside it,
keeps the promise: `RevertsAreTrue`). In the same way `BudgetsHold` and
`FiledOncePerRacer` allow what a race costs, one for each racer, and no more; the second
window is documented (`perfcapture.py:295-307`).

### What the violations show

- **The gate overrides a human.** `gate` promotes by id from a list it read earlier.
- **A page added twice.** `add` names the file of a page by its title and hash, and
  unlinks it when the hash is already registered. Added again before it was filed, the
  page has the same name, and the refusal removes the registered source's artifact.
- **A run of the librarian aborts.** The claims of a pair are refiled while the model is
  asked about it; `contradiction_propose` raises `SystemExit`, which `except Exception`
  around the stage does not catch.
- **Rolling a restore back.** `restore --from <db>.pre-restore` first overwrites that very
  file with the present database, and then restores it.
- **A model nobody promoted is pinned.** A fact is looked up by role and tier, the model
  is taken from `SEED_TIERS`. After an edit the new model is trusted by the promotion of
  the old one, and `seed` files nothing for it.

### Fairness

`CandidateReview`: weak fairness of `Step`, the session's own progress inside a call that
has started: a running thread executes its next statement. Nothing obliges a session
to submit a call, or a process to crash or not to. A session that waits for the lock
needs no strong fairness: `LockTimeout` is enabled as long as the lock is held and
`BeginImmediate` or `RetireWrite` when it is free, so the call can always continue.

`Librarian`: weak fairness of a command's steps; weak fairness of starting `maintain`,
which a timer does (`docs/OPERATIONS.md`); and strong fairness of a valid answer for each
source but those in `Poison`: asked again and again about it, the model meets the contract
in the end. About a poison source nothing is promised. Nothing is asked of people. Extractions by hand are bounded (`MaxTexts`), so
they cannot keep the lock from the librarian for ever. A source a crash has stranded is
excepted, and `NoSourceStarves` says that there are no more of those than there were
crashes: nothing but a death between `FileMove` and `FileCommit` strands one.

## 4. Proofs

Eight modules hold theorems; they are proved for every number of sessions, workers,
processes, candidates, claims, sources, skills, artifacts, questions, pages, models and
facts, and from nothing but the named assumptions on the constants, which TLC evaluates on each instance
(`SentinelsAreFresh`, `LedgerAssumption`, `SkillsAssumption`, `EvidenceAssumption`,
`PagesAssumption`, `GatheringAssumption`, `OkfAssumption`, `ValuesAssumption`,
`FormatsAssumption`; `BackgroundAssumption` and `ReadersAssumption`, those of the
modules they instantiate; in the proofs of `Storage` and `Orchestration` by themselves the assumption
stands in front of the theorem):

| Module | Theorems |
|---|---|
| `CandidateReviewProofs` | `TypeCorrect`, `OneClaim`, `NoUnacceptedRisk`, `NeverRevived`, `ClaimOfRecordIsFinal` (a candidate with a claim of record is never relinked), the refinement `ReviewImplementsGate` |
| `ClaimLedgerProofs` | `TypeCorrect`, `NoDanglingReference`, `ReplacementKnown`; without overlap `SourcesAreExtractedOnce` (`ExtractedOnce`), `TruthIsNotDropped` (`TrustedRowsStay`); of the composition with the pages `PagesShowTheTruth` (`CleanPagesShowTheTruth`) |
| `SkillsProofs` | `TypeCorrect`, `DraftsAreNeverOnDisk`, `RevertsBringTruth`, `StaleSkillsAreTold` (`DriftIsReported`); without overlap `ApprovalsAreTrue` (`OnlyTruthIsApproved`) |
| `EvidenceProofs` | `TypeCorrect`, `PathsFollowBytes`, `EvidenceIsKept` (`NothingLost`) |
| `StorageProofs` | `NobodySeesHalf` (`NoHalfMigration`), `RestoreKeepsBoth` (`RestoreDestroysNothing`), `BackupsAreWhole` (`BackupIsCommitted`) |
| `OrchestrationProofs` | `FactsAreFiledOnce` (`FiledOncePerRacer`), `PinsAndPlacesByRight` (`DelegatesWithinItsRights`) |
| `BackgroundProofs` | `CountsAreTheirStatus` (`ParkedAtTheLimit`), `FetchAndChargeAreOne` (`ChargesMatchSources`), `OverrunIsBounded` (`BudgetsHold`); of the composition `ReportsAreTrue` (`ReportedIsStored`), and `FactsAreFiledOnce`, `PinsAndPlacesByRight`, `NobodySeesHalf`, `RestoreKeepsBoth`, `BackupsAreWhole` again |
| `ReadersProofs` | `BundlesSurvive` (`ABundleSurvives`), `ImportsProposeOnce` (`ProposedOnce`), `ReportsAreHonest` (`ReportIsHonest`), `RawImportsAreQuarantined` (`RawIsQuarantined`); `UnscannedTextIsNotClean` (`UnscannedIsNotClean`), `MasksAreExact` (`MaskIsExact`); `PacksAreVetted` (`PackIsVetted`), `NothingUnsafeIsGiven` (`NothingUnsafeIsHandedOver`), `OmissionsAreTold` (`OmissionsAreAnnounced`); `StringsSurvive`, `BlocksReadBack` (`ReadsBackWhatItWrote`) |

The safety properties of `CandidateReview` are not inductive: that a commit may link
a claim follows only from what the check saw. Its invariant adds that the lock is held
exactly by the session that stands between `BEGIN IMMEDIATE` and its commit
(`LockMatchesPc`), that what `PromoteCheck` established still holds at the commit
(`CheckStillHolds`: nobody else can write meanwhile), and that a candidate with a
claim has been reviewed (`ClaimedIsReviewed`: no stale write ever returns it to
`pending`). The refinement needs the same invariant, and one step lemma per action.

In `ClaimLedger` the invariant says little about what sessions remember (`LocalOK`: ids in
range): references hold although reads are stale, because a refile drops the
contradictions of what it deletes and foreign keys stop it elsewhere. The proof of
`FileWriteStep` is where this is used. The two promises about operations that do not
overlap need what the reads were (`SerialOK`): as long as nobody has overlapped, whoever
files is the only one at work, so the source is still marked as it was read, and what a
refile is about to clear is all that was extracted from it and nothing that was trusted.

In `Pages` what a render knows goes stale with the first write beside it, so its invariant
(`PagesInv`) speaks of the jobs that are still alone (`Informed`): which pages they want is
what is wanted now, and each entity's page in their rows either was clean before and has
no turn, or still has its turn, or is shown (`PageOK`). While nobody has raced every job is
alone. A render that dies after `ReconcilePages` has deleted files and no rows: those are
pages about no promoted claim, so the invariant adds that a clean page is about some
(`AllShown`). And every review marks the pages about the claims whose trust it changes
(`MarkedOK`), except where a claim is about no entity (`UnmarkedOK`). This proof found an
error of an earlier version of the model, in which a render wrote the content of its first
page into every file.

In `Skills`, that drafts stay off disk depends on what sessions have read and not yet
acted on: the invariant adds that an approved row has a version (`ApprovedHasVersion`) and
that every skill a session is about to copy or render has one (`JobOK`), which holds
because rows, texts and histories only grow (`Grows`). `RevertsBringTruth` needs that only
`RevertWrite` takes a session from a revert to its render. `StaleSkillsAreTold` rests on
what a stamp names (`StampsOK`): unless an approval replaced it, exactly the claims the
text was written from, in the row (`StampOK`), in its versions (`VersionOK`) and in what
a session has read and is about to write (`PlanOK`); a stamp that agrees with the claims
as they are now then leaves no untrusted claim behind the text. Without overlap
(`InTurnOK`) what `approve` validated is still so when it writes (`CheckedOK`).

In `Evidence` what a filing is about to record was verified some steps ago. The
invariant says where artifacts can be: they are made in the inbox or in `raw/`
(`Staging`), and a bucket holds at most places named for one artifact's bytes
(`FiledPlaces`, `PathsOK`), so only a filing of the same source can disturb it, and
then two have filed it at once (`OneFiler`, `AboutToRecord`). A scan's rows are new and
its transaction holds the lock (`RowsAreNew`), so its commit changes no old row.

`EvidenceIsKept` is about the bytes instead of the paths. A crash may come between a file
step and its commit, so the invariant (`LInv`) counts as expected on disk not only what
has a row but what a session is about to register (`KeptOnDisk`), and says that the file
a filing is about to move away from holds that source's own bytes, or bytes an overwrite
has already put on record (`OldIsOwn`). Each step then either keeps every file or records
what it overwrote (`NoLoss`), and spoils no other session's claim on its file (`OthersOwn`).

In `Gathering` a budget is read and charged in different steps. The invariant
(`Budgets`) is about those in between: either tonight's budget is still open, or the
charges and those who are fetching (`Pending`) together are at most the limit and
`Overrun`; nobody joins them any more, and each who is done moves from one term to the
other. Of past nights only the charges are left. `ChargesMatchSources` needs that rows of
`gather_events` are never numbered twice (`EventsOK`), `ParkedAtTheLimit` that what a
session has read of a row is a row whose status fits its count (`JobOK`).

In `Librarian` who has counted a recommendation and not yet committed it holds the lock
(`Counted`), and what is counted is in the transaction or in the table: so neither a
refile nor a second session can take it away before the report. What a session counts are
claims as it reads them, those of a filing that failed included (`Reads`); nobody else
sees these before they are committed, and then every claim that is not new is the one
that was there under its id (`Follow`), so that what others have reported stays true.

In `Storage` the invariant says what a transaction has made: the steps of its version and
those of the image it is going to replace (`TxnOK`), which is why a process that found an
old version before it had the lock does no harm. `Apart` is the precondition the code
states and does not check, that a restore has the database to itself; under it `Kept` says
in which file each of the two states is at each step. `BackupsAreWhole` has as its premise
that no two backups to one destination are at work at once (`OneForEach`), which the code
does not check either; with one administrator, as in the instance, it always holds. Then a
file that is being written is the copy of exactly one backup (`HandlesOK`), and the copy
lies between what was there when the backup began and what is there now (`CopyOK`). That
the database only goes forward meanwhile (`Forward`) needs that what a transaction has
made is later than what it will replace (`TxnLater`), and that no file has more writes in
it than there were (`WritesOK`).

In `Orchestration` a decision rests on a row read some steps ago: the invariant
says that a row a session reads trust from is its role's own and was promoted (`Vouching`),
and that this is never taken back (`RowsKept`: a marker never changes, and what was believed
may only be revoked). For the rows of one fact (`Counted`): while there is none anybody may
look; from the first on, the rows and those who have looked and not inserted (`Looked`)
together are at most as many as the processes that file.

The theorems of `Background` need no new invariant: a behaviour of the composition is one
of each part, since a step of the composition is a step of one part and a stutter of the
others, and the assumption of each part is a conjunct of `BackgroundAssumption`.

In `Okf` three things are carried. An exporter that moved a bundle aside will clean up only
what it moved itself, so some copy that nobody at the last step owns is left until a bundle
is in place (`Held`). Whoever is about to propose a document has found no earlier candidate
for it but those turned down, and, without a race, is alone in importing (`CreateOK`,
`Alone`). And every bundle an exporter holds is made of documents whose body is the
claim's, written out (`BundleOK`, `DocumentOK`): reading such a document back never gives
more than was written, up to the marker line and stripped at both ends, so if
what came back has the claim's text inside it, it is the claim's text. This is where the
lemmas on stripping, cutting and masking sequences of any length are used.

A scan of `SafetyScan` is one step, so its invariant only says that the verdict is the one
`Safety` gives for the request (`ScanInv`); the work is in the lemmas about that verdict.
`MasksAreExact` follows the loop of `merge_spans` over the sorted spans of any number of
overlapping findings, by an induction on its rounds (`Looped`, `MaskedOK`).
`UnscannedTextIsNotClean` rests on this: an engine that was required and not asked, and
the part of a text beyond the window, each leave a finding (`GapsAreFound`), and every
policy table answers that finding with `quarantine` or `block` (`Tables`).

In `Recall` the invariant speaks of the call in progress (`CallOK`): what it has read of a
row was so at some moment of the call (`RowsOK`, `DisputesOK`), what is in the pack passed
the tests (`ItemsOK`), what is missing from it was announced (`OmissionsOK`), and after the
safety pass nothing in it is exposed (`Unexposed`, from the lemmas on `Safety`). The history
of the call only grows, so no commit of a writer disturbs it (`CallGrows`). The loop over
the ids that search returned, with its stop at a full pack, is `ExaminedOK`.

`BlocksReadBack` needs no invariant but what is written; the work is in what the emitter
and the parser return, for values and lines of every size. What the library has for
recursive functions takes an operator as a parameter, so that `Lines` and `Reader` are
functions of all calls, each by way of smaller ones, is proved first (`LinesAre`,
`ReaderIs`): a value is written by way of what nests less deeply (`LinesLookInside`), a
call reads by way of calls at later lines, and the call for a list's item by way of a map
at the same line that passes it (`CallLooksAhead`, `Fits`). A block is then the pieces of
its entries, one after the other (`LinesInPieces`, `Flattened`). `AllRead` is an induction
on nesting: wherever a block stands, with nothing behind it that could be taken for its
next entry (`Ended`), and with enough depth left, the call before it returns the value and
the line behind it (`Reads`). Inside one block the entries are read from the last to the
first (`MapReads`, `ListReads`); the first line of an item's map stands behind a dash at
another indentation and is read as if it did not (`Seen`). A sublist stands no deeper than
its key, so what follows it may have its indentation, but opens no item. `StringsSurvive`
is the same kind of induction on the characters of a string. That a value nests at most
one deeper than `max_yaml_depth` is an assumption of `FormatsAssumption`: the parser
refuses a deeper one, and the exporter's documents nest six deep.

Only model-checked: `CallsReturn` and `NoSourceStarves`, liveness under fairness.

## 5. Known limits of the code that no run checks

Met while modelling; each is in the models as the code has it, and the properties say
what holds in spite of it.

- `reject` and `archive` check `pending` and write by id alone: a promotion committed in
  between leaves a candidate labelled `rejected` whose claim is trusted
  (`candidates.py:403`; `SCHEMA.md:27` has a candidate leave `pending` once). `archive` and
  `install` of a skill in two sessions leave an orphaned directory.
- A source is extracted twice by two extractions at once (`ingest.py:318`). A claim that
  denies another counts as its second source, since corroboration looks at shared words
  (`gate.py:50`). A crash between the last extraction of a run and `_finish` leaves its
  claims ungated until the next run (`cli/librarian/extract.py:216`).
- A crash after an extraction has moved the artifact and before its commit
  (`evidence.py:123-125`, `ingest.py:417`) leaves a source that is `new`, with a path where
  nothing lies: every later run reports "artifact missing" (`cli/librarian/extract.py:160-162`)
  and nothing repairs it. `NoSourceStarves` excepts such a source.
- An `EvidenceError` or `OSError` of a filing is caught neither in `extract_source` nor in
  `catch_up` (`cli/librarian/extract.py:177`, `213`), which "never aborts the batch on one
  failure" (`cli/librarian/extract.py:205`): the sources after it wait for the next run. In
  `maintain` the claims and the status `extracted` it had written are committed by a later
  stage, without the recorded filing and its escalation.
- A migration between the tables and the indexes of an `init_db` under way makes its script
  end at the first index that is there (`schema.py:120`): the database then has the newest
  version and no search index.
- `set_body` on an approved skill leaves it approved, and the next render projects a text
  nobody approved (`skills.py:174`; `BUILD_SPEC.md:520`). `approve` stamps a skill with the
  links of the moment and does not compare them with the stamp of `set_body`, though the
  comment has it that "approval later confirms that same basis" (`skills.py:172-173`,
  `316`): a text whose claim was dropped and another linked in its place is approved, and
  is not reported (`rebased`).
- A body whose own scan failed is stored as it came, only quarantined: the verdict's text is
  the original where nothing was found to mask (`candidates.py:169`,
  `safety/pipeline.py:230-239`). The importer drops metadata it could not scan, "matching
  the body path's refusal to store what it could not clear" (`okf/okfimport.py:301-302`,
  `docs/OKF.md:359-360`), which the body path does not do. `RawIsQuarantined` says what
  holds.
- With `include_superseded` a trusted-only pack of `recall` holds superseded claims, labelled
  untrusted, as a test expects (`tests/acceptance.py:3580`); the invariant stated for
  `_allowed_statuses` names the two other flags only (`recall.py:129`). What `PackIsVetted`
  says of trusted-only packs is about those without it.
- A pack of `recall` mixes two moments of the ledger (`recall.py:230`): a claim may be
  promoted at one and undisputed at the other only. `registry.py:286-295` does the same.
- An encoded payload counts with a severity of its own, not with that of what it hides
  (`safety/baseline/encoding.py:87`).
- An open contradiction, and a claim from a candidate, mark no page dirty
  (`BUILD_SPEC.md:275`).
- `scan` of the drop folder moves files before its one commit (`drop.py:116`), and
  captures of one second share a name (`ingest.py:121`).
- An attempt may be lost when two workers report on one question, and an attempt may undo
  a `done` (`queue.py:48`). The bookmark sync does not use the configured fetch backend
  (`ingest.py:69`).
- `adjudicate` overwrites a proposal a human made while the model was asked
  (`cli/librarian/adjudicate.py:164-167`). `triage` holds the write lock across its model calls, so
  others are refused meanwhile. `watch` does not try a failed source again.
- Two backups to one destination at once share `.partial`. The copy kept before a
  migration is named by a version read earlier (`cli.py:1426-1455`). A restore that is
  run again after a crash in the middle overwrites the copy of the database it replaced
  (`backup.py:138`). An `init_db` that ends half-way leaves a database without a
  version. `dump.sql` is not replaced atomically.
- An estimate that shows its place only by a runtime hint is treated as external, so
  `allow_paid` is not applied to it. After a rejection of its first row a model's later,
  promoted row is never looked at, and `seed` does not file it again.
- Two processes that emit events on one trace use the same sequence numbers, though
  `docs/OBSERVABILITY.md:99` calls trace and sequence a key.
- An empty dict in a list is written as `- {}` and read back as the string `{}`
  (`okf/yamlfmt.py:83`, `okf/validate.py:301`), and a float with an exponent, as `repr` gives
  it below 0.0001, is read back as a string (`okf/validate.py:176`). The exporter writes
  neither.
- `server.py` leaves a body without a length, or one that is too long, unread on a
  connection it keeps open.

## 6. Not modelled

- Routing, argument parsing, printing and status codes of the HTTP server, the MCP server
  and most of `cli.py`: each request or command opens a connection, calls one operation
  and closes it, and that is a session of the models. What agents may call is a fixed
  list of handlers, with no state to check.
- `roles.py`: a table, a loop over it and one `create_checked`, which `Orchestration` has.
- `observability.py`: events are appended to a file that nothing here reads back.
- `feedback.py` appends rows; promotion of summaries and notes on claims are one guarded
  statement each.
- The regular expressions of the safety engines, Unicode folding, the processes of the
  external scanners: what they find is the input of `Rulesets`.
- Embeddings, ranking, health: derived, read only; what is found is a choice.
- `dump.sql` and `log.md`: written after the commit, read by nobody.
- Configuration, references, entities, utilities: parsing and formatting of values the
  models take as given. Demonstration scripts.

What would come next: the components under "not modelled" whose handlers keep state of
their own, and bounds on what a race costs where the theorems now say "without overlap".
