--------------------------------- MODULE Okf ---------------------------------
(***************************************************************************)
(* OKF: one ledger is exported to a directory, and what is in the          *)
(* directory is imported, as candidates, into another ledger.              *)
(*                                                                         *)
(* An export reads in autocommit, builds the bundle beside the directory   *)
(* and swaps it in with two renames; an import validates the directory and *)
(* then reads one document after the other, a commit each.  Exports,       *)
(* imports and review on both sides go on at once and may end anywhere.    *)
(***************************************************************************)
EXTENDS Bundles, TLC

CONSTANTS Sessions,
          Texts,        \* what the claims may say: a set of functions on Ids
          Foreign,      \* what the directory may hold from elsewhere
          Requests,     \* [scope, trustedOnly, history]
          MaxTurns,     \* bound: commands begun
          MaxCandidates \* bound: candidates proposed

ASSUME OkfAssumption ==
    /\ "none" \notin Ids
    /\ Texts \subseteq [Ids -> Seq(Pieces)]
    /\ \A r \in Requests : r.scope \subseteq Ids

VARIABLES
    text, status, by, open,     \* the claims of the exporting ledger, superseded_by,
                                \* and the open contradictions
    out,                        \* the directory: a bundle, or None
    aside,                      \* the bundles renamed away, by whom
    published,                  \* history: a bundle was swapped in
    candidates,                 \* memory_candidates of the other ledger, with the claim of each
    job,                        \* what each session is doing
    report,                     \* the last round trip's: per claim <<class, reason>>
    turns,
    raced                       \* history: two imports were under way at once

source == <<text, status, by, open>>
directory == <<out, aside, published>>
vars == <<source, directory, candidates, job, report, turns, raced>>

None == [marker |-> "none there"]
Idle == [at |-> "idle"]
NoReport == [c \in {} |-> <<>>]

Init ==
    /\ text \in Texts
    /\ status = [c \in Ids |-> "none"] /\ by = [c \in Ids |-> {}] /\ open = {}
    /\ out \in {None} \cup Foreign /\ aside = {} /\ published = FALSE
    /\ candidates = <<>>
    /\ job = [s \in Sessions |-> Idle]
    /\ report = NoReport /\ turns = 0 /\ raced = FALSE

Go(s, next) == job' = [job EXCEPT ![s] = next] /\ UNCHANGED <<report, turns, raced>>
Turn == turns < MaxTurns /\ turns' = turns + 1

(***************************************************************************)
(* Review, on both sides                                                   *)
(***************************************************************************)
Curate ==
    /\ Turn
    /\ \/ \E c \in Ids : /\ status[c] = "none"
                         /\ status' = [status EXCEPT ![c] = "pending"]
                         /\ \E rivals \in SUBSET {d \in Ids : status[d] = "promoted"} :
                               open' = open \cup {{c, d} : d \in rivals}
                         /\ UNCHANGED by
       \/ \E c \in Ids, st \in {"promoted", "rejected"} :
             /\ status[c] = "pending" \/ (status[c] = "promoted" /\ st = "rejected")
             /\ status' = [status EXCEPT ![c] = st] /\ UNCHANGED <<by, open>>
       \/ \E c, d \in Ids : /\ c # d /\ status[c] # "none" /\ status[d] = "promoted"
                            /\ status' = [status EXCEPT ![c] = "superseded"]
                            /\ by' = [by EXCEPT ![c] = {d}] /\ UNCHANGED open
       \/ \E x \in open : open' = open \ {x} /\ UNCHANGED <<status, by>>
    /\ UNCHANGED <<text, directory, candidates, job, report, raced>>

\* A candidate is promoted or rejected; the claim of one is superseded or rejected.
Judge ==
    /\ Turn
    /\ \E i \in DOMAIN candidates :
          \/ /\ candidates[i].status = "pending"
             /\ \/ candidates' = [candidates EXCEPT ![i].status = "promoted", ![i].claim = "promoted"]
                \/ candidates' = [candidates EXCEPT ![i].status = "rejected"]
          \/ /\ candidates[i].claim = "promoted"
             /\ candidates' = [candidates EXCEPT ![i].claim = "superseded"]
    /\ UNCHANGED <<source, directory, job, report, raced>>

(***************************************************************************)
(* export_bundle                                                           *)
(***************************************************************************)
Rows == [c \in Ids |-> [status |-> status[c], text |-> text[c], by |-> by[c]]]

\* The open contradictions, before anything else.
ExportBegin(s) ==
    /\ job[s] = Idle /\ Turn
    /\ \E r \in Requests, op \in {"export", "roundtrip"} :
          job' = [job EXCEPT ![s] = [at |-> "claims", op |-> op, request |-> r, pairs |-> open]]
    /\ UNCHANGED <<source, directory, candidates, report, raced>>

\* The claims; then the bundle is built in a directory of its own and checked.
ExportBuild(s) ==
    /\ job[s].at = "claims"
    /\ LET b == Planned(job[s].request, Rows, job[s].pairs) IN
       Go(s, IF ~SelfCheck(b) THEN Idle
             ELSE [at |-> IF job[s].op = "export" THEN "aside" ELSE "compare", bundle |-> b])
    /\ UNCHANGED <<source, directory, candidates>>

\* Mutant of MoveAside: the old bundle is deleted.
MoveAsideAway(s) ==
    /\ job[s].at = "aside"
    /\ IF out # None /\ out.marker = "absent"
       THEN Go(s, Idle) /\ UNCHANGED directory
       ELSE /\ out' = None
            /\ Go(s, [at |-> "in", bundle |-> job[s].bundle, moved |-> {}])
            /\ UNCHANGED <<aside, published>>
    /\ UNCHANGED <<source, candidates>>

\* _swap_into_place.  What is not a bundle is not replaced.
MoveAside(s) ==
    /\ job[s].at = "aside"
    /\ IF out # None /\ out.marker = "absent"
       THEN Go(s, Idle) /\ UNCHANGED directory
       ELSE /\ out' = None
            /\ aside' = IF out = None THEN aside ELSE aside \cup {<<s, out>>}
            /\ Go(s, [at |-> "in", bundle |-> job[s].bundle,
                      moved |-> IF out = None THEN {} ELSE {<<s, out>>}])
            /\ UNCHANGED published
    /\ UNCHANGED <<source, candidates>>

\* The rename fails if another bundle is there by now, or for a reason of the system's; then
\* the old bundle is put back, if that can be done.
MoveIn(s) ==
    /\ job[s].at = "in"
    /\ \/ /\ out = None
          /\ out' = job[s].bundle /\ published' = TRUE /\ UNCHANGED aside
          /\ Go(s, [job[s] EXCEPT !.at = "clean"])
       \/ /\ out = None /\ job[s].moved # {}
          /\ out' \in {m[2] : m \in job[s].moved} /\ aside' = aside \ job[s].moved /\ UNCHANGED published
          /\ Go(s, Idle)
       \/ /\ out # None
          /\ Go(s, Idle) /\ UNCHANGED directory
    /\ UNCHANGED <<source, candidates>>

RemoveOld(s) ==
    /\ job[s].at = "clean"
    /\ aside' = aside \ job[s].moved
    /\ Go(s, Idle)
    /\ UNCHANGED <<source, out, published, candidates>>

(***************************************************************************)
(* roundtrip: validate, import into a fresh ledger, import again, compare  *)
(***************************************************************************)
\* The scans of the import may fail here too; read says whether that of the metadata did not.
Entry(c, f, looked, read) ==
    LET imported == Kept(f.content, looked)
        judged == BodyClass(text[c], imported)
    IN [class |-> judged[1], reason |-> judged[2], body |-> imported,
        had |-> f.front.fields, back |-> Recovered(f, read), read |-> read]

Compare(s) ==
    /\ job[s].at = "compare"
    /\ LET b == job[s].bundle
           kept == {p[2] : p \in {x \in ClaimDocs(b) : ClaimText(b.files[x].content) # <<>>}}
       IN \E looked, read \in [kept -> BOOLEAN] :
             report' = IF Valid(b)
                       THEN [c \in kept |-> Entry(c, b.files[ClaimPath(c)], looked[c], read[c])]
                       ELSE NoReport
    /\ job' = [job EXCEPT ![s] = Idle]
    /\ UNCHANGED <<source, directory, candidates, turns, raced>>

(***************************************************************************)
(* import_bundle                                                           *)
(***************************************************************************)
Importing(s) == job[s].at \in {"next", "compare with", "create"}

\* An invalid bundle is refused whole.  The documents are listed, not yet read.
ImportBegin(s) ==
    /\ job[s] = Idle /\ out # None /\ Turn
    /\ Valid(out)
    /\ job' = [job EXCEPT ![s] = [at |-> "next", todo |-> ClaimDocs(out)]]
    /\ raced' = (raced \/ \E t \in Sessions \ {s} : Importing(t))
    /\ UNCHANGED <<source, directory, candidates, report>>

Ours(ref) == {i \in DOMAIN candidates : candidates[i].ref = ref}

\* The document is read, if it is still there, and _promoted_for asked for its owner.
ReadDocument(s) ==
    /\ job[s].at = "next"
    /\ \E p \in job[s].todo :
          LET todo == job[s].todo \ {p}
              there == out # None /\ p \in ClaimDocs(out)
              f == out.files[p]
              ref == ExternalId(p, f)
          IN Go(s, IF ~there \/ ~f.utf8 \/ \E i \in Ours(ref) : candidates[i].claim = "promoted"
                   THEN [at |-> "next", todo |-> todo]           \* warned, duplicate, conflict
                   ELSE [at |-> "compare with", todo |-> todo, file |-> f, ref |-> ref])
    /\ UNCHANGED <<source, directory, candidates>>

\* Mutant of Duplicate: only a pending candidate is recognised.
DuplicatePending(f, ref) ==
    \E i \in Ours(ref) : candidates[i].sum = f /\ candidates[i].status = "pending"

\* _candidates_for: an exact re-import is a duplicate, unless the candidate was turned down.
Duplicate(f, ref) ==
    \E i \in Ours(ref) : candidates[i].sum = f /\ candidates[i].status \in {"pending", "promoted"}

CompareWithPrior(s) ==
    /\ job[s].at = "compare with"
    /\ LET f == job[s].file IN
       Go(s, IF Duplicate(f, job[s].ref) \/ ClaimText(f.content) = <<>>
             THEN [at |-> "next", todo |-> job[s].todo]
             ELSE [job[s] EXCEPT !.at = "create"])
    /\ UNCHANGED <<source, directory, candidates>>

\* The scan of the metadata, then create_checked with its own of the body; or nothing, on a
\* dry run.
CreateCandidate(s) ==
    /\ job[s].at = "create"
    /\ \/ /\ Len(candidates) < MaxCandidates
          /\ \E looked, read \in BOOLEAN :
                LET f == job[s].file IN
                candidates' = Append(candidates,
                    [ref |-> job[s].ref, sum |-> f, text |-> Kept(f.content, looked),
                     says |-> Scanned(f.front, read),
                     quarantined |-> Quarantined(f, looked, read),
                     status |-> "pending", claim |-> "none"])
       \/ UNCHANGED candidates
    /\ Go(s, [at |-> "next", todo |-> job[s].todo])
    /\ UNCHANGED <<source, directory>>

ImportEnd(s) ==
    /\ job[s].at = "next" /\ job[s].todo = {}
    /\ Go(s, Idle)
    /\ UNCHANGED <<source, directory, candidates>>

\* An error before the swap removes what was built; the end of the process leaves all as it is.
Stop(s) ==
    /\ job[s] # Idle
    /\ Go(s, Idle)
    /\ UNCHANGED <<source, directory, candidates>>

Rest == turns = MaxTurns /\ job = [s \in Sessions |-> Idle] /\ UNCHANGED vars

Next ==
    \/ Curate \/ Judge \/ Rest
    \/ \E s \in Sessions :
          \/ ExportBegin(s) \/ ExportBuild(s) \/ MoveAside(s) \/ MoveIn(s) \/ RemoveOld(s)
          \/ Compare(s)
          \/ ImportBegin(s) \/ ReadDocument(s) \/ CompareWithPrior(s) \/ CreateCandidate(s)
          \/ ImportEnd(s) \/ Stop(s)

Spec == Init /\ [][Next]_vars

-----------------------------------------------------------------------------
(***************************************************************************)
(* Properties                                                              *)
(***************************************************************************)
\* A mid-write failure leaves any existing bundle untouched: whatever exporters do to each
\* other and wherever they end, once there was a bundle there is a whole one, in the
\* directory or beside it.
ABundleSurvives == published => out # None \/ aside # {}

\* Re-importing a bundle produces no duplicates: a document that is unchanged is proposed a
\* second time only after its candidate was turned down, unless two imports ran at once.
ProposedOnce ==
    ~raced => \A i, j \in DOMAIN candidates :
        i < j /\ candidates[i].ref = candidates[j].ref /\ candidates[i].sum = candidates[j].sum =>
            candidates[i].status = "rejected"

\* exactly-preserved is claimed of no body that did not come back as it was, nor of all bodies
\* unless every one did that the policy let pass; a withheld text never comes back; and what
\* the contract of the fields calls recoverable is there to be recovered, unless its scan failed.
ReportIsHonest ==
    /\ \A c \in DOMAIN report :
          /\ report[c].class = "exactly-preserved" => report[c].body = text[c]
          /\ report[c].class = "intentionally-omitted" => ~Inside(text[c], report[c].body)
          /\ report[c].read => report[c].had \cap Recoverable \subseteq report[c].back
    /\ Effective(report) = "exactly-preserved" =>
          \A c \in DOMAIN report : BodyOf(text[c]) = text[c] => report[c].body = text[c]

\* Nothing raw of a bundle passes for clean: no secret lands in the metadata a candidate
\* retains; one that lands in its text, because the scan of the text failed, quarantines it;
\* and so does a lure in either, whatever the scan of the other said.
RawIsQuarantined ==
    \A i \in DOMAIN candidates :
        LET k == candidates[i] IN
        /\ ~Has(k.says, "secret")
        /\ Has(k.text, "secret") \/ Has(k.text, "lure") \/ Has(k.says, "lure") => k.quarantined
=============================================================================
