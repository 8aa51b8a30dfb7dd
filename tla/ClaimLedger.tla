---------------------------- MODULE ClaimLedger ----------------------------
(***************************************************************************)
(* The claims of the ledger: extraction (ingest.file_claims_data), the     *)
(* auto-gate (gate.py) and human review (review.py).                       *)
(*                                                                         *)
(* Each session is a process with its own connection.  Every operation     *)
(* reads in autocommit, decides, and only then writes: the first write     *)
(* opens the transaction and takes the write lock, so the writes up to     *)
(* finalize() are one step, and what was read before is what the session   *)
(* keeps in `local` in between.  A call that fails or dies before          *)
(* finalize() leaves nothing behind.                                       *)
(***************************************************************************)
EXTENDS Naturals, FiniteSets, FiniteSetsExt

CONSTANTS Sessions,
          Sources,
          Clips,       \* the sources with origin = 'clip'
          Texts,       \* claim texts, up to what similarity and polarity see
          Similar,     \* pairs of texts with jaccard >= CORROBORATION_JACCARD
          Opposed,     \* pairs of texts with polarity_conflict
          MaxClaim,    \* bound on claim ids
          MaxFilings   \* bound on the number of extractions

Ids == 1 .. MaxClaim
NoId == 0

ASSUME LedgerAssumption ==
    /\ Clips \subseteq Sources
    /\ MaxClaim \in Nat /\ MaxFilings \in Nat
    /\ Similar \subseteq Texts \X Texts
    /\ Opposed \subseteq Texts \X Texts

Statuses == {"pending", "promoted", "rejected", "superseded"}

\* The columns of a claim that never change.  `sure` is confidence >=
\* gate.auto_promote_confidence, `filing` the extraction that inserted it (0 for
\* a claim a promoted candidate became).
Rows == [text : Texts, source : Sources, sure : BOOLEAN, filing : 0 .. MaxFilings]

NoRow == [filing |-> MaxFilings + 1]

VARIABLES
    row,            \* claims, by id; NoRow where there is none
    status,         \* claims.status, "none" where there is no row
    supersededBy,   \* claims.superseded_by
    supersessions,  \* the (old, new) pairs of the supersessions table
    openPairs,      \* contradictions (a, b) with status 'open'
    closedPairs,    \* those resolved or marked false_positive
    extracted,      \* the sources with status 'extracted'
    summarised,     \* the sources with a summaries row
    promoter,       \* history: who promoted each claim, "gate" or "human"
    filings,        \* history: how many extractions were filed
    local           \* what each session has read and not yet acted on

db == <<row, status, supersededBy, supersessions, openPairs, closedPairs,
        extracted, summarised>>
vars == <<db, promoter, filings, local>>

Idle == [op |-> "idle"]

Init ==
    /\ row = [k \in Ids |-> NoRow]
    /\ status = [k \in Ids |-> "none"]
    /\ supersededBy = [k \in Ids |-> NoId]
    /\ supersessions = {} /\ openPairs = {} /\ closedPairs = {}
    /\ extracted = {} /\ summarised = {}
    /\ promoter = [k \in Ids |-> "nobody"]
    /\ filings = 0
    /\ local = [s \in Sessions |-> Idle]

(***************************************************************************)
(* The tables                                                              *)
(***************************************************************************)
Present(st) == {k \in Ids : st[k] # "none"}
With(st, value) == {k \in Ids : st[k] = value}

\* Rowids are not AUTOINCREMENT: the next id is one above the largest row left.
NextId(st, id) == /\ id = 1 \/ id - 1 \in Present(st)
                  /\ \A k \in Present(st) : k < id

Touches(pair, ids) == pair[1] \in ids \/ pair[2] \in ids

ClaimsOf(src) == {k \in Present(status) : row[k].source = src}

Remember(s, record) == local' = [local EXCEPT ![s] = record]
Forget(s) == Remember(s, Idle)

\* A validation error, a missing artifact, a lock timeout, a FOREIGN KEY or
\* UNIQUE violation, the end of the process: no commit, no effect.
Abort(s) == local[s] # Idle /\ Forget(s) /\ UNCHANGED <<db, promoter, filings>>

(***************************************************************************)
(* Extraction: file_claims_data, with and without refile                   *)
(***************************************************************************)
\* Mutant of Clearable: only superseded claims are protected.
ClearableLoosely(src) == \A k \in ClaimsOf(src) : status[k] # "superseded"

\* _clear_prior_extraction refuses a source with promoted or superseded claims.
Clearable(src) ==
    \A k \in ClaimsOf(src) : status[k] \notin {"promoted", "superseded"}

\* Mutant of ToClear: rejected claims are left behind.
ToClearPending(src) == {k \in ClaimsOf(src) : src \in extracted /\ status[k] = "pending"}

ToClear(src) == {k \in ClaimsOf(src) : src \in extracted}

FileRead(s) ==
    /\ local[s] = Idle
    /\ \E src \in Sources, refile \in BOOLEAN, withSummary \in BOOLEAN :
          /\ src \in extracted => refile /\ Clearable(src)
          /\ Remember(s, [op |-> "file", source |-> src, clear |-> ToClear(src),
                          summary |-> withSummary /\ src \notin summarised])
    /\ UNCHANGED <<db, promoter, filings>>

\* PRAGMA foreign_keys: supersessions, superseded_by and
\* memory_candidates.promoted_claim_id keep the rows they name.
\* Mutant of Deletable: the connection does not enforce foreign keys.
DeletableUnchecked(ids) == TRUE

Deletable(ids) == /\ \A p \in supersessions : ~Touches(p, ids)
                  /\ \A k \in Ids : supersededBy[k] \notin ids
                  /\ \A k \in ids : row[k].filing # 0

\* _detect_contradictions: the promoted claims of opposite polarity.
OpposedPromoted(text, st) ==
    {k \in With(st, "promoted") : <<text, row[k].text>> \in Opposed}

\* The deletes, then the insert, the contradictions it opens, and the source's
\* status, in one transaction.  A full-text query that fails opens none.  Rows
\* that still name a deleted claim (a supersession, the candidate it came from)
\* make the delete fail, and a summary inserted meanwhile makes the insert fail.
FileWrite(s) ==
    /\ local[s].op = "file"
    /\ filings < MaxFilings
    /\ LET src == local[s].source
           gone == local[s].clear \cap Present(status)
           kept == [k \in Ids |-> IF k \in gone THEN "none" ELSE status[k]]
           Left(pairs) == {p \in pairs : ~Touches(p, gone)}
       IN /\ Deletable(gone)
          /\ local[s].summary /\ local[s].clear = {} => src \notin summarised
          /\ \E new \in Ids, text \in Texts, sure \in BOOLEAN :
                /\ NextId(kept, new)
                /\ status' = [kept EXCEPT ![new] = "pending"]
                /\ row' = [k \in Ids |->
                             IF k = new
                             THEN [text |-> text, source |-> src, sure |-> sure,
                                   filing |-> filings + 1]
                             ELSE IF k \in gone THEN NoRow ELSE row[k]]
                /\ \E found \in {{}, OpposedPromoted(text, kept)} :
                      openPairs' = Left(openPairs) \cup {<<k, new>> : k \in found}
          /\ closedPairs' = Left(closedPairs)
          /\ supersededBy' = [k \in Ids |-> IF k \in gone THEN NoId ELSE supersededBy[k]]
          /\ promoter' = [k \in Ids |-> IF k \in gone THEN "nobody" ELSE promoter[k]]
          /\ extracted' = extracted \cup {src}
          /\ summarised' = summarised \cup {x \in {src} : local[s].summary}
    /\ filings' = filings + 1
    /\ Forget(s)
    /\ UNCHANGED supersessions

\* candidates.promote (module CandidateReview): one transaction, no detection.  The
\* confidence of a claim that was never pending is not looked at by the gate.
FileCandidate(s) ==
    /\ local[s] = Idle
    /\ \E new \in Ids, text \in Texts, src \in Sources :
          /\ NextId(status, new)
          /\ row' = [row EXCEPT ![new] = [text |-> text, source |-> src,
                                          sure |-> FALSE, filing |-> 0]]
          /\ status' = [status EXCEPT ![new] = "promoted"]
          /\ promoter' = [promoter EXCEPT ![new] = "human"]
    /\ UNCHANGED <<supersededBy, supersessions, openPairs, closedPairs, extracted,
                   summarised, filings, local>>

(***************************************************************************)
(* The auto-gate                                                           *)
(***************************************************************************)
\* _corroborating_sources: similarity alone, over promoted and pending claims.
Corroborating(k, claim, st) ==
    {claim.source} \cup
      {row[j].source : j \in {i \in With(st, "promoted") \cup With(st, "pending") :
                                 i # k /\ <<claim.text, row[i].text>> \in Similar}}

\* hold_reasons(claim) = [], for the row as the gate read it.
Promotable(k, claim, st) ==
    /\ claim.sure
    /\ \A p \in openPairs : ~Touches(p, {k})
    /\ claim.source \in Clips \/ Cardinality(Corroborating(k, claim, st)) >= 2
    /\ OpposedPromoted(claim.text, st) = {}

Front(todo) == Min(DOMAIN todo)
Rest(todo) == [k \in DOMAIN todo \ {Front(todo)} |-> todo[k]]

GateRead(s) ==
    /\ local[s] = Idle
    /\ With(status, "pending") # {}
    /\ Remember(s, [op |-> "gate", todo |-> [k \in With(status, "pending") |-> row[k]]])
    /\ UNCHANGED <<db, promoter, filings>>

\* The first claims of the list are held.  A failed full-text query holds too.
GateHold(s) ==
    /\ local[s].op = "gate"
    /\ LET rest == Rest(local[s].todo)
       IN Remember(s, IF DOMAIN rest = {} THEN Idle ELSE [op |-> "gate", todo |-> rest])
    /\ UNCHANGED <<db, promoter, filings>>

\* The first claim to pass: its UPDATE is the write that opens the transaction.
GatePass(s) ==
    /\ local[s].op = "gate"
    /\ LET todo == local[s].todo
       IN /\ Promotable(Front(todo), todo[Front(todo)], status)
          /\ Remember(s, [op |-> "gated", todo |-> todo])
    /\ UNCHANGED <<db, promoter, filings>>

\* Mutant of Updated: the UPDATE inserts the row it does not find.
UpdatedOrInserted(winners) == winners

\* The UPDATE names the id alone, and matches nothing when the row is gone.
Updated(winners) == winners \cap Present(status)

\* From there on the gate holds the lock and reads its own writes: claim k is
\* judged by the statuses after the loop has gone through the ids below k.
After(winners, k) ==
    [j \in Ids |-> IF j \in Updated(winners) /\ j < k THEN "promoted" ELSE status[j]]

Passes(k, todo, failing, winners) ==
    \/ k = Front(todo)
    \/ k \notin failing /\ Promotable(k, todo[k], After(winners, k))

GateWrite(s) ==
    /\ local[s].op = "gated"
    /\ LET todo == local[s].todo IN
       \E failing, winners \in SUBSET DOMAIN todo :
          /\ \A k \in DOMAIN todo : k \in winners <=> Passes(k, todo, failing, winners)
          /\ status' = [k \in Ids |-> IF k \in Updated(winners) THEN "promoted"
                                     ELSE status[k]]
          /\ promoter' = [k \in Ids |-> IF status[k] # status'[k] THEN "gate"
                                       ELSE promoter[k]]
    /\ Forget(s)
    /\ UNCHANGED <<row, supersededBy, supersessions, openPairs, closedPairs,
                   extracted, summarised, filings>>

Gate(s) == GateRead(s) \/ GateHold(s) \/ GatePass(s) \/ GateWrite(s)

(***************************************************************************)
(* Human review                                                            *)
(***************************************************************************)
PromoteBlockedFrom == {"rejected", "superseded"}
RejectBlockedFrom == {"superseded"}

\* promote and reject: look at the status, then write by id.
ReviewRead(s) ==
    /\ local[s] = Idle
    /\ \E k \in Present(status) :
          \/ /\ status[k] \notin PromoteBlockedFrom
             /\ Remember(s, [op |-> "review", claim |-> k, verdict |-> "promoted"])
          \/ /\ status[k] \notin RejectBlockedFrom
             /\ Remember(s, [op |-> "review", claim |-> k, verdict |-> "rejected"])
    /\ UNCHANGED <<db, promoter, filings>>

ReviewWrite(s) ==
    LET k == local[s].claim IN
    /\ local[s].op = "review"
    /\ status[k] # "none"
    /\ status' = [status EXCEPT ![k] = local[s].verdict]
    /\ promoter' = IF local[s].verdict = "promoted"
                   THEN [promoter EXCEPT ![k] = "human"] ELSE promoter
    /\ Forget(s)
    /\ UNCHANGED <<row, supersededBy, supersessions, openPairs, closedPairs,
                   extracted, summarised, filings>>

\* Mutant of Supersession: the columns are swapped.
SupersessionSwapped(old, new) == <<new, old>>

Supersession(old, new) == <<old, new>>

\* supersede: old and new exist, whatever the status of old; new is promoted along
\* with it when it was pending.
SupersedeRead(s) ==
    /\ local[s] = Idle
    /\ \E old, new \in Present(status) :
          /\ old # new
          /\ Remember(s, [op |-> "supersede", old |-> old, new |-> new,
                          adopt |-> status[new] = "pending"])
    /\ UNCHANGED <<db, promoter, filings>>

SupersedeWrite(s) ==
    LET old == local[s].old
        new == local[s].new
        adopted == IF local[s].adopt THEN {new} ELSE {}
    IN /\ local[s].op = "supersede"
       /\ {old, new} \subseteq Present(status)
       /\ status' = [k \in Ids |-> IF k = old THEN "superseded"
                                   ELSE IF k \in adopted THEN "promoted" ELSE status[k]]
       /\ promoter' = [k \in Ids |-> IF k \in adopted THEN "human" ELSE promoter[k]]
       /\ supersededBy' = [supersededBy EXCEPT ![old] = new]
       /\ supersessions' = supersessions \cup {Supersession(old, new)}
       /\ Forget(s)
       /\ UNCHANGED <<row, openPairs, closedPairs, extracted, summarised, filings>>

\* contradiction_resolve: the row is closed by id, as resolved or false_positive.
Resolve(s) ==
    /\ local[s] = Idle
    /\ \E p \in openPairs : /\ openPairs' = openPairs \ {p}
                            /\ closedPairs' = closedPairs \cup {p}
    /\ UNCHANGED <<row, status, supersededBy, supersessions, extracted, summarised,
                   promoter, filings, local>>

Review(s) == \/ ReviewRead(s) \/ ReviewWrite(s)
             \/ SupersedeRead(s) \/ SupersedeWrite(s)
             \/ Resolve(s)

Next == \E s \in Sessions : \/ FileRead(s) \/ FileWrite(s) \/ FileCandidate(s)
                            \/ Gate(s)
                            \/ Review(s)
                            \/ Abort(s)

Spec == Init /\ [][Next]_vars

(***************************************************************************)
(* Properties                                                              *)
(***************************************************************************)
\* The tables keep their shape, and a row is there exactly when it has a status.
TypeOK ==
    /\ row \in [Ids -> Rows \cup {NoRow}]
    /\ status \in [Ids -> Statuses \cup {"none"}]
    /\ \A k \in Ids : row[k] = NoRow <=> status[k] = "none"
    /\ supersededBy \in [Ids -> Ids \cup {NoId}]
    /\ supersessions \cup openPairs \cup closedPairs \subseteq Ids \X Ids
    /\ extracted \cup summarised \subseteq Sources
    /\ promoter \in [Ids -> {"nobody", "gate", "human"}]
    /\ filings \in 0 .. MaxFilings

\* No contradiction, supersession or superseded_by pointer ever names a claim that
\* is gone, although a refile deletes claims by ids it read earlier, while other
\* sessions link them, and ids come back.
ReferencesHold ==
    /\ \A p \in supersessions \cup openPairs \cup closedPairs :
          {p[1], p[2]} \subseteq Present(status)
    /\ \A k \in Ids : supersededBy[k] \in Present(status) \cup {NoId}

\* A superseded claim names its replacement, and the supersession is on record.
ReplacementOnRecord ==
    \A k \in With(status, "superseded") : <<k, supersededBy[k]>> \in supersessions

\* A rejected claim is a decision of record, which the auto-gate never reverses: a
\* human's rejection outlives the gate run that was under way when it was made.
GateRespectsRejection ==
    [][\A k \in Ids : status[k] = "rejected" /\ row'[k] = row[k]
                        => ~(status'[k] = "promoted" /\ promoter'[k] = "gate")]_vars
=============================================================================
