------------------------------ MODULE Bundles ------------------------------
(***************************************************************************)
(* An OKF bundle: the documents export.py makes of claims, what the        *)
(* validator says of a bundle, whoever wrote it, and what the importer and *)
(* the round trip read back.                                               *)
(*                                                                         *)
(* A text is a sequence of pieces: words, a secret, a lure, blank space, a *)
(* line that looks like one of the exporter's own.  A bundle is a set of   *)
(* files by path; directories are left out.                                *)
(***************************************************************************)
EXTENDS Naturals, Sequences, SequencesExt, FiniteSets, TLC

CONSTANT Ids    \* claim ids, as in brainconnect.id

(***************************************************************************)
(* Texts                                                                   *)
(***************************************************************************)
Pieces == {"word", "blank", "secret", "masked", "lure", "notice", "title", "marker", "heading",
           "bad link", "link up"}

Has(text, piece) == \E i \in DOMAIN text : text[i] = piece
Upto(text, piece) ==                \* text.split(piece, 1)[0]
    IF Has(text, piece) THEN SubSeq(text, 1, SelectInSeq(text, LAMBDA x : x = piece) - 1)
    ELSE text
Mask(text) == [i \in DOMAIN text |-> IF text[i] = "secret" THEN "masked" ELSE text[i]]

Solid(text) == {i \in DOMAIN text : text[i] # "blank"}
RStrip(text) == IF Solid(text) = {} THEN <<>>
                ELSE SubSeq(text, 1, CHOOSE i \in Solid(text) : \A j \in Solid(text) : j <= i)
LStrip(text) == IF Solid(text) = {} THEN <<>>
                ELSE SubSeq(text, CHOOSE i \in Solid(text) : \A j \in Solid(text) : j >= i,
                            Len(text))
Strip(text) == LStrip(RStrip(text))

(***************************************************************************)
(* Writing a bundle                                                        *)
(***************************************************************************)
ClaimPath(c) == <<"claims", c>>
Index == <<"index", "md">>
SourceIndex == <<"sources", "source-index">>
HistoryLog == <<"history", "log">>

LinksOf(text) == (IF Has(text, "bad link") THEN {<<"missing">>} ELSE {})
                    \cup (IF Has(text, "link up") THEN {<<"escape">>} ELSE {})

NoFront == [form |-> "absent"]
PlainFile(links) == [kind |-> "file", name |-> "fine", size |-> "fine", utf8 |-> TRUE,
                     front |-> NoFront, content |-> <<"title", "word">>, links |-> links]

\* The body that leaves the ledger: withheld, masked, or as it is.
Withheld(text) == Has(text, "lure")
Redacted(text) == ~Withheld(text) /\ Has(text, "secret")
BodyOf(text) == IF Withheld(text) THEN <<"notice">> ELSE Mask(text)

\* The frontmatter; every date that may be set is.  Its provenance says who and whence.
Fields(row, rivals) ==
    {"id", "title", "tags", "status", "trusted", "scope", "confidence", "sources", "provenance",
     "valid_from", "valid_until", "learned_at", "last_verified_at"}
        \cup (IF row.by # {} THEN {"superseded_by"} ELSE {})
        \cup (IF rivals # {} THEN {"contradictions"} ELSE {})
        \cup (IF Withheld(row.text) \/ Redacted(row.text) THEN {"safety"} ELSE {})

\* _claim_doc.  row is [status, text, by], by being superseded_by as a set; boundary is what
\* stands between the body and the lists of links, the marker or, elsewhere, nothing.
Document(c, row, rivals, boundary) ==
    LET body == RStrip(BodyOf(row.text)) IN
    [PlainFile(LinksOf(body) \cup {SourceIndex}
                 \cup {ClaimPath(d) : d \in row.by \cup rivals}) EXCEPT
        !.front = [form |-> "map", version |-> "0.1", block |-> TRUE, id |-> c,
                   by |-> row.by, rivals |-> rivals, status |-> row.status,
                   says |-> <<"word">>, fields |-> Fields(row, rivals)],
        !.content = <<"title">> \o body \o boundary \o <<"heading", "word">>]

ClaimFile(c, row, rivals) == Document(c, row, rivals, <<"marker">>)

Rivals(c, pairs) == UNION {x \in pairs : c \in x} \ {c}

\* _select_claims; scope is the claims the scope filter admits.
Selected(request, rows, pairs) ==
    {c \in request.scope :
        /\ rows[c].status \in {"pending", "promoted"}
                                \cup (IF request.history THEN {"superseded"} ELSE {})
        /\ request.trustedOnly => rows[c].status = "promoted" /\ Rivals(c, pairs) = {}}

\* The plan of export_bundle.
Planned(request, rows, pairs) ==
    LET chosen == Selected(request, rows, pairs)
        paths == {ClaimPath(c) : c \in chosen} \cup {Index, SourceIndex}
                    \cup (IF request.history THEN {HistoryLog} ELSE {})
    IN [marker |-> "0.1", fits |-> TRUE,
        files |-> [p \in paths |->
            IF p[1] = "claims" THEN ClaimFile(p[2], rows[p[2]], Rivals(p[2], pairs))
            ELSE PlainFile(IF p = Index THEN paths \ {Index} ELSE {})]]

\* _self_validate: a link resolves if the file system has the file, in the bundle or not.
SelfCheck(b) ==
    \A p \in DOMAIN b.files : b.files[p].links \subseteq DOMAIN b.files \cup {<<"external">>, <<"escape">>}

(***************************************************************************)
(* Validating a bundle.  Which further issues are reported once a limit    *)
(* has stopped the walk is left out.                                       *)
(***************************************************************************)
VersionErrors(v) == CASE v \in {"0.1", "0.2"} -> {}      \* 0.2: a warning
                      [] v = "1.0" -> {"unsupported_version"}
                      [] v = "none" -> {"missing_field"}
                      [] v = "number" -> {"bad_field"}
                      [] v = "junk" -> {"bad_version"}
MarkerErrors(m) == CASE m = "absent" -> {"missing_marker"}
                     [] m \in {"no format", "none"} -> {"bad_marker"}
                     [] m = "bytes" -> {"invalid_encoding"}
                     [] OTHER -> VersionErrors(m)

\* _collect: file_set, and what the walk finds wrong.
Listed(b) == {p \in DOMAIN b.files : b.files[p].name = "fine" /\ b.files[p].kind = "file"}
WalkErrors(f) == IF f.name # "fine" THEN {"unsafe_filename"}
                 ELSE IF f.kind = "link outside" THEN {"symlink_escape"}
                 ELSE IF f.kind = "device" THEN {"unsafe_file_type"}
                 ELSE IF f.kind = "file" /\ f.size = "large" THEN {"file_too_large"} ELSE {}
FitErrors(b) == IF b.fits THEN {} ELSE {"too_many_files"}

Readable(f) == f.size = "fine" /\ f.utf8
ReadErrors(f) == IF f.size = "unreadable" THEN {"unreadable_file"}
                 ELSE IF f.size = "fine" /\ ~f.utf8 THEN {"invalid_encoding"} ELSE {}

\* _check_claim_front
HasId(front) == front.form = "map" /\ front.block /\ front.id # "none"
FrontErrors(front) == VersionErrors(front.version)
                        \cup (IF HasId(front) THEN {} ELSE {"missing_field"})

LinkErrors(f, there) ==
    {CASE l[1] = "absolute" -> "absolute_link" [] l[1] = "escape" -> "link_traversal"
       [] OTHER -> "broken_link" : l \in f.links \ (there \cup {<<"external">>})}

\* _check_document: a claim's document with no usable frontmatter is not looked at further.
DocErrors(p, f, there) ==
    LET claim == p[1] = "claims"
        form == CASE f.front.form = "open" -> {"malformed_frontmatter"}
                  [] f.front.form \in {"malformed", "scalar"} -> {"malformed_yaml"}
                  [] f.front.form = "absent" /\ claim -> {"missing_frontmatter"}
                  [] OTHER -> {}
    IN IF claim /\ form # {} THEN form
       ELSE form \cup LinkErrors(f, there) \cup (IF claim THEN FrontErrors(f.front) ELSE {})

Errors(b) ==
    LET there == Listed(b)
        docs == {p \in there : Readable(b.files[p])}
        named == {p \in docs : p[1] = "claims" /\ HasId(b.files[p].front)}
        ids == {b.files[p].front.id : p \in named}
        targets == UNION {b.files[p].front.by \cup b.files[p].front.rivals : p \in named}
    IN MarkerErrors(b.marker) \cup FitErrors(b)
         \cup UNION {WalkErrors(b.files[p]) : p \in DOMAIN b.files}
         \cup UNION {ReadErrors(b.files[p]) : p \in there}
         \cup UNION {DocErrors(p, b.files[p], there) : p \in docs}
         \cup (IF Cardinality(ids) < Cardinality(named) THEN {"duplicate_id"} ELSE {})
         \cup (IF \E t \in targets : t \notin ids /\ ClaimPath(t) \notin there
               THEN {"broken_relationship"} ELSE {})

Valid(b) == Errors(b) = {}

(***************************************************************************)
(* Reading a document back                                                 *)
(***************************************************************************)
ClaimDocs(b) == {p \in DOMAIN b.files : p[1] = "claims" /\ b.files[p].kind = "file"}

\* external_id
ExternalId(p, f) == IF HasId(f.front) THEN f.front.id ELSE p

\* _body_start, on a body that begins with its title
Untitled(text) == IF LStrip(text) # <<>> /\ LStrip(text)[1] = "title" THEN Tail(LStrip(text))
                  ELSE text

\* _extract_claim_text
ClaimText(content) == Strip(Untitled(IF Has(content, "marker") THEN Upto(content, "marker")
                                     ELSE Upto(content, "heading")))

\* What the candidate keeps of the body: create_checked stores the verdict's text, masked a
\* second time if the engines looked.  If the one that knows a secret did not, nothing marks
\* its place, and the text is stored as it came.
Kept(content, looked) == IF looked THEN Mask(ClaimText(content)) ELSE ClaimText(content)

\* _safe_frontmatter, _relationships: what of the frontmatter a candidate's metadata retains.
SafeKeys == {"status", "scope", "confidence", "trusted", "superseded_by", "contradictions",
             "provenance", "valid_from", "valid_until", "learned_at", "last_verified_at"}
Retained(front) == IF HasId(front) THEN front.fields \cap SafeKeys ELSE {}

\* _scan_retained, on the one field that is free text: masked, and dropped if not looked at.
Says(front) == IF HasId(front) THEN front.says ELSE <<>>
Scanned(front, read) == IF read THEN Mask(Says(front)) ELSE <<>>

\* A lure in the metadata quarantines as one in the body does, and so does a scan of either
\* that failed: looked is of the body, read of the metadata.
\* Mutant of Quarantined: the body decides alone.
QuarantinedByBody(f, looked, read) == Has(ClaimText(f.content), "lure") \/ ~looked

Quarantined(f, looked, read) ==
    \/ Has(ClaimText(f.content), "lure") \/ ~looked
    \/ Has(Says(f.front), "lure") \/ ~read

(***************************************************************************)
(* The round trip's report                                                 *)
(***************************************************************************)
Inside(x, text) == \E i \in 0 .. Len(text) : i + Len(x) <= Len(text) /\ SubSeq(text, i + 1, i + Len(x)) = x

\* FIELD_FIDELITY
Mapped == {"id", "scope", "confidence", "provenance", "valid_from", "valid_until",
           "learned_at", "last_verified_at"}
Governed == {"status", "trusted", "superseded_by", "contradictions", "safety"}
Fidelity ==
    [f \in {"body", "tags", "sources", "title"} \cup Mapped \cup Governed |->
        CASE f \in {"body", "tags"} -> "exactly-preserved"
          [] f \in Mapped           -> "mapped"
          [] f \in Governed         -> "governance-only"
          [] f = "sources"          -> "lossy"
          [] f = "title"            -> "intentionally-omitted"]
Recoverable == DOMAIN Fidelity \ {"sources", "safety"}

\* The fields of a document that are to be found again in the candidate; its title is
\* derived from the body again.  Of what is retained a failed scan leaves what is no string.
Recovered(f, read) == {"id", "tags", "title"}
                         \cup (IF read THEN Retained(f.front) ELSE Retained(f.front) \cap {"trusted"})

\* _body_degradation_reason
Degradation(original, imported) ==
    IF Has(original, "heading") THEN "truncated-at-embedded-heading"
    ELSE IF Strip(original) # <<>> /\ Inside(Strip(original), imported) THEN "normalized"
    ELSE "not-byte-preserved"

\* Mutant of BodyClass: what is neither withheld nor redacted is taken to survive.
BodyClassAssumed(original, imported) ==
    IF Withheld(original) THEN <<"intentionally-omitted", "withheld-by-safety">>
    ELSE IF Redacted(original) THEN <<"lossy", "masked-by-safety">>
    ELSE <<"exactly-preserved", "byte-for-byte">>

\* _compare, for one claim
BodyClass(original, imported) ==
    IF Withheld(original) THEN <<"intentionally-omitted", "withheld-by-safety">>
    ELSE IF Redacted(original) THEN <<"lossy", "masked-by-safety">>
    ELSE IF Inside(original, imported) THEN <<"exactly-preserved", "byte-for-byte">>
    ELSE <<"lossy", Degradation(original, imported)>>

\* _reconcile_body_fidelity
Effective(report) ==
    IF \E c \in DOMAIN report : report[c].class = "lossy" /\ report[c].reason # "masked-by-safety"
    THEN "lossy" ELSE "exactly-preserved"
=============================================================================
