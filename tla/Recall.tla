------------------------------- MODULE Recall -------------------------------
(***************************************************************************)
(* The read door (recall.py): one recall over a ledger that others write.  *)
(*                                                                         *)
(* recall() never opens a transaction: the search, the claims' rows, the   *)
(* open contradictions and the supersessions are read in autocommit, one   *)
(* after the other, and review commits in between.  What it has read so    *)
(* far is kept in `call`.  The pack is then scanned (module Safety) and    *)
(* filled up with what Decima offers (federation.py).                      *)
(***************************************************************************)
EXTENDS Safety, Profiles

CONSTANTS Claims,
          Columns,      \* of a claim: scope, tags, label, confidence
          Content,      \* what a claim's or an item's text holds
          Foreign,      \* the items Decima may offer: records, see Normalize
          Requests      \* what callers ask for; max_items is theirs or the profile's

\* What callers and texts are like.
RecallGiven ==
    /\ IsFiniteSet(Claims) /\ IsFiniteSet(Foreign)
    /\ \A id \in Claims \cup {f.id : f \in Foreign} : Content[id] \in {"plain", "secret", "lure"}
    /\ \A r \in Requests : r.max \in Nat \ {0}

VARIABLES
    status,       \* claims.status, "absent" where there is no row
    open,         \* the open contradictions, sets of two claims
    replaced,     \* supersessions: pairs <<old, new>>
    decima,       \* the memo of default_backend: "unresolved", "off" or "on"
    call,         \* the recall in progress
    promotedOnce, \* history: the claims that were promoted at some moment of the call,
    clearOnce     \* and those in no open contradiction at some moment of it

ledger == <<status, open, replaced>>
history == <<promotedOnce, clearOnce>>
vars == <<ledger, decima, call, history>>

Idle == [at |-> "idle"]

Init ==
    /\ status = [c \in Claims |-> "absent"]
    /\ open = {} /\ replaced = {}
    /\ decima = "unresolved"
    /\ call = Idle
    /\ promotedOnce = {} /\ clearOnce = {}

DisputedIn(pairs) == UNION pairs
PromotedIn(st) == {c \in Claims : st[c] = "promoted"}

\* Each commit is a moment of the call in progress.
Moment ==
    /\ promotedOnce' = promotedOnce \cup PromotedIn(status')
    /\ clearOnce' = clearOnce \cup (Claims \ DisputedIn(open'))

(***************************************************************************)
(* The writers, one transaction each (module ClaimLedger has their steps)  *)
(***************************************************************************)
Writer == Moment /\ UNCHANGED <<decima, call>>

\* file_claims_data: a claim of opposite polarity opens a contradiction.
File(c) ==
    /\ status[c] = "absent"
    /\ status' = [status EXCEPT ![c] = "pending"]
    /\ \E against \in SUBSET PromotedIn(status) : open' = open \cup {{c, d} : d \in against}
    /\ UNCHANGED replaced /\ Writer

\* A refile takes the pending claims of its source away, with their contradictions.
Refile(c) ==
    /\ status[c] = "pending"
    /\ \A p \in replaced : c \notin {p[1], p[2]}
    /\ status' = [status EXCEPT ![c] = "absent"]
    /\ open' = {p \in open : c \notin p}
    /\ UNCHANGED replaced /\ Writer

Promote(c) ==
    /\ status[c] = "pending"
    /\ status' = [status EXCEPT ![c] = "promoted"]
    /\ UNCHANGED <<open, replaced>> /\ Writer

Reject(c) ==
    /\ status[c] \in {"pending", "promoted"}
    /\ status' = [status EXCEPT ![c] = "rejected"]
    /\ UNCHANGED <<open, replaced>> /\ Writer

Supersede(old, new) ==
    /\ old # new /\ status[old] # "absent" /\ status[new] # "absent"
    /\ status' = [status EXCEPT ![old] = "superseded",
                                ![new] = IF @ = "pending" THEN "promoted" ELSE @]
    /\ replaced' = replaced \cup {<<old, new>>}
    /\ UNCHANGED open /\ Writer

Resolve(pair) ==
    /\ pair \in open
    /\ open' = open \ {pair}
    /\ UNCHANGED <<status, replaced>> /\ Writer

Ledger ==
    \/ \E c \in Claims : File(c) \/ Refile(c) \/ Promote(c) \/ Reject(c)
    \/ \E c, d \in Claims : Supersede(c, d)
    \/ \E pair \in open : Resolve(pair)

(***************************************************************************)
(* Reading                                                                 *)
(***************************************************************************)
Step(record) == call' = record /\ UNCHANGED <<ledger, history>>

\* _allowed_statuses; nothing sets the status "contradicted".
Allowed(req) == {"promoted"} \cup (IF req.pending THEN {"pending"} ELSE {})
                             \cup (IF req.superseded THEN {"superseded"} ELSE {})

\* backend.search: ids in rank order.  Only "promoted alone" is pushed down.
Search(req) ==
    /\ call = Idle
    /\ \E found \in SUBSET {c \in Claims : IF Allowed(req) = {"promoted"}
                                           THEN status[c] = "promoted"
                                           ELSE status[c] # "absent"} :
       \E ids \in SetToSeqs(found) :
          call' = [at |-> IF ids = <<>> THEN "scanned" ELSE "nominated", req |-> req,
                   ids |-> ids, items |-> <<>>, warned |-> {}]
    /\ promotedOnce' = PromotedIn(status)
    /\ clearOnce' = Claims \ DisputedIn(open)
    /\ UNCHANGED <<ledger, decima>>

ReadRows ==
    /\ call.at = "nominated"
    /\ Step([at |-> "read", req |-> call.req, ids |-> call.ids, items |-> <<>>, warned |-> {},
             rows |-> [c \in {x \in ToSet(call.ids) : status[x] # "absent"} |-> status[c]]])
    /\ UNCHANGED decima

\* _open_contradiction_ids
ReadDisputes ==
    /\ call.at = "read"
    /\ Step([at |-> "disputes", req |-> call.req, ids |-> call.ids, items |-> <<>>, warned |-> {},
             rows |-> call.rows, disputed |-> DisputedIn(open) \cap DOMAIN call.rows])
    /\ UNCHANGED decima

InScope(c, req) == Matches(Columns[c].scope, req.scopes)
Fits(c, req) == Accepts(Profiles[req.profile], Columns[c])

\* The tests of the loop, in its order.  NEVER_RECALLED statuses go first.
\* Mutant of Fate: a disputed claim is shown, labelled, to everybody.
FateLabelled(c, k) ==
    IF c \notin DOMAIN k.rows THEN "gone"
    ELSE IF k.rows[c] = "rejected" THEN "never"
    ELSE IF k.rows[c] = "superseded" /\ ~k.req.superseded THEN "superseded"
    ELSE IF k.rows[c] \notin Allowed(k.req) THEN "status"
    ELSE IF ~InScope(c, k.req) THEN "scope"
    ELSE IF ~Fits(c, k.req) THEN "profile"
    ELSE "kept"

Fate(c, k) ==
    IF c \notin DOMAIN k.rows THEN "gone"
    ELSE IF k.rows[c] = "rejected" THEN "never"
    ELSE IF k.rows[c] = "superseded" /\ ~k.req.superseded THEN "superseded"
    ELSE IF c \in k.disputed /\ k.req.trustedOnly THEN "disputed"
    ELSE IF k.rows[c] \notin Allowed(k.req) THEN "status"
    ELSE IF ~InScope(c, k.req) THEN "scope"
    ELSE IF ~Fits(c, k.req) THEN "profile"
    ELSE "kept"

Item(c, k) == [id |-> c, status |-> k.rows[c], disputed |-> c \in k.disputed,
               trusted |-> IsTrusted(k.rows[c], c \in k.disputed), masked |-> {}]

\* What of seq is in S, in its order.
Only(seq, S) ==
    LET only[n \in 0 .. Len(seq)] ==
            IF n = 0 THEN <<>>
            ELSE IF seq[n] \in S THEN Append(only[n - 1], seq[n]) ELSE only[n - 1]
    IN only[Len(seq)]

\* The loop stops once the pack is full: what comes later is not looked at.
KeptOf(seq, k) == Only(seq, {c \in Claims : Fate(c, k) = "kept"})
Examined(k) ==
    LET full == {n \in DOMAIN k.ids : Len(KeptOf(SubSeq(k.ids, 1, n), k)) = k.req.max}
    IN IF full = {} THEN k.ids
       ELSE SubSeq(k.ids, 1, CHOOSE n \in full : \A m \in full : n <= m)

\* Mutant of Announced: the disputed claims are dropped without a word.
AnnouncedUndisputed(k, shown, pairs) ==
    {Fate(c, k) : c \in ToSet(Examined(k))} \cap {"superseded", "scope", "profile"}

\* The warnings: what was dropped, and the older claims that the kept ones replaced.
Announced(k, shown, pairs) ==
    ({Fate(c, k) : c \in ToSet(Examined(k))} \cap {"superseded", "disputed", "scope", "profile"})
      \cup {"superseded" : p \in {x \in pairs : x[2] \in shown /\ ~k.req.superseded}}
      \cup {"pending" : c \in {x \in shown : k.rows[x] = "pending"}}
      \cup {"contradicted" : c \in shown \cap k.disputed}

Assemble ==
    /\ call.at = "disputes"
    /\ LET kept == KeptOf(Examined(call), call) IN
       Step([at |-> "assembled", req |-> call.req, ids |-> call.ids, rows |-> call.rows,
             items |-> [n \in DOMAIN kept |-> Item(kept[n], call)],
             warned |-> Announced(call, ToSet(kept), replaced)])
    /\ UNCHANGED decima

(***************************************************************************)
(* The safety pass                                                         *)
(***************************************************************************)
OnlyBaseline == [on |-> TRUE, maxChars |-> 2,
                 settings |-> [e \in Engines |-> [enabled |-> e = "baseline",
                                                  required |-> e = "baseline"]]]

HitsIn(content) ==
    CASE content = "plain"  -> {}
      [] content = "secret" -> {[capability |-> "secrets", severity |-> "high", from |-> 0, to |-> 1]}
      [] content = "lure"   -> {[capability |-> "prompt_injection", severity |-> "high", from |-> 0, to |-> 1]}

Verdict(id, failing) ==
    Scan("memory_recall", OnlyBaseline,
         [e \in Engines |-> IF id \in failing THEN "raises" ELSE "ready"],
         [e \in Engines |-> HitsIn(Content[id])], 1)

\* Mutant of Handed: an item is withheld only when policy blocks it.
HandedUnlessBlocked(item, failing) == Verdict(item.id, failing).decision # "block"

Handed(item, failing) == ~AtLeast(Verdict(item.id, failing).decision, "quarantine")

\* _safety: per item, never per pack.
Safe(items, failing) ==
    LET kept == Only(items, {i \in ToSet(items) : Handed(i, failing)})
    IN [n \in DOMAIN kept |-> [kept[n] EXCEPT !.masked = Verdict(kept[n].id, failing).masked]]

Withheld(items, failing) ==
    {"withheld" : i \in {x \in ToSet(items) : ~Handed(x, failing)}}

SafetyPass ==
    /\ call.at = "assembled"
    /\ \E failing \in SUBSET {i.id : i \in ToSet(call.items)} :
          Step([call EXCEPT !.at = "scanned", !.items = Safe(call.items, failing),
                            !.warned = @ \cup Withheld(call.items, failing)])
    /\ UNCHANGED decima

(***************************************************************************)
(* Federation                                                              *)
(***************************************************************************)
\* normalize(): eligible only when the bit is a real True and the label, if any, agrees.
\* Mutant of Normalize: any truthy bit will do.
NormalizeTruthy(f) == [id |-> f.id, trusted |-> f.eligible # "no" /\ f.label # "other"]

Normalize(f) == [id |-> f.id, trusted |-> f.eligible = "true" /\ f.label # "other"]

\* federate(): what was read of the source, ranked by score and then id.  Items without
\* an id or a matching token are passed over.
Above(f, g) == f.score > g.score \/ (f.score = g.score /\ f.order < g.order)
Rankings(read) ==
    {seq \in SetToSeqs({f \in read : f.identified /\ f.score > 0}) :
        \A i, j \in DOMAIN seq : i < j => ~Above(seq[j], seq[i])}

FromDecima(f) ==
    LET normal == Normalize(f)
    IN [id |-> normal.id, status |-> "federated", disputed |-> FALSE,
        trusted |-> normal.trusted, masked |-> {}]

\* The first n of them, of which the untrusted ones are left out of a default pack.
Best(ranked, n, k) ==
    LET top == SubSeq(ranked, 1, IF Len(ranked) < n THEN Len(ranked) ELSE n)
        items == [m \in DOMAIN top |-> FromDecima(top[m])]
    IN Only(items, {i \in ToSet(items) : ~k.req.trustedOnly \/ i.trusted})

\* Mutant of Offered: the limit is the pack's, whatever it already holds.
OfferedFully(ranked, k) == Best(ranked, k.req.max, k)

Offered(ranked, k) == Best(ranked, k.req.max - Len(k.items), k)

\* A scoped recall must name external:decima.
Admits(req) == req.scopes = {} \/ External \in req.scopes

\* The source is resolved once, failure included.  It may raise, and may raise halfway.
Federate ==
    /\ call.at = "scanned"
    /\ decima' \in IF Admits(call.req) /\ decima = "unresolved" THEN {"off", "on"} ELSE {decima}
    /\ IF Admits(call.req) /\ decima' = "on" /\ Len(call.items) < call.req.max
       THEN \E read \in SUBSET Foreign : \E ranked \in Rankings(read) :
            LET offered == Offered(ranked, call)
            IN \E failing \in SUBSET {i.id : i \in ToSet(offered)} :
               LET safe == Safe(offered, failing)
               IN Step([call EXCEPT !.at = "done", !.items = @ \o safe,
                           !.warned = @ \cup Withheld(offered, failing)
                                        \cup {"federated" : i \in ToSet(offered)}])
       ELSE Step([call EXCEPT !.at = "done"])

Return == call.at = "done" /\ Step(Idle) /\ UNCHANGED decima

Recall == \/ \E req \in Requests : Search(req)
          \/ ReadRows \/ ReadDisputes \/ Assemble \/ SafetyPass \/ Federate \/ Return

Next == Recall \/ Ledger

Spec == Init /\ [][Next]_vars

-----------------------------------------------------------------------------
Native == IF call.at = "done" THEN {i \in ToSet(call.items) : i.status # "federated"} ELSE {}
ByDefault == call.req.trustedOnly /\ ~call.req.pending /\ ~call.req.superseded

\* recall.py: whatever commits while recall reads, a claim it calls trusted was promoted at some
\* moment of the call and in no open contradiction at some moment of it, lies in the
\* caller's scope; unless the caller asks for pending or superseded claims too, nothing else
\* is in the pack.
NativeIsVetted ==
    \A i \in Native :
        /\ i.trusted => i.id \in promotedOnce \cap clearOnce
        /\ ByDefault => i.trusted
        /\ \/ Columns[i.id].scope[1] = "global"
           \/ Columns[i.id].scope \in call.req.scopes
        /\ Fits(i.id, call.req)

\* federation.py: the pack keeps its bound, nothing foreign enters a recall scoped to
\* something else, and a foreign item is trusted only on a real True with an agreeing label.
ForeignIsBounded ==
    call.at = "done" =>
        /\ Len(call.items) <= call.req.max
        /\ \A i \in ToSet(call.items) : i.status = "federated" =>
              /\ call.req.scopes # {} => External \in call.req.scopes
              /\ call.req.trustedOnly => i.trusted
              /\ i.trusted => \E f \in Foreign : f.id = i.id /\ f.eligible = "true"
                                                           /\ f.label # "other"

\* recall.py, federation.py: what is handed over is what the caller may have, of the
\* ledger's own claims and of foreign items.
PackIsVetted == NativeIsVetted /\ ForeignIsBounded

\* Whatever engine fails and whoever the text comes from: no lure is handed over, and
\* of a secret every character is masked.
NothingUnsafeIsHandedOver ==
    call.at = "done" =>
        \A i \in ToSet(call.items) :
            /\ Content[i.id] # "lure"
            /\ Content[i.id] = "secret" => i.masked = {0}

\* A claim that was nominated, of record and not handed over leaves a warning, unless
\* the pack was already full when its turn came.
OmissionsAreAnnounced ==
    call.at = "done" /\ call.ids # <<>> =>
        \A c \in DOMAIN call.rows :
            call.rows[c] = "promoted" /\ c \notin {i.id : i \in Native} =>
               \/ call.warned \cap {"disputed", "scope", "profile", "withheld"} # {}
               \/ Len(call.items) >= call.req.max

=============================================================================
