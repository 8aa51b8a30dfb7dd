------------------------------ MODULE MCReaders ------------------------------
(***************************************************************************)
(* TLC instance of the ways out of the ledger: OKF bundles and their YAML, *)
(* recall, and the safety scan.  They share no state here, so each         *)
(* behaviour plays one of four scenes and leaves the variables of the      *)
(* other modules alone.                                                    *)
(***************************************************************************)
EXTENDS Readers, Formats, Rulesets, Profiles

CONSTANTS s1, s2, x1, x2,              \* OKF: sessions and claims
          c1, c2, d1, d2, d3           \* recall

VARIABLE scene

-----------------------------------------------------------------------------
(***************************************************************************)
(* Bundles and YAML                                                        *)
(***************************************************************************)
TwoSessions == {s1, s2}
TwoIds == {x1, x2}
Plain == <<"word">>
Texted(t) == [c \in Ids |-> IF c = x1 THEN t ELSE Plain]
SomeTexts == {Texted(t) : t \in
    {Plain, <<"word", "blank">>, <<"word", "heading", "word">>, <<"word", "marker", "word">>,
     <<"secret", "blank">>, <<"lure", "word">>, <<"title", "word">>, <<"blank", "title", "word">>,
     <<"word", "bad link">>, <<"word", "link up">>}}

SomeExports == {[scope |-> Ids, trustedOnly |-> FALSE, history |-> TRUE],
                 [scope |-> {x1}, trustedOnly |-> TRUE, history |-> FALSE]}

\* Somebody else's bundle: two documents without a marker line, and one thing wrong at a time.
Doc(c, more) == [Document(c, [status |-> "promoted", text |-> Plain, by |-> {}], {}, <<>>)
                   EXCEPT !.links = more]
Theirs == [marker |-> "0.2", fits |-> TRUE,
           files |-> (ClaimPath(x1) :> Doc(x1, {}) @@ ClaimPath(x2) :> Doc(x2, {ClaimPath(x1), <<"external">>}))]
WithFront(new) == [Theirs EXCEPT !.files[ClaimPath(x1)].front = new]
WithFile(new) == [Theirs EXCEPT !.files[ClaimPath(x1)] = new]
Old == Theirs.files[ClaimPath(x1)]
SomeForeign ==
    {Theirs, [Theirs EXCEPT !.fits = FALSE], WithFile([Old EXCEPT !.name = "bidi"])}
    \cup {[Theirs EXCEPT !.marker = m] : m \in {"absent", "no format", "none", "bytes", "1.0", "junk"}}
    \cup {WithFile([Old EXCEPT !.kind = k]) : k \in {"link inside", "link outside", "device"}}
    \cup {WithFile([Old EXCEPT !.size = z]) : z \in {"large", "unreadable"}}
    \cup {WithFile([Old EXCEPT !.utf8 = FALSE])}
    \cup {WithFile([Old EXCEPT !.links = {<<l>>}]) : l \in {"absolute", "escape", "missing"}}
    \cup {WithFront([form |-> f]) : f \in {"absent", "open", "malformed", "scalar"}}
    \cup {WithFront([Old.front EXCEPT !.version = v]) : v \in {"none", "number", "junk", "1.0"}}
    \cup {WithFront([Old.front EXCEPT !.block = FALSE]), WithFront([Old.front EXCEPT !.id = "none"]),
          WithFront([Old.front EXCEPT !.id = x2]), WithFront([Old.front EXCEPT !.by = {"nobody"}]),
          WithFront([Old.front EXCEPT !.rivals = {x2}])}
    \cup {WithFront([Old.front EXCEPT !.says = <<x>>]) : x \in {"secret", "lure"}}
    \cup {WithFile([Old EXCEPT !.content = <<"title", "lure", "secret">>])}

Chars == {"n", "x", "quote", "backslash", "newline", "control"}
SomeStrings == BoundedSeq(Chars, 3)
Claim(title, rest) == Map(<< <<"title", Str(title)>>, <<"brainconnect", Map(<< <<"id", Str(<<"n">>)>>,
                              <<"trusted", Bare("true")>> >> \o rest)>> >>)
Source == Map(<< <<"id", Str(<<"n">>)>>, <<"title", Str(<<"backslash">>)>> >>)
AFinding == Map(<< <<"rule", Str(<<>>)>>, <<"span", List(<<Bare("0"), Bare("4")>>)>> >>)
Vetting == Map(<< <<"decision", Str(<<"x">>)>>, <<"kinds", List(<<Str(<<"n">>), Str(<<"x">>)>>)>>,
                 <<"findings", List(<<AFinding, AFinding>>)>> >>)
Parts == {<<"sources", List(<<>>)>>, <<"sources", List(<<Source, Source>>)>>,
          <<"contradictions", List(<<Str(<<"n">>)>>)>>, <<"provenance", Map(<< <<"origin", Bare("null")>> >>)>>,
          <<"provenance", Map(<<>>)>>, <<"safety", Vetting>>}
SomeFronts == {Claim(t, <<>>) : t \in SomeStrings}
              \cup {Claim(<<"n">>, <<p[1], p[2]>>) : p \in {q \in Parts \X Parts : q[1][1] # q[2][1]}}

RECURSIVE PartsOf(_), Deep(_)
PartsOf(v) == {v} \cup IF v.type = "map" THEN UNION {PartsOf(v.pairs[i][2]) : i \in DOMAIN v.pairs}
                       ELSE IF v.type = "list" THEN UNION {PartsOf(w) : w \in Range(v.items)} ELSE {}
Deep(v) == IF v.type = "map" THEN 1 + Max({0} \cup {Deep(v.pairs[i][2]) : i \in DOMAIN v.pairs})
           ELSE IF v.type = "list" THEN 1 + Max({0} \cup {Deep(w) : w \in Range(v.items)}) ELSE 0
SomeValues == UNION {PartsOf(v) : v \in SomeFronts}
SomeNesting == [v \in SomeValues |-> Deep(v)]

(***************************************************************************)
(* Recall                                                                  *)
(***************************************************************************)
TwoClaims == {c1, c2}
RepoScope == <<"repo", "app">>
RepoAndGlobal ==
    c1 :> [scope |-> RepoScope, tags |-> {"constraint"}, label |-> "none", confidence |-> 85] @@
    c2 :> [scope |-> <<"global", "">>, tags |-> {}, label |-> "medium", confidence |-> 0]
Mixed == c1 :> "plain" @@ c2 :> "secret" @@ d1 :> "plain" @@ d2 :> "secret" @@ d3 :> "lure"

Raw(id, order, eligible, label, score) ==
    [id |-> id, order |-> order, eligible |-> eligible, label |-> label, score |-> score,
     identified |-> TRUE]
SomeItems == {Raw(d1, 1, "true", "omitted", 1), Raw(d2, 2, "truthy", "trusted", 1),
              Raw(d3, 3, "true", "trusted", 2)}

Asking(trustedOnly, pending, superseded, scopes, profile, max) ==
    [trustedOnly |-> trustedOnly, pending |-> pending, superseded |-> superseded,
     scopes |-> scopes, profile |-> profile, max |-> max]
SomeRecalls ==
    {Asking(TRUE, FALSE, FALSE, {}, "manager_brief", 2),
     Asking(TRUE, FALSE, FALSE, {RepoScope}, "implementation_constraints", 1),
     Asking(FALSE, TRUE, FALSE, {RepoScope, External}, "manager_brief", 2),
     Asking(FALSE, FALSE, TRUE, {}, "manager_brief", 1),
     Asking(TRUE, FALSE, TRUE, {}, "manager_brief", 2)}

(***************************************************************************)
(* Scans                                                                   *)
(***************************************************************************)
Switch(enabled, required) == [enabled |-> enabled, required |-> required]
Off == Switch(FALSE, FALSE)

Settings(detect, hog) ==
    [[e \in Engines |-> Off] EXCEPT !["baseline"] = Switch(TRUE, TRUE),
                                    !["detect_secrets"] = detect, !["trufflehog"] = hog]

Configs ==
    {[on |-> TRUE, maxChars |-> 4, settings |-> Settings(d, h)] :
        d \in {Switch(TRUE, FALSE), Switch(TRUE, TRUE)},
        h \in {Off, Switch(TRUE, FALSE), Switch(TRUE, TRUE), Switch(FALSE, TRUE)}}
      \cup {[on |-> FALSE, maxChars |-> 4, settings |-> Settings(Off, Off)]}

Match(rule, from, to) == [rule |-> rule, from |-> from, to |-> to]
Blob(payload) == [rule |-> "blob", from |-> 0, to |-> 1, payload |-> payload]
Suspect(rule, from, to, random) ==
    [rule |-> rule, from |-> from, to |-> to, long |-> TRUE, random |-> random, found |-> TRUE]

Baseline ==
    {{}, {Match("generic_assignment", 0, 4), Match("aws_access_key", 1, 2)},
     {Match("email", 2, 3), Match("ipv4", 0, 1), Match("phone", 0, 3)},
     {Match("ignore_instructions", 0, 1), Match("jwt", 3, 5)},
     {Match("tool_directive", 0, 2), Match("percent_run", 1, 4), Blob({})},
     {Blob({"dev_mode"})}, {Blob({"ignore_instructions", "code_execution"})}}
Detect == {{}, {Suspect("entropy", 1, 3, TRUE)}, {Suspect("entropy", 1, 3, FALSE)},
           {[Suspect("live_key", 2, 3, TRUE) EXCEPT !.found = FALSE]}}
Hog == {{}, {Match("verified", 0, 2)}}

AnyScans ==
    {[surface |-> s, config |-> c, length |-> n,
      health |-> [[e \in Engines |-> "absent"] EXCEPT
                     !["baseline"] = hb, !["detect_secrets"] = hd, !["trufflehog"] = "ready"],
      found |-> [[e \in Engines |-> {}] EXCEPT
                    !["baseline"] = f, !["detect_secrets"] = d, !["trufflehog"] = t]] :
        s \in Surfaces, c \in Configs, n \in {4, 5}, t \in Hog,
        hb \in {"ready", "raises"}, hd \in {"ready", "absent", "slow"},
        f \in Baseline, d \in Detect}
SomeScans == {r \in AnyScans : \A m \in r.found["baseline"] : m.to <= r.length}

(***************************************************************************)
(* The scenes                                                              *)
(***************************************************************************)
Asleep == Bare("nothing")
yamlVars == <<written, readBack>>

\* Foreign bundles and many texts need not meet.
MCInit ==
    /\ Init /\ Recall!Init
    /\ \/ scene = "bundle" /\ (out = None \/ text = Texted(Plain))
       \/ scene \in {"recall", "scan", "yaml"} /\ out = None /\ text = Texted(Plain)
    /\ IF scene = "scan" THEN SafetyScan!Init ELSE request = Asleep /\ verdict = SafetyScan!None
    /\ IF scene = "yaml" THEN FormatsInit ELSE written = Asleep /\ readBack = NotYet

MCNext ==
    /\ UNCHANGED scene
    /\ \/ scene = "bundle" /\ Next /\ BundlesAlone /\ UNCHANGED yamlVars
       \/ scene = "recall" /\ Recall!Next /\ RecallAlone /\ UNCHANGED yamlVars
       \/ scene = "scan" /\ SafetyScan!Next /\ ScanAlone /\ UNCHANGED yamlVars
       \/ scene = "yaml" /\ FormatsNext /\ UNCHANGED readersVars

MCSpec == MCInit /\ [][MCNext]_<<scene, readersVars, yamlVars>>

\* Sessions are interchangeable.
Symmetry == Permutations(TwoSessions)
=============================================================================
