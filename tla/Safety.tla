------------------------------- MODULE Safety -------------------------------
(***************************************************************************)
(* The safety pipeline (safety/): which engines look at a text for a       *)
(* surface, how each one ends, what policy makes of their findings, and    *)
(* which characters come back masked.                                      *)
(*                                                                         *)
(* A text is its length; what an engine would see in it is a set of hits,  *)
(* a capability, a severity and a span [from, to).  A span with            *)
(* from = to locates nothing.                                              *)
(***************************************************************************)
EXTENDS Naturals, Sequences, FiniteSets, SequencesExt

RiskLevels == <<"low", "medium", "high", "critical">>
DecisionOrder == <<"allow", "warn", "redact", "quarantine", "block">>
Decisions == ToSet(DecisionOrder)

RankIn(order, x) == CHOOSE n \in DOMAIN order : order[n] = x
AtLeast(a, b) == RankIn(DecisionOrder, a) >= RankIn(DecisionOrder, b)

Strongest(ds) == IF ds = {} THEN "allow"
                 ELSE CHOOSE d \in ds : \A e \in ds : AtLeast(d, e)

CategoryOf == [secrets |-> "secret", source_or_repository_secrets |-> "secret",
               pii |-> "pii", prompt_injection |-> "prompt_injection",
               tool_control |-> "tool_instruction", encoded_content |-> "encoding"]

(***************************************************************************)
(* Policy: a table from (kind, severity) to a decision, per surface        *)
(***************************************************************************)
Cheap == DOMAIN CategoryOf \ {"source_or_repository_secrets"}

Row(low, medium, rest) ==
    [low |-> low, medium |-> medium, high |-> rest, critical |-> rest]
Uniform(d) == Row(d, d, d)

\* Capture and recall have the same table.
MaskingRules ==
    [secret |-> Uniform("redact"),
     pii |-> Row("warn", "redact", "redact"),
     scanner_error |-> Row("warn", "quarantine", "quarantine"),
     prompt_injection |-> Row("warn", "warn", "quarantine"),
     tool_instruction |-> Row("warn", "warn", "quarantine"),
     encoding |-> Row("warn", "warn", "quarantine")]

PromotionRules ==
    [secret |-> Row("warn", "block", "block"),
     pii |-> Uniform("warn"),
     scanner_error |-> Row("warn", "block", "block"),
     prompt_injection |-> Row("warn", "warn", "block"),
     tool_instruction |-> Row("warn", "warn", "block"),
     encoding |-> Row("warn", "warn", "block")]

Policies ==
    [memory_candidate |-> [capabilities |-> Cheap, rules |-> MaskingRules],
     memory_recall |-> [capabilities |-> Cheap, rules |-> MaskingRules],
     memory_promotion |-> [capabilities |-> DOMAIN CategoryOf, rules |-> PromotionRules]]

Surfaces == DOMAIN Policies
PolicyRequired == {"baseline"}

Decide(surface, kind, severity) == Policies[surface].rules[kind][severity]

(***************************************************************************)
(* Engines                                                                 *)
(***************************************************************************)
Offers == [baseline |-> Cheap,
           detect_secrets |-> {"secrets"},
           presidio |-> {"pii"},
           prompt_guard |-> {"prompt_injection"},
           trufflehog |-> {"source_or_repository_secrets"},
           gitleaks |-> {"source_or_repository_secrets"}]
Engines == DOMAIN Offers

\* configuration.load: `settings` gives each engine [enabled, required].  A required
\* engine that is disabled, or a baseline that is, is refused before any scan.
Loadable(on, settings) ==
    /\ \A e \in DOMAIN settings : settings[e].required => settings[e].enabled
    /\ on => settings["baseline"].enabled

\* How one engine ends: `health` is what available() and scan() do now.
Outcome(surface, set, e, health) ==
    IF ~set.enabled THEN "disabled"
    ELSE IF Offers[e] \cap Policies[surface].capabilities = {} THEN "skipped"
    ELSE CASE health = "ready"  -> "ok"
           [] health = "absent" -> "unavailable"
           [] health = "slow"   -> "timeout"
           [] OTHER             -> "failed"

Broke == {"failed", "timeout"}

(***************************************************************************)
(* The pipeline                                                            *)
(***************************************************************************)
Finding(e, kind, severity, from, to) ==
    [engine |-> e, kind |-> kind, severity |-> severity, from |-> from, to |-> to]

\* Mutant of ErrorFindings: only an engine that broke is reported.
ErrorFindingsOfBroken(required, outcome) ==
    {Finding(e, "scanner_error", IF e \in required THEN "critical" ELSE "low", 0, 0) :
        e \in {x \in DOMAIN outcome : outcome[x] \in Broke}}

\* A required engine that did not end `ok` is critical, an optional one that broke low.
ErrorFindings(required, outcome) ==
    {Finding(e, "scanner_error", "critical", 0, 0) :
        e \in {x \in required : outcome[x] # "ok"}} \cup
    {Finding(e, "scanner_error", "low", 0, 0) :
        e \in {x \in DOMAIN outcome \ required : outcome[x] \in Broke}}

\* redaction.merge_spans: the spans are sorted by start, longest first, and overlapping ones
\* joined.  A span is a pair <<from, to>>.
Spans(findings) == {<<f.from, f.to>> : f \in {x \in findings : x.to > x.from}}
Precedes(p, q) == p[1] < q[1] \/ (p[1] = q[1] /\ p[2] > q[2])
InOrder(spans) ==
    CHOOSE seq \in SetToSeqs(spans) : \A i, j \in DOMAIN seq : i < j => Precedes(seq[i], seq[j])

\* Mutant of Joined: the end of the later span is taken.
JoinedShort(merged, span) ==
    IF merged # <<>> /\ span[1] < Last(merged)[2]
    THEN Append(Front(merged), <<Last(merged)[1], span[2]>>)
    ELSE Append(merged, span)

Joined(merged, span) ==
    IF merged # <<>> /\ span[1] < Last(merged)[2]
    THEN Append(Front(merged), <<Last(merged)[1],
                                 IF span[2] > Last(merged)[2] THEN span[2] ELSE Last(merged)[2]>>)
    ELSE Append(merged, span)

MergeSpans(findings) ==
    LET ordered == InOrder(Spans(findings))
        merged[n \in 0 .. Len(ordered)] ==
            IF n = 0 THEN <<>> ELSE Joined(merged[n - 1], ordered[n])
    IN merged[Len(ordered)]

\* redaction.redact: the masked characters.
Masked(findings) ==
    UNION {s[1] .. (s[2] - 1) : s \in ToSet(MergeSpans(findings))}

\* Mutant of Window: the whole text is scanned, however long.
WholeText(length, max) == length

\* What lies past max_text_chars reaches no engine.
Window(length, max) == IF length > max THEN max ELSE length

\* What the engines that ended `ok` add: their hits in the window, of the kinds that the
\* surface's policy asks about.
SeenBy(e, surface, hits, window) ==
    {f \in {Finding(e, CategoryOf[h.capability], h.severity, h.from, h.to) :
               h \in {x \in hits[e] : x.to <= window}} :
        f.kind \in {CategoryOf[c] : c \in Policies[surface].capabilities}}
SeenByAll(engines, surface, hits, window) ==
    UNION {SeenBy(e, surface, hits, window) : e \in engines}

\* The tail that no engine was given.
Unread(length, window) ==
    IF length > window THEN {Finding("pipeline", "scanner_error", "medium", 0, 0)} ELSE {}

Outcomes(surface, config, health) ==
    [e \in Engines |-> Outcome(surface, config.settings[e], e, health[e])]
RequiredBy(config) == {e \in Engines : config.settings[e].required} \cup PolicyRequired

FindingsOf(surface, config, health, hits, length) ==
    LET outcome == Outcomes(surface, config, health)
        window == Window(length, config.maxChars)
    IN SeenByAll({e \in Engines : outcome[e] = "ok"}, surface, hits, window)
         \cup ErrorFindings(RequiredBy(config), outcome)
         \cup Unread(length, window)

ToMask(surface, findings) ==
    {f \in findings : Decide(surface, f.kind, f.severity) = "redact"}

\* scan(): `hits` are what each engine would see in the text.
Scan(surface, config, health, hits, length) ==
    IF ~config.on
    THEN [decision |-> "allow", findings |-> {}, masked |-> {}, length |-> length]
    ELSE LET findings == FindingsOf(surface, config, health, hits, length)
         IN [decision |-> Strongest({Decide(surface, f.kind, f.severity) : f \in findings}),
             findings |-> findings,
             masked |-> Masked(ToMask(surface, findings)),
             length |-> Window(length, config.maxChars)]
=============================================================================
