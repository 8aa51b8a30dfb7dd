------------------------------ MODULE Rulesets ------------------------------
(***************************************************************************)
(* What the engines report: the baseline's rules with their severities,    *)
(* and how the adapters of the other engines grade what their tool found.  *)
(* A match is [rule, from, to]; which rules match a text is the input.     *)
(***************************************************************************)
EXTENDS Safety

Hit(capability, severity, m) ==
    [capability |-> capability, severity |-> severity, from |-> m.from, to |-> m.to]

Graded(capability, table, matches) ==
    {Hit(capability, table[m.rule], m) : m \in {x \in matches : x.rule \in DOMAIN table}}

SecretRules ==
    [aws_access_key |-> "critical", github_pat |-> "critical", github_fine_pat |-> "critical",
     anthropic_key |-> "critical", stripe_secret |-> "critical",
     private_key_block |-> "critical", private_key_marker |-> "critical",
     slack_token |-> "high", google_api_key |-> "high", openai_key |-> "high",
     generic_assignment |-> "high", jwt |-> "medium"]

Lures ==
    [ignore_instructions |-> "high", system_prompt_probe |-> "high", role_override |-> "high",
     memory_poisoning |-> "high", dev_mode |-> "medium", instruction_markers |-> "medium"]

ToolRules ==
    [shell_pipe_exec |-> "high", destructive_command |-> "high", exfil_tool_abuse |-> "high",
     approval_bypass |-> "high", code_execution |-> "medium", tool_directive |-> "medium",
     privilege_escalation |-> "low"]

PiiRules == [email |-> "medium", ssn |-> "high", credit_card |-> "high",
             ipv4 |-> "low", phone |-> "low"]

Overlap(m, n) == m.from < n.to /\ m.to > n.from

\* pii.find: an address gives way to what the stronger rules claimed, and a telephone
\* number to those and to the addresses that were reported.
PiiMatches(matches) ==
    LET strong == {m \in matches : m.rule \in {"email", "ssn", "credit_card"}}
        ipv4 == {m \in matches : m.rule = "ipv4" /\ \A n \in strong : ~Overlap(m, n)}
    IN strong \cup ipv4 \cup
       {m \in matches : m.rule = "phone" /\ \A n \in strong \cup ipv4 : ~Overlap(m, n)}

EncodingRules == [data_uri |-> "medium", opaque_blob |-> "low", hex_blob |-> "low",
                  escape_run |-> "medium", percent_run |-> "medium"]

\* encoding.find on a blob that decodes to a text which the rules in `payload` match.
\* RiskLevel is a str, so max() takes the last severity in alphabetical order.
Alphabetical == <<"critical", "high", "low", "medium">>
BlobSeverity(payload) ==
    LET severities == {IF r \in DOMAIN Lures THEN Lures[r] ELSE ToolRules[r] : r \in payload}
        worst == CHOOSE s \in severities : \A t \in severities :
                    RankIn(Alphabetical, s) >= RankIn(Alphabetical, t)
    IN IF worst \in {"high", "critical"} THEN "high" ELSE "medium"

BlobHit(blob, payload) ==
    Hit("encoded_content", IF payload = {} THEN "low" ELSE BlobSeverity(payload), blob)

\* BaselineEngine.scan; blobs are [rule, from, to, payload] with rule "blob".
BaselineHits(matches) ==
    Graded("secrets", SecretRules, matches)
      \cup Graded("pii", PiiRules, PiiMatches(matches))
      \cup Graded("prompt_injection", Lures, matches)
      \cup Graded("tool_control", ToolRules, matches)
      \cup Graded("encoded_content", EncodingRules, matches)
      \cup {BlobHit(m, m.payload) : m \in {x \in matches : x.rule = "blob"}}

\* detect_secrets: an entropy plugin's candidate counts when it is long and random
\* enough; a value that is not found back in its line has no span.
DetectSecretsHits(matches) ==
    {[Hit("secrets", CASE m.rule = "entropy" -> "medium" [] m.rule = "live_key" -> "critical"
                       [] OTHER -> "high", m)
        EXCEPT !.from = IF m.found THEN @ ELSE 0, !.to = IF m.found THEN @ ELSE 0] :
        m \in {x \in matches : x.rule = "entropy" => x.long /\ x.random}}

TruffleHogHits(matches) ==
    {Hit("source_or_repository_secrets",
         IF m.rule = "verified" THEN "critical" ELSE "high", m) : m \in matches}

GitleaksHits(matches) == {Hit("source_or_repository_secrets", "high", m) : m \in matches}

PresidioHits(matches) ==
    {Hit("pii", CASE m.rule = "strong" -> "high" [] m.rule = "contact" -> "medium"
                  [] OTHER -> "low", m) : m \in {x \in matches : x.rule # "ignored"}}

\* prompt_guard: one score for the whole text, without a span.
PromptGuardHits(matches) ==
    {Hit("prompt_injection", IF m.rule = "certain" THEN "high" ELSE "medium",
         [from |-> 0, to |-> 0]) : m \in {x \in matches : x.rule # "unlikely"}}

\* What each engine would report of a text whose matches are given by engine.
HitsFrom(found) ==
    [baseline |-> BaselineHits(found.baseline),
     detect_secrets |-> DetectSecretsHits(found.detect_secrets),
     trufflehog |-> TruffleHogHits(found.trufflehog),
     gitleaks |-> GitleaksHits(found.gitleaks),
     presidio |-> PresidioHits(found.presidio),
     prompt_guard |-> PromptGuardHits(found.prompt_guard)]
=============================================================================
