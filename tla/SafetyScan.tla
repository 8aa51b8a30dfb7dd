----------------------------- MODULE SafetyScan -----------------------------
(***************************************************************************)
(* One scan: the configuration is loaded, and refused or used; then the    *)
(* engines look, and the verdict is what module Safety makes of them.      *)
(***************************************************************************)
EXTENDS Rulesets

CONSTANT Requests   \* [surface, config, health, found, length]

\* What is matched lies in the text.
ScanGiven ==
    \A r \in Requests :
        /\ r.surface \in Surfaces /\ r.length \in Nat /\ r.config.maxChars \in Nat
        /\ \A e \in Engines :
              /\ r.config.settings[e].enabled \in BOOLEAN /\ r.config.settings[e].required \in BOOLEAN
              /\ \A m \in r.found[e] : m.from \in Nat /\ m.to \in 0 .. r.length

VARIABLES request, verdict

vars == <<request, verdict>>

None == [decision |-> "none"]
Refused == [decision |-> "refused"]

Init == request \in Requests /\ verdict = None

\* scan_for: the configuration is loaded for every scan.
ScanFor ==
    /\ verdict = None
    /\ verdict' = IF Loadable(request.config.on, request.config.settings)
                  THEN Scan(request.surface, request.config, request.health,
                            HitsFrom(request.found), request.length)
                  ELSE Refused
    /\ UNCHANGED request

\* The caller has its verdict.
Handled == verdict # None /\ UNCHANGED vars

Next == ScanFor \/ Handled

Spec == Init /\ [][Next]_vars

-----------------------------------------------------------------------------
Scanned == verdict \notin {None, Refused} /\ request.config.on

Looked(e) == /\ request.config.settings[e].enabled
             /\ Offers[e] \cap Policies[request.surface].capabilities # {}
             /\ request.health[e] = "ready"

\* Unscanned is not clean: a required engine that did not look, for whatever reason, or
\* a tail that no engine was given, and the text is withheld or refused on every surface.
UnscannedIsNotClean ==
    Scanned /\ (\/ request.length > request.config.maxChars
                \/ ~Looked("baseline")
                \/ \E e \in Engines : request.config.settings[e].required /\ ~Looked(e)) =>
        AtLeast(verdict.decision, "quarantine")

\* However the spans of several engines overlap, the masked characters are exactly those
\* of the findings that policy masks: no character of a secret that was located stays
\* legible, and no other character is lost.
MaskIsExact ==
    Scanned /\ request.surface # "memory_promotion" =>
        verdict.masked =
            UNION {h.from .. (h.to - 1) : h \in
                      {x \in UNION {HitsFrom(request.found)[e] : e \in {y \in Engines : Looked(y)}} :
                          /\ x.to <= request.config.maxChars /\ x.to > x.from
                          /\ \/ x.capability = "secrets"
                             \/ x.capability = "pii" /\ x.severity # "low"}}

=============================================================================
