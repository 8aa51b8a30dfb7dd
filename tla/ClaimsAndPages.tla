--------------------------- MODULE ClaimsAndPages ---------------------------
(***************************************************************************)
(* The claims of the ledger (module ClaimLedger) and the wiki pages that   *)
(* show them (module Pages), side by side.  Pages has the commits of the   *)
(* ledger as steps of its own, on claims of its own: so a step of one      *)
(* module leaves the other's variables alone.                              *)
(***************************************************************************)
EXTENDS ClaimLedger

CONSTANTS
    PageClaims, Entities, About, From,    \* claims that pages show, and about what
    Contrary,                             \* the sets of two of opposite polarity
    NoSession, MaxTurns

VARIABLES pageStatus, pageOpen, table, files, lock, pageJob, pageTurns, pageRaced,
          overlapped    \* history: two operations on the claims were under way at once

pageVars == <<pageStatus, pageOpen, table, files, lock, pageJob, pageTurns, pageRaced>>
ledgerVars == <<vars, pageVars, overlapped>>

Wiki == INSTANCE Pages WITH
    Claims <- PageClaims, Opposed <- Contrary, status <- pageStatus, open <- pageOpen,
    job <- pageJob, turns <- pageTurns, raced <- pageRaced

ASSUME PagesAssumption == Wiki!PagesGiven

\* What is one step (filing a candidate, resolving a contradiction) is under way in no
\* state, and may come in between the steps of another.
Overlap == \E s, t \in Sessions : s # t /\ local[s] # Idle /\ local[t] # Idle

LedgerStep ==
    /\ Next /\ UNCHANGED pageVars
    /\ overlapped' = (overlapped \/ Overlap')
WikiStep == Wiki!Next /\ UNCHANGED <<vars, overlapped>>

LedgerInit == Init /\ Wiki!Init /\ overlapped = FALSE
LedgerNext == LedgerStep \/ WikiStep

LedgerSpec == LedgerInit /\ [][LedgerNext]_ledgerVars

-----------------------------------------------------------------------------
\* file_claims_data: as long as one operation ends before the next begins, a source is
\* extracted once: no two extractions of it ever coexist, whatever is refiled, gated
\* and reviewed in between.
ExtractedOnce ==
    ~overlapped =>
        \A j, k \in Present(status) :
            row[j].source = row[k].source /\ row[j].filing # 0 /\ row[k].filing # 0
                => row[j].filing = row[k].filing

\* _clear_prior_extraction: no sequence of operations drops a claim that is truth, or
\* was replaced by truth, to file its source again.
TrustedRowsStay ==
    [][~overlapped =>
          \A k \in Ids : status[k] \in {"promoted", "superseded"} => row'[k] = row[k]]_ledgerVars

\* render.py: a page that is not marked dirty shows the promoted claims (Pages).
CleanPagesShowTheTruth == Wiki!CleanPagesShowTheTruth
=============================================================================
