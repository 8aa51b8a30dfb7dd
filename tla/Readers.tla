------------------------------- MODULE Readers -------------------------------
(***************************************************************************)
(* The ways out of the ledger, side by side: OKF bundles (module Okf),     *)
(* recall, and the safety scan of a text.  They share no state here, so    *)
(* each is a module with variables of its own, and a step of one leaves    *)
(* the others' alone.                                                      *)
(***************************************************************************)
EXTENDS Okf

CONSTANTS
    Claims, Columns, Content, Items, Recalls,    \* recall
    Scans                                        \* scans

VARIABLES
    recallStatus, recallOpen, replaced, decima, call, promotedOnce, clearOnce,
    request, verdict

recallVars == <<recallStatus, recallOpen, replaced, decima, call, promotedOnce, clearOnce>>
scanVars == <<request, verdict>>
readersVars == <<vars, recallVars, scanVars>>

Recall == INSTANCE Recall WITH
    Foreign <- Items, Requests <- Recalls, status <- recallStatus, open <- recallOpen
SafetyScan == INSTANCE SafetyScan WITH Requests <- Scans

ASSUME ReadersAssumption == Recall!RecallGiven /\ SafetyScan!ScanGiven

BundlesAlone == UNCHANGED <<recallVars, scanVars>>
RecallAlone == UNCHANGED <<vars, scanVars>>
ScanAlone == UNCHANGED <<vars, recallVars>>

ReadersInit == Init /\ Recall!Init /\ SafetyScan!Init

ReadersNext ==
    \/ Next /\ BundlesAlone
    \/ Recall!Next /\ RecallAlone
    \/ SafetyScan!Next /\ ScanAlone

ReadersSpec == ReadersInit /\ [][ReadersNext]_readersVars

-----------------------------------------------------------------------------
(***************************************************************************)
(* The properties of the instantiated modules                              *)
(***************************************************************************)
\* recall.py, federation.py: the pack holds what the caller may have, whatever commits
\* beside the recall; foreign items are bounded and never trusted by accident (Recall).
PackIsVetted == Recall!PackIsVetted

\* recall.py: the pack is scanned as a retrieval (Recall).
NothingUnsafeIsHandedOver == Recall!NothingUnsafeIsHandedOver

\* recall.py: what of record is left out leaves a warning (Recall).
OmissionsAreAnnounced == Recall!OmissionsAreAnnounced

\* pipeline.py: text that was not looked at is not clean (SafetyScan).
UnscannedIsNotClean == SafetyScan!UnscannedIsNotClean

\* redaction.py: the mask covers the findings, no more and no less (SafetyScan).
MaskIsExact == SafetyScan!MaskIsExact
=============================================================================
