----------------------------- MODULE Background ------------------------------
(***************************************************************************)
(* What works in the background, side by side: the research queue and its  *)
(* gathering (module Gathering), the librarian, the orchestration of other *)
(* engines, and the administration of the database.  Each is a module with *)
(* variables of its own, for they meet in ids that are never given out     *)
(* twice and in locks that each of them models: a step of one leaves the   *)
(* others' state alone.                                                    *)
(***************************************************************************)
EXTENDS Gathering

CONSTANTS
    \* the librarian
    Sources, Poison, Grade, Cases, Kind, Of, Librarians, LibrarianRuns, Retries, Accepts,
    NoSession, MaxClaims, MaxTexts, MaxCrashes,
    \* orchestration
    Processes, Runs, Models, NoModel, Declared, Telemetry, Workloads, MaxRows, MaxSwaps,
    \* storage
    Procs, Commands, Latest, Old, NoProc, MaxWrites, MaxEnds

VARIABLES
    dropped, source, astray, rows, texts, advice, case, held, written, torn, run, reports, crashes,
    filed, disputed, declared, swaps, turn,
    main, wal, image, writer, making, task, writes, ends

librarianVars == <<dropped, source, astray, rows, texts, advice, case, held, written, torn, run,
                   reports, crashes>>
orchestrationVars == <<filed, disputed, declared, swaps, turn>>
storageVars == <<main, wal, image, writer, making, task, writes, ends>>
backgroundVars == <<vars, librarianVars, orchestrationVars, storageVars>>

Librarian == INSTANCE Librarian WITH
    Sessions <- Librarians, Runs <- LibrarianRuns, MaxRows <- MaxClaims,
    lock <- held, open <- written, job <- run

\* With the theorems about them.
Orchestration == INSTANCE OrchestrationProofs WITH
    Sessions <- Processes, rows <- filed, job <- turn
Storage == INSTANCE StorageProofs WITH
    file <- image, lock <- writer, txn <- making, job <- task,
    crashes <- ends, MaxCrashes <- MaxEnds

ASSUME BackgroundAssumption ==
    /\ Librarian!LibrarianAssumption
    /\ Orchestration!OrchestrationAssumption
    /\ Storage!StorageAssumption

BackgroundInit == Init /\ Librarian!Init /\ Orchestration!Init /\ Storage!Init

GatheringAlone == UNCHANGED <<librarianVars, orchestrationVars, storageVars>>
LibrarianAlone == UNCHANGED <<vars, orchestrationVars, storageVars>>
OrchestrationAlone == UNCHANGED <<vars, librarianVars, storageVars>>
StorageAlone == UNCHANGED <<vars, librarianVars, orchestrationVars>>

BackgroundNext ==
    \/ Next /\ GatheringAlone
    \/ Librarian!Next /\ LibrarianAlone
    \/ Orchestration!Next /\ OrchestrationAlone
    \/ Storage!Next /\ StorageAlone

BackgroundSpec == BackgroundInit /\ [][BackgroundNext]_backgroundVars
-----------------------------------------------------------------------------
(***************************************************************************)
(* The properties of the instantiated modules                              *)
(***************************************************************************)
\* triage.py: what a triage run has counted as triaged has its recommendation in the
\* database, whichever session wrote it (Librarian).
ReportedIsStored == Librarian!ReportedIsStored

\* registry.py, perfcapture.py: seeds and captures that race file a fact once each
\* (Orchestration).
FiledOncePerRacer == Orchestration!FiledOncePerRacer

\* delegate.py: a decision pins only a model of a role whose own row was promoted, and widens
\* nothing (Orchestration).
DelegatesWithinItsRights == Orchestration!DelegatesWithinItsRights

\* migrate.py: nobody sees half a migration (Storage).
NoHalfMigration == Storage!NoHalfMigration

\* backup.py: what a restore replaces and what it restores stay on disk (Storage).
RestoreDestroysNothing == Storage!RestoreDestroysNothing

\* backup.py: a backup is one committed state of the database (Storage).
BackupIsCommitted == Storage!BackupIsCommitted
=============================================================================
