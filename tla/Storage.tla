------------------------------ MODULE Storage -------------------------------
(***************************************************************************)
(* The database as files: its creation, the migration of an old one, and   *)
(* backup and restore (db.py, migrate.py, backup.py and their commands).   *)
(*                                                                         *)
(* What a file holds is an image: how much of the core schema is there,    *)
(* which migrations, the version stamped on it, and the last write in it.  *)
(* A commit lies in the -wal file until a checkpoint.  The scripts of      *)
(* init run statement by statement; a migration is one transaction, and so *)
(* is one call of SQLite's backup API.                                     *)
(***************************************************************************)
EXTENDS Naturals, FiniteSets

CONSTANTS
    Procs, Commands,          \* [Procs -> the commands run in them]
    Latest,                   \* latest_version()
    Old,                      \* the version of the database that is there, 0 for none
    NoProc,
    MaxWrites, MaxCrashes     \* bounds

StorageAssumption ==
    /\ Latest \in Nat \ {0} /\ Old \in 0..Latest
    /\ NoProc \notin Procs
    /\ Commands \in [Procs -> SUBSET {"init", "use", "serve", "migrate", "backup", "restore"}]

VARIABLES
    main,      \* the image in the database file
    wal,       \* the image with the -wal file, Missing when that is not there
    file,      \* the other files: whose handle writes them, their images
    lock, txn, \* the migration under way: its process and what it has made
    job,
    writes, crashes

vars == <<main, wal, file, lock, txn, job, writes, crashes>>

\* MIGRATIONS has no step for version 1.
Steps == 2..Latest
Missing == [core |-> "missing", steps |-> {}, version |-> 0, write |-> 0]
Empty == [Missing EXCEPT !.core = "none"]
Whole(v) == [core |-> "full", steps |-> Steps \cap 1..v, version |-> v, write |-> 0]

\* The files beside the database: a name, the version in it, and its suffix.
Premigrate(v) == <<"pre-migrate", v, "">>
Snapshot == <<"snapshot", 0, "">>
Prerestore == <<"pre-restore", 0, "">>
Partial(f) == <<f[1], f[2], ".partial">>
Dests == {Snapshot} \cup {Premigrate(v) : v \in 0..Latest}
Paths == Dests \cup {Prerestore} \cup {Partial(f) : f \in Dests}

Idle == [at |-> "idle"]
NoFile == [by |-> NoProc, image |-> Missing]

Init ==
    /\ main = IF Old = 0 THEN Missing ELSE Whole(Old)
    /\ wal = Missing /\ file = [f \in Paths |-> NoFile]
    /\ lock = NoProc /\ txn = Missing
    /\ job = [p \in Procs |-> Idle]
    /\ writes = 0 /\ crashes = 0

At(p, step) == job[p].at = step
Goto(p, step) == job' = [job EXCEPT ![p].at = step]
End(p) == job' = [job EXCEPT ![p] = Idle]
Free(p) == lock \in {NoProc, p}

\* What a connection sees, and a commit.
Image == IF Missing \in {main, wal} THEN main ELSE wal
Commit(image) == wal' = image /\ UNCHANGED main
Behind == Image.version < Latest
Restoring == \E p \in Procs : job[p] # Idle /\ job[p].run = "restore"

\* A checkpoint, by the last connection to close or now and then.
Checkpoint ==
    /\ Missing \notin {main, wal} /\ ~ Restoring
    /\ main' = wal /\ wal' = Missing
    /\ UNCHANGED <<file, lock, txn, job, writes, crashes>>

(***************************************************************************)
(* Opening (Repo.open, open_for_server, init_db and their commands)        *)
(***************************************************************************)
FirstStep(run) ==
    CASE run \in {"use", "backup"} -> "migrate"
      [] run \in {"serve", "migrate"} -> "status"
      [] run = "init" -> IF main = Missing THEN "ddl" ELSE "migrate"

\* Every command but init wants a database file (must_exist); init makes one, and
\* SQLite drops a -wal beside an empty file.  Nobody connects during a restore.
Begin(p, run) ==
    /\ job[p] = Idle /\ run \in Commands[p] \ {"restore"} /\ ~ Restoring
    /\ main # Missing \/ run = "init"
    /\ job' = [job EXCEPT ![p] = [at |-> FirstStep(run), run |-> run, dest |-> Snapshot, began |-> Missing]]
    /\ IF main = Missing THEN main' = Empty /\ wal' = Missing ELSE UNCHANGED <<main, wal>>
    /\ UNCHANGED <<file, lock, txn, writes, crashes>>

\* schema_status: a server refuses an old database, or is told to migrate it; the
\* command migrate backs it up under the name of the version it has read.
Status(p) ==
    /\ At(p, "status")
    /\ \/ /\ Behind /\ job[p].run = "migrate"
          /\ job' = [job EXCEPT ![p].at = "partial", ![p].dest = Premigrate(Image.version)]
       \/ Behind /\ job[p].run = "serve" /\ (Goto(p, "migrate") \/ End(p))
       \/ ~ Behind /\ job[p].run = "serve" /\ Goto(p, "ready")
       \/ ~ Behind /\ job[p].run = "migrate" /\ End(p)
    /\ UNCHANGED <<main, wal, file, lock, txn, writes, crashes>>

\* init_db: each statement commits, and one that finds its table or its index there raises.
\* With "enough" every table a migration alters is there, and none of the search index; after
\* a migration the script ends at an index of claims, before it, or at a table after it.
CreateTables(p) ==
    /\ At(p, "ddl") /\ Free(p)
    /\ \/ Image.core = "none" /\ Commit([Image EXCEPT !.core = "some"]) /\ UNCHANGED job
       \/ Image.core = "some" /\ Commit([Image EXCEPT !.core = "enough"]) /\ UNCHANGED job
       \/ /\ Image.core = "enough" /\ Commit([Image EXCEPT !.core = "full", !.steps = Steps])
          /\ IF Image.steps = {} THEN Goto(p, "stamp") ELSE End(p)
       \/ /\ Image.core = "enough" /\ Image.steps # {}
          /\ End(p) /\ UNCHANGED <<main, wal>>
    /\ UNCHANGED <<file, lock, txn, writes, crashes>>

Stamp(p) ==
    /\ At(p, "stamp") /\ Free(p)
    /\ Commit([Image EXCEPT !.version = Latest])
    /\ Goto(p, "ready")
    /\ UNCHANGED <<file, lock, txn, writes, crashes>>

(***************************************************************************)
(* migrate                                                                 *)
(***************************************************************************)
Opened(p) == IF job[p].run = "backup" THEN "partial" ELSE "ready"

\* One PRAGMA read and no lock when there is nothing to do; else BEGIN IMMEDIATE.
MigrateRead(p) ==
    /\ At(p, "migrate")
    /\ Goto(p, IF Behind THEN "begin" ELSE Opened(p))
    /\ UNCHANGED <<main, wal, file, lock, txn, writes, crashes>>

\* The version is read again under the lock.
MigrateBegin(p) ==
    /\ At(p, "begin") /\ lock = NoProc
    /\ lock' = p /\ txn' = Image
    /\ Goto(p, "apply")
    /\ UNCHANGED <<main, wal, file, writes, crashes>>

Pending == {v \in Steps : v > txn.version}
Least(S) == CHOOSE v \in S : \A w \in S : v <= w

\* Mutant of Applied: each migration is a transaction of its own.
AppliedAtOnce(image) == txn' = image /\ Commit(image)

Applied(image) == txn' = image /\ UNCHANGED <<main, wal>>

\* _apply: "already exists" is tolerated, a core table that is missing is not.
MigrateApply(p) ==
    /\ At(p, "apply") /\ Pending # {}
    /\ LET v == Least(Pending)
       IN  \/ /\ txn.core \in {"enough", "full"}
             /\ Applied([txn EXCEPT !.version = v, !.steps = txn.steps \cup {v}])
             /\ UNCHANGED <<lock, job>>
          \/ /\ txn.core \notin {"enough", "full"}
             /\ lock' = NoProc /\ txn' = Missing /\ End(p) /\ UNCHANGED <<main, wal>>
    /\ UNCHANGED <<file, writes, crashes>>

\* The commit, or the rollback when another had done it all.
MigrateEnd(p) ==
    /\ At(p, "apply") /\ Pending = {}
    /\ IF txn # Image THEN Commit(txn) ELSE UNCHANGED <<main, wal>>
    /\ lock' = NoProc /\ txn' = Missing
    /\ Goto(p, Opened(p))
    /\ UNCHANGED <<file, writes, crashes>>

\* A command's writes, or a server's; then it closes.
Write(p) ==
    /\ At(p, "ready") /\ Free(p) /\ writes < MaxWrites /\ Image.core = "full"
    /\ writes' = writes + 1
    /\ Commit([Image EXCEPT !.write = writes + 1])
    /\ UNCHANGED <<file, lock, txn, job, crashes>>

Close(p) ==
    /\ At(p, "ready") /\ End(p)
    /\ UNCHANGED <<main, wal, file, lock, txn, writes, crashes>>
(***************************************************************************)
(* backup                                                                  *)
(***************************************************************************)
\* Mutant of Target: the snapshot is written where it is wanted.
TargetDirect(f) == f

\* The handle that writes a file keeps writing it wherever it is moved.
Target(f) == Partial(f)

\* What an earlier backup left is unlinked, a new file is opened.
BackupBegin(p) ==
    /\ At(p, "partial")
    /\ file' = [file EXCEPT ![Target(job[p].dest)] = [by |-> p, image |-> Empty]]
    /\ job' = [job EXCEPT ![p].at = "copy", ![p].began = Image]
    /\ UNCHANGED <<main, wal, lock, txn, writes, crashes>>

\* One read transaction, the frames of the -wal included; checked and closed.
BackupCopy(p) ==
    /\ At(p, "copy")
    /\ file' = [f \in DOMAIN file |-> IF file[f].by = p THEN [by |-> NoProc, image |-> Image] ELSE file[f]]
    /\ Goto(p, "replace")
    /\ UNCHANGED <<main, wal, lock, txn, writes, crashes>>

BackupEnd(p) ==
    /\ At(p, "replace")
    /\ LET from == Target(job[p].dest)
       IN  \/ /\ file[from].image # Missing
             /\ file' = [file EXCEPT ![job[p].dest] = file[from], ![from] = NoFile]
             /\ IF job[p].run = "migrate" THEN Goto(p, "migrate") ELSE End(p)
          \/ /\ file[from].image = Missing
             /\ End(p) /\ UNCHANGED file
    /\ UNCHANGED <<main, wal, lock, txn, writes, crashes>>

(***************************************************************************)
(* restore                                                                 *)
(***************************************************************************)
\* Nobody else is connected; an empty file passes the integrity check.
RestoreBegin(p, from) ==
    /\ "restore" \in Commands[p] /\ \A q \in Procs : job[q] = Idle
    /\ file[from].image # Missing
    /\ \E keep \in IF main = Missing THEN {FALSE} ELSE BOOLEAN :
        job' = [job EXCEPT ![p] = [at |-> IF keep THEN "save" ELSE "unlink",
                  run |-> "restore", from |-> from, keep |-> keep,
                  prior |-> Image, wanted |-> file[from].image]]
    /\ UNCHANGED <<main, wal, file, lock, txn, writes, crashes>>

\* Mutant of Saved: the copy of a file, not of a database.
SavedFile == main

Saved == Image

\* Checkpointed, and written over what the pre-restore file held.
RestoreSave(p) ==
    /\ At(p, "save")
    /\ file' = [file EXCEPT ![Prerestore] = [by |-> NoProc, image |-> Saved]]
    /\ main' = Image /\ wal' = Missing
    /\ Goto(p, "unlink")
    /\ UNCHANGED <<lock, txn, writes, crashes>>

RestoreUnlink(p) ==
    /\ At(p, "unlink") /\ main' = Missing /\ Goto(p, "unlink_wal")
    /\ UNCHANGED <<wal, file, lock, txn, writes, crashes>>

RestoreUnlinkWal(p) ==
    /\ At(p, "unlink_wal") /\ wal' = Missing /\ Goto(p, "connect")
    /\ UNCHANGED <<main, file, lock, txn, writes, crashes>>

RestoreConnect(p) ==
    /\ At(p, "connect") /\ main' = Empty /\ Goto(p, "copy_back")
    /\ UNCHANGED <<wal, file, lock, txn, writes, crashes>>

RestoreCopy(p) ==
    /\ At(p, "copy_back") /\ main' = file[job[p].from].image /\ End(p)
    /\ UNCHANGED <<wal, file, lock, txn, writes, crashes>>

-----------------------------------------------------------------------------
\* A process ends anywhere: its transaction is rolled back, its files stay.
Crash(p) ==
    /\ job[p] # Idle /\ crashes < MaxCrashes
    /\ crashes' = crashes + 1
    /\ End(p)
    /\ lock' = IF lock = p THEN NoProc ELSE lock
    /\ txn' = IF lock = p THEN Missing ELSE txn
    /\ file' = [f \in DOMAIN file |-> IF file[f].by = p THEN [file[f] EXCEPT !.by = NoProc] ELSE file[f]]
    /\ UNCHANGED <<main, wal, writes>>

Step(p) ==
    \/ Status(p) \/ CreateTables(p) \/ Stamp(p)
    \/ MigrateRead(p) \/ MigrateBegin(p) \/ MigrateApply(p) \/ MigrateEnd(p)
    \/ Write(p) \/ Close(p)
    \/ BackupBegin(p) \/ BackupCopy(p) \/ BackupEnd(p)
    \/ RestoreSave(p) \/ RestoreUnlink(p) \/ RestoreUnlinkWal(p) \/ RestoreConnect(p) \/ RestoreCopy(p)

Next ==
    \/ Checkpoint
    \/ \E p \in Procs :
        \/ \E run \in Commands[p] : Begin(p, run)
        \/ \E from \in Dests \cup {Prerestore} : RestoreBegin(p, from)
        \/ Step(p) \/ Crash(p)

Spec == Init /\ [][Next]_vars
-----------------------------------------------------------------------------
\* Nobody ever sees half a migration: whoever opens first, and wherever a migrating
\* process ends, the database is as it was or the newest, and the version on it
\* tells the steps it has (migrate.py:186-223).
NoHalfMigration ==
    /\ Image.version \in {0, Old, Latest}
    /\ Steps \cap 1..Image.version \subseteq Image.steps

\* What a backup puts at its destination is one committed state of the database, no
\* older than the backup: never part of a file, whatever ends where (backup.py:61-106).
BackupIsCommitted ==
    [][\A f \in Dests : file'[f].image # file[f].image =>
        \E p \in Procs :
            LET new == file'[f].image
            IN  /\ job[p] # Idle /\ At(p, "replace") /\ job[p].dest = f
                /\ new.write \in job[p].began.write..Image.write
                /\ new.version \in job[p].began.version..Image.version
                /\ new.core = "none" => job[p].began.core = "none"]_vars

\* While a restore runs, the state it replaces and the one it restores are both on
\* disk, when it keeps the former and the latter is not the file it keeps it in.
RestoreDestroysNothing ==
    \A p \in Procs : job[p] # Idle /\ job[p].run = "restore" /\ job[p].from # Prerestore =>
        /\ job[p].keep => job[p].prior \in {Image, file[Prerestore].image}
        /\ file[job[p].from].image = job[p].wanted

\* "restore --from <db>.pre-restore rolls forward to where you were" (OPERATIONS.md:113-115).
RollsForward ==
    [][\A p \in Procs : job[p] # Idle /\ At(p, "copy_back") /\ main' # main =>
        main' = job[p].wanted]_vars
=============================================================================
