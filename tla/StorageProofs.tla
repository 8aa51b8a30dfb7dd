--------------------------- MODULE StorageProofs ----------------------------
(***************************************************************************)
(* For any processes, commands, versions and bounds: nobody sees half a    *)
(* migration, and a restore keeps what it replaces and what it restores on *)
(* disk, whoever opens, migrates, backs up or ends in between; a backup is *)
(* one committed state, as long as none runs beside it to its destination. *)
(***************************************************************************)
EXTENDS Storage, TLAPS

Images == [core : {"missing", "none", "some", "enough", "full"},
           steps : SUBSET Steps, version : Nat, write : Nat]

\* No migration is half done in it.
Fit(image) ==
    /\ image \in Images /\ (image.core = "missing" => image = Missing)
    /\ image.version \in {0, Old, Latest}
    /\ Steps \cap 1..image.version \subseteq image.steps

Running == [at : {"ddl", "stamp", "status", "migrate", "begin", "apply", "ready", "partial", "copy",
                  "replace"},
            run : {"init", "use", "serve", "migrate", "backup"}, dest : Dests, began : Images]
RestoreJobs == [at : {"save", "unlink", "unlink_wal", "connect", "copy_back"}, run : {"restore"},
                from : Dests \cup {Prerestore}, keep : BOOLEAN, prior : Images, wanted : Images]
Files == [by : Procs \cup {NoProc}, image : Images]

TypeOK ==
    /\ Fit(main) /\ Fit(wal)
    /\ file \in [Paths -> Files] /\ \A f \in Paths : Fit(file[f].image)
    /\ lock \in Procs \cup {NoProc} /\ txn \in Images
    /\ job \in [Procs -> {Idle} \cup Running \cup RestoreJobs]
    /\ writes \in Nat

\* A restore has the database to itself; anybody else has a file to connect to.
Apart ==
    /\ \A p, q \in Procs : job[p] \in RestoreJobs /\ job[q] # Idle => p = q
    /\ main = Missing => \A p \in Procs : job[p] \notin Running

\* A transaction has the steps of its version, and those of the image it will replace.
TxnOK ==
    /\ \A p \in Procs : lock = p <=> job[p].at = "apply"
    /\ lock # NoProc =>
         /\ Steps \cap 1..txn.version \subseteq txn.steps
         /\ txn.version \in {0, Old, Latest} \cup Steps
         /\ Image.steps \subseteq txn.steps /\ txn.core # "missing"

\* Who is about to stamp the version has made, or found, all the tables.
StampOK == \A p \in Procs : job[p].at = "stamp" => Steps \subseteq Image.steps

IInv == StorageAssumption /\ TypeOK /\ Apart /\ TxnOK /\ StampOK

-----------------------------------------------------------------------------
LEMMA Shapes ==
    /\ Missing \in Images /\ Empty \in Images /\ Fit(Missing) /\ Fit(Empty)
    /\ Missing # Empty /\ Idle \notin Running /\ Idle \notin RestoreJobs
    /\ \A j \in Running : j \notin RestoreJobs /\ j.run # "restore" /\ j.at # "idle"
    /\ \A j \in RestoreJobs : j.run = "restore" /\ j.at \notin {"apply", "stamp", "idle"}
BY DEF Missing, Empty, Images, Fit, Idle, Running, RestoreJobs

LEMMA ThereFits ==
    ASSUME TypeOK, main # Missing
    PROVE  Fit(Image) /\ Image # Missing /\ Image.core # "missing"
BY DEF TypeOK, Image, Fit

LEMMA FirstWhole ==
    ASSUME StorageAssumption
    PROVE  Fit(Whole(Old))
BY DEF StorageAssumption, Fit, Images, Whole, Steps

\* Somebody is at work, and not restoring: there is a database, and nobody restores.
LEMMA AtWork ==
    ASSUME IInv, NEW p \in Procs, job[p] \in Running
    PROVE  main # Missing /\ \A q \in Procs : job[q] \notin RestoreJobs
BY Shapes DEF IInv, Apart

LEMMA ImageFits == TypeOK => Fit(Image)
BY DEF TypeOK, Image

LEMMA Committed ==
    ASSUME main # Missing, NEW i \in Images, i.core # "missing", Commit(i)
    PROVE  Image' = i /\ UNCHANGED main
BY DEF Commit, Image, Missing

\* A process at work goes on or ends; what others see has no steps less.
LEMMA OneWorks ==
    ASSUME IInv, NEW p \in Procs, job[p] \in Running,
           NEW j \in {Idle} \cup Running, job' = [job EXCEPT ![p] = j],
           j.at # "apply", j.at = "stamp" => Steps \subseteq Image'.steps,
           \/ UNCHANGED <<main, wal>>
           \/ lock \in {NoProc, p} /\ main' # Missing /\ Image.steps \subseteq Image'.steps,
           Fit(main'), Fit(wal'),
           \/ job[p].at # "apply" /\ UNCHANGED <<lock, txn>>
           \/ lock' = NoProc /\ txn' \in Images /\ lock = p,
           file' \in [Paths -> Files], \A f \in Paths : Fit(file'[f].image),
           writes' \in Nat
    PROVE  IInv'
<1>1. \A q \in Procs : job'[q] = IF q = p THEN j ELSE job[q]
  BY DEF IInv, TypeOK
<1>2. TypeOK'
  BY DEF IInv, TypeOK
<1>3. Apart'
  BY <1>1, AtWork, Shapes DEF Apart, IInv
<1>4. UNCHANGED Image \/ Image.steps \subseteq Image'.steps
  BY DEF Image
<1>5. TxnOK'
  <2>1. CASE UNCHANGED <<lock, txn>> /\ job[p].at # "apply"
    <3>1. \A q \in Procs : lock' = q <=> job'[q].at = "apply"
      BY <1>1, <2>1 DEF IInv, TxnOK
    <3>2. lock # p
      BY <2>1 DEF IInv, TxnOK
    <3>3. lock # NoProc => UNCHANGED Image
      BY <3>2 DEF Image
    <3> QED BY <2>1, <3>1, <3>3 DEF IInv, TxnOK
  <2>2. CASE lock' = NoProc /\ lock = p
    BY <1>1, <2>2 DEF IInv, TxnOK, StorageAssumption
  <2> QED BY <2>1, <2>2
<1>6. StampOK'
  BY <1>1, <1>4 DEF IInv, StampOK
<1> QED BY <1>2, <1>3, <1>5, <1>6 DEF IInv

LEMMA InitIInv == StorageAssumption /\ Init => IInv
<1> SUFFICES ASSUME StorageAssumption, Init PROVE IInv
  OBVIOUS
<1>1. TypeOK
  <2>1. Fit(main) /\ Fit(wal) /\ txn \in Images
    BY Shapes, FirstWhole DEF Init
  <2>2. file \in [Paths -> Files] /\ \A f \in Paths : Fit(file[f].image)
    BY Shapes DEF Init, Files, NoFile
  <2> QED BY <2>1, <2>2 DEF Init, TypeOK
<1>2. \A p \in Procs : job[p] = Idle
  BY DEF Init
<1>3. Apart /\ StampOK
  BY <1>2, Shapes DEF Apart, StampOK, Idle
<1>4. TxnOK
  BY <1>2 DEF Init, TxnOK, Idle, StorageAssumption
<1> QED BY <1>1, <1>3, <1>4 DEF IInv

-----------------------------------------------------------------------------
(* Opening *)

LEMMA CheckpointStep == IInv /\ Checkpoint => IInv'
<1> SUFFICES ASSUME IInv, Checkpoint PROVE IInv'
  OBVIOUS
<1>1. UNCHANGED Image /\ main' # Missing
  BY DEF Checkpoint, Image
<1>2. TypeOK'
  BY Shapes DEF IInv, TypeOK, Checkpoint
<1> QED BY <1>1, <1>2 DEF IInv, Apart, TxnOK, StampOK, Checkpoint

LEMMA Destinations ==
    /\ Snapshot \in Dests /\ Dests \subseteq Paths /\ Prerestore \in Paths
    /\ \A v \in 0..Latest : Premigrate(v) \in Dests
    /\ \A f \in Dests : Partial(f) \in Paths
BY DEF Dests, Paths

LEMMA BeginStep ==
    ASSUME IInv, NEW p \in Procs, NEW run \in Commands[p], Begin(p, run)
    PROVE  IInv'
<1> DEFINE j == [at |-> FirstStep(run), run |-> run, dest |-> Snapshot, began |-> Missing]
<1>1. run \in {"init", "use", "serve", "migrate", "backup"}
  BY DEF Begin, IInv, StorageAssumption
<1>2. FirstStep(run) \in {"ddl", "status", "migrate"}
  BY <1>1 DEF FirstStep
<1>3. j \in Running /\ j.at \notin {"apply", "stamp"}
  BY <1>1, <1>2, Shapes, Destinations DEF Running
<1>4. job' = [job EXCEPT ![p] = j] /\ job[p] = Idle
  BY DEF Begin
<1> HIDE DEF j
<1>5. \A q \in Procs : job'[q] = IF q = p THEN j ELSE job[q]
  BY <1>4 DEF IInv, TypeOK
<1>6. \A q \in Procs : job[q] \notin RestoreJobs
  BY Shapes DEF Begin, Restoring
<1>7. main' # Missing
  BY Shapes DEF Begin
<1>8. Apart'
  BY <1>3, <1>5, <1>6, <1>7, Shapes DEF Apart
<1>9. TypeOK'
  BY <1>3, <1>4, Shapes DEF IInv, TypeOK, Begin
<1>10. main = Missing => \A q \in Procs : job[q] = Idle
  BY <1>6 DEF IInv, Apart, TypeOK
<1>11. lock = NoProc \/ main # Missing
  BY <1>10 DEF IInv, TxnOK, TypeOK, Idle
<1>12. main # Missing => UNCHANGED Image
  BY DEF Begin, Image
<1>13. TxnOK'
  <2>1. \A q \in Procs : lock' = q <=> job'[q].at = "apply"
    BY <1>3, <1>4, <1>5 DEF IInv, TxnOK, Begin, Idle
  <2> QED BY <2>1, <1>11, <1>12 DEF IInv, TxnOK, Begin
<1>14. StampOK'
  BY <1>3, <1>5, <1>10, <1>12 DEF IInv, StampOK, Idle
<1> QED BY <1>8, <1>9, <1>13, <1>14 DEF IInv, Begin

\* Steps of a running process that change nothing but its place.
LEMMA OnlyPlace ==
    ASSUME IInv, NEW p \in Procs, job[p] \in Running, job[p].at # "apply",
           NEW j \in {Idle} \cup Running, job' = [job EXCEPT ![p] = j],
           j.at \notin {"apply", "stamp"}, UNCHANGED <<main, wal, file, lock, txn, writes>>
    PROVE  IInv'
BY OneWorks DEF IInv, TypeOK

\* Whoever stands at one of these places is running.
LEMMA AtPlace ==
    ASSUME IInv, NEW p \in Procs,
           job[p].at \in {"ddl", "stamp", "status", "migrate", "begin", "apply", "ready", "partial",
                          "copy", "replace"}
    PROVE  job[p] \in Running
BY DEF IInv, TypeOK, Idle, RestoreJobs

LEMMA StatusStep ==
    ASSUME IInv, NEW p \in Procs, Status(p)
    PROVE  IInv'
<1>1. job[p] \in Running /\ job[p].at = "status"
  BY AtPlace DEF Status, At
<1>2. ASSUME NEW step \in {"migrate", "ready"}, Goto(p, step)
      PROVE  IInv'
  <2>1. [job[p] EXCEPT !.at = step] \in Running
    BY <1>1 DEF Running
  <2>2. [job[p] EXCEPT !.at = step].at = step
    BY <1>1 DEF Running
  <2> QED BY <1>1, <1>2, <2>1, <2>2, OnlyPlace DEF Status, Goto
<1>3. CASE End(p)
  BY <1>1, <1>3, OnlyPlace DEF Status, End, Idle
<1>4. CASE job' = [job EXCEPT ![p].at = "partial", ![p].dest = Premigrate(Image.version)]
  <2> DEFINE j == [job[p] EXCEPT !.at = "partial", !.dest = Premigrate(Image.version)]
  <2>1. Image.version \in 0..Latest
    BY ImageFits DEF IInv, Fit, StorageAssumption
  <2>2. j \in Running /\ j.at = "partial"
    BY <1>1, <2>1, Destinations DEF Running
  <2>3. job' = [job EXCEPT ![p] = j]
    BY <1>4 DEF IInv, TypeOK
  <2> HIDE DEF j
  <2> QED BY <1>1, <2>2, <2>3, OnlyPlace DEF Status
<1> QED BY <1>2, <1>3, <1>4 DEF Status

\* Going to another place.
LEMMA Going ==
    ASSUME IInv, NEW p \in Procs, job[p] \in Running, NEW step, Goto(p, step),
           step \in {"ddl", "stamp", "status", "migrate", "begin", "apply", "ready", "partial",
                     "copy", "replace"}
    PROVE  /\ job' = [job EXCEPT ![p] = [job[p] EXCEPT !.at = step]]
           /\ [job[p] EXCEPT !.at = step] \in Running
           /\ [job[p] EXCEPT !.at = step].at = step
BY DEF Goto, Running, IInv, TypeOK

LEMMA GoesOn ==
    ASSUME IInv, NEW p \in Procs, job[p] \in Running, job[p].at # "apply", NEW step, Goto(p, step),
           step \in {"ddl", "status", "migrate", "begin", "ready", "partial", "copy", "replace"},
           UNCHANGED <<main, wal, file, lock, txn, writes>>
    PROVE  IInv'
<1> DEFINE j == [job[p] EXCEPT !.at = step]
<1>1. job' = [job EXCEPT ![p] = j] /\ j \in Running /\ j.at = step
  BY Going
<1> HIDE DEF j
<1> QED BY <1>1, OnlyPlace

LEMMA CreateTablesStep ==
    ASSUME IInv, NEW p \in Procs, CreateTables(p)
    PROVE  IInv'
<1>1. job[p] \in Running /\ job[p].at = "ddl" /\ main # Missing /\ lock \in {NoProc, p}
  BY AtPlace, AtWork DEF CreateTables, At, Free
<1>2. Fit(Image) /\ Fit(main)
  BY ImageFits DEF IInv, TypeOK
<1>3. \A core \in {"some", "enough"} : LET i == [Image EXCEPT !.core = core]
                                       IN  Fit(i) /\ i.core = core /\ i.steps = Image.steps
  BY <1>2 DEF Fit, Images
<1>4. ASSUME NEW core \in {"some", "enough"}, Commit([Image EXCEPT !.core = core]), UNCHANGED job
      PROVE  IInv'
  <2> DEFINE i == [Image EXCEPT !.core = core]
  <2>1. Fit(i) /\ i.core = core /\ i.steps = Image.steps /\ i \in Images
    BY <1>3 DEF Fit
  <2>2. Image' = i /\ UNCHANGED main /\ wal' = i
    BY <1>1, <1>4, <2>1, Committed DEF Commit
  <2> HIDE DEF i
  <2>3. job' = [job EXCEPT ![p] = job[p]]
    BY <1>4 DEF IInv, TypeOK
  <2> QED BY <1>1, <1>2, <2>1, <2>2, <2>3, OneWorks DEF CreateTables, IInv, TypeOK
<1>5. ASSUME Commit([Image EXCEPT !.core = "full", !.steps = Steps]),
             IF Image.steps = {} THEN Goto(p, "stamp") ELSE End(p)
      PROVE  IInv'
  <2> DEFINE i == [Image EXCEPT !.core = "full", !.steps = Steps]
  <2>1. i \in Images /\ i.core = "full" /\ i.steps = Steps /\ i.version = Image.version
    BY <1>2 DEF Fit, Images
  <2>2. Fit(i) /\ Image.steps \subseteq Steps
    <3> HIDE DEF i
    <3> QED BY <1>2, <2>1 DEF Fit, Images
  <2>3. Image' = i /\ UNCHANGED main /\ wal' = i
    BY <1>1, <1>5, <2>1, Committed DEF Commit
  <2> HIDE DEF i
  <2>4. \E j \in {Idle} \cup Running : job' = [job EXCEPT ![p] = j] /\ j.at \in {"stamp", "idle"}
    <3>1. CASE End(p)
      <4>1. job' = [job EXCEPT ![p] = Idle] /\ Idle.at = "idle"
        BY <3>1 DEF End, Idle
      <4> QED BY <4>1
    <3>2. CASE Goto(p, "stamp")
      <4> PICK j : j = [job[p] EXCEPT !.at = "stamp"]
        OBVIOUS
      <4>1. job' = [job EXCEPT ![p] = j] /\ j \in Running /\ j.at = "stamp"
        BY <1>1, <3>2, Going
      <4> QED BY <4>1
    <3> QED BY <1>5, <3>1, <3>2
  <2>5. PICK j \in {Idle} \cup Running : job' = [job EXCEPT ![p] = j] /\ j.at \in {"stamp", "idle"}
    BY <2>4
  <2> QED BY <1>1, <1>2, <2>1, <2>2, <2>3, <2>5, OneWorks DEF CreateTables, IInv, TypeOK
<1>6. CASE End(p) /\ UNCHANGED <<main, wal>>
  BY <1>1, <1>6, OnlyPlace DEF CreateTables, End, Idle
<1> QED BY <1>4, <1>5, <1>6 DEF CreateTables

LEMMA StampStep ==
    ASSUME IInv, NEW p \in Procs, Stamp(p)
    PROVE  IInv'
<1> DEFINE i == [Image EXCEPT !.version = Latest]
           j == [job[p] EXCEPT !.at = "ready"]
<1>1. job[p] \in Running /\ job[p].at = "stamp" /\ main # Missing /\ lock \in {NoProc, p}
  BY AtPlace, AtWork DEF Stamp, At, Free
<1>2. Fit(Image) /\ Fit(main) /\ Steps \subseteq Image.steps
  BY <1>1, ImageFits DEF IInv, TypeOK, StampOK
<1>3. i \in Images /\ i.steps = Image.steps /\ i.version = Latest /\ i.core = Image.core
  BY <1>2 DEF Fit, Images, IInv, StorageAssumption
<1>4. Fit(i) /\ i.core # "missing"
  <2>1. i.core # "missing"
    BY <1>1, <1>3, ThereFits DEF IInv
  <2> HIDE DEF i
  <2> QED BY <1>2, <1>3, <2>1 DEF Fit
<1>5. Commit(i) /\ wal' = i /\ UNCHANGED main
  BY DEF Stamp, Commit
<1>6. Image.steps \subseteq Image'.steps
  <2> HIDE DEF i
  <2> QED BY <1>1, <1>3, <1>4, <1>5, Committed
<1>7. job' = [job EXCEPT ![p] = j] /\ j \in Running /\ j.at = "ready"
  BY <1>1, Going DEF Stamp
<1> HIDE DEF i, j
<1> QED BY <1>1, <1>2, <1>4, <1>5, <1>6, <1>7, OneWorks DEF Stamp, IInv, TypeOK

-----------------------------------------------------------------------------
(* Migrating, working and backing up *)

LEMMA MigrateReadStep ==
    ASSUME IInv, NEW p \in Procs, MigrateRead(p)
    PROVE  IInv'
<1>1. job[p] \in Running /\ job[p].at = "migrate"
  BY AtPlace DEF MigrateRead, At
<1>2. PICK step \in {"begin", "partial", "ready"} : Goto(p, step)
  BY DEF MigrateRead, Opened
<1> QED BY <1>1, <1>2, GoesOn DEF MigrateRead

LEMMA MigrateBeginStep ==
    ASSUME IInv, NEW p \in Procs, MigrateBegin(p)
    PROVE  IInv'
<1> DEFINE j == [job[p] EXCEPT !.at = "apply"]
<1>1. job[p] \in Running /\ lock = NoProc /\ lock' = p /\ txn' = Image /\ UNCHANGED <<main, wal, file, writes>>
  BY AtPlace DEF MigrateBegin, At
<1>2. job' = [job EXCEPT ![p] = j] /\ j \in Running /\ j.at = "apply"
  BY <1>1, Going DEF MigrateBegin
<1> HIDE DEF j
<1>3. \A q \in Procs : job'[q] = IF q = p THEN j ELSE job[q]
  BY <1>2 DEF IInv, TypeOK
<1>4. Fit(Image) /\ UNCHANGED Image
  BY <1>1, ImageFits DEF IInv, Image
<1>5. TypeOK'
  BY <1>1, <1>2, <1>4 DEF IInv, TypeOK, Fit
<1>6. Apart'
  BY <1>1, <1>2, <1>3, AtWork, Shapes DEF IInv, Apart
<1>7. main # Missing /\ Image.core # "missing"
  BY <1>1, AtWork, ThereFits DEF IInv
<1>8. TxnOK'
  BY <1>1, <1>2, <1>3, <1>4, <1>7 DEF IInv, TxnOK, Fit, StorageAssumption
<1>9. StampOK'
  BY <1>2, <1>3, <1>4 DEF IInv, StampOK
<1> QED BY <1>5, <1>6, <1>8, <1>9 DEF IInv

\* The transaction goes on: it only gains steps.
LEMMA MigrateApplyStep ==
    ASSUME IInv, NEW p \in Procs, MigrateApply(p)
    PROVE  IInv'
<1>1. job[p] \in Running /\ job[p].at = "apply" /\ lock = p
  BY AtPlace DEF MigrateApply, At, IInv, TxnOK
<1>2. main # Missing /\ Fit(main) /\ Fit(wal)
  BY <1>1, AtWork DEF IInv, TypeOK
<1> DEFINE v == Least(Pending)
           i == [txn EXCEPT !.version = v, !.steps = txn.steps \cup {v}]
<1>3. CASE Applied(i) /\ UNCHANGED <<lock, job>>
  <2>1. v \in Pending /\ \A u \in Pending : v <= u
    <3> DEFINE u == IF txn.version = 0 THEN 2 ELSE txn.version + 1
    <3>1. txn.version \in Nat
      BY DEF IInv, TypeOK, Images
    <3>2. u \in Pending /\ \A w \in Pending : u <= w
      BY <3>1 DEF Pending, Steps, MigrateApply, IInv, StorageAssumption
    <3> QED BY <3>2 DEF Least
  <2> HIDE DEF v
  <2>2. i \in Images /\ i.version = v /\ i.steps = txn.steps \cup {v} /\ i.core = txn.core
    <3>1. txn \in Images /\ v \in Nat /\ v \in Steps
      BY <2>1 DEF IInv, TypeOK, Pending, Steps
    <3> QED BY <3>1 DEF Images
  <2> HIDE DEF i
  <2>3. txn.version \in Nat
    BY DEF IInv, TypeOK, Images
  <2>4. Steps \cap 1..v \subseteq i.steps
    <3> SUFFICES ASSUME NEW u \in Steps, u <= v, u # v PROVE u \in txn.steps
      BY <2>1, <2>2 DEF Steps, Pending
    <3>1. u <= txn.version
      BY <2>1, <2>3 DEF Pending, Steps
    <3> QED BY <1>1, <2>3, <3>1 DEF IInv, TxnOK, Steps, StorageAssumption
  <2>5. UNCHANGED Image
    BY <1>3 DEF Image, Applied
  <2>6. TypeOK'
    BY <1>3, <2>2 DEF IInv, TypeOK, Applied, MigrateApply
  <2>7. TxnOK'
    BY <1>1, <1>3, <2>1, <2>2, <2>4, <2>5 DEF IInv, TxnOK, Applied, Pending
  <2> QED BY <1>3, <2>5, <2>6, <2>7 DEF IInv, Apart, StampOK, Applied
<1>4. CASE lock' = NoProc /\ txn' = Missing /\ End(p) /\ UNCHANGED <<main, wal>>
  <2>1. Idle.at = "idle" /\ Missing \in Images
    BY Shapes DEF Idle
  <2> QED BY <1>1, <1>2, <1>4, <2>1, OneWorks DEF MigrateApply, End, IInv, TypeOK
<1> QED BY <1>3, <1>4 DEF MigrateApply

\* A transaction with nothing left to do has the newest version, or was never needed.
LEMMA Finished ==
    ASSUME IInv, lock # NoProc, Pending = {}
    PROVE  Fit(txn)
<1>1. txn \in Images /\ txn.core # "missing" /\ Steps \cap 1..txn.version \subseteq txn.steps
  BY DEF IInv, TypeOK, TxnOK
<1>2. txn.version \in {0, Old, Latest} \cup Steps
  BY DEF IInv, TxnOK
<1>3. txn.version \in Steps => txn.version = Latest
  BY DEF Pending, Steps, IInv, StorageAssumption
<1> QED BY <1>1, <1>2, <1>3 DEF Fit

LEMMA MigrateEndStep ==
    ASSUME IInv, NEW p \in Procs, MigrateEnd(p)
    PROVE  IInv'
<1>1. job[p] \in Running /\ job[p].at = "apply" /\ lock = p /\ lock # NoProc
  BY AtPlace DEF MigrateEnd, At, IInv, TxnOK, StorageAssumption
<1>2. main # Missing /\ Fit(main) /\ Fit(wal)
  BY <1>1, AtWork DEF IInv, TypeOK
<1>3. Fit(txn) /\ txn \in Images /\ txn.core # "missing" /\ Image.steps \subseteq txn.steps
  BY <1>1, Finished DEF MigrateEnd, IInv, TxnOK, TypeOK
<1>4. \/ UNCHANGED <<main, wal>>
      \/ Image' = txn /\ UNCHANGED main /\ wal' = txn
  BY <1>2, <1>3, Committed DEF MigrateEnd, Commit
<1>5. PICK step \in {"partial", "ready"} : Goto(p, step)
  BY DEF MigrateEnd, Opened
<1> DEFINE j == [job[p] EXCEPT !.at = step]
<1>6. job' = [job EXCEPT ![p] = j] /\ j \in Running /\ j.at = step
  BY <1>1, <1>5, Going
<1> HIDE DEF j
<1>7. Missing \in Images
  BY Shapes
<1> QED BY <1>1, <1>2, <1>3, <1>4, <1>5, <1>6, <1>7, OneWorks DEF MigrateEnd, IInv, TypeOK

LEMMA WriteStep ==
    ASSUME IInv, NEW p \in Procs, Write(p)
    PROVE  IInv'
<1> DEFINE i == [Image EXCEPT !.write = writes + 1]
<1>1. job[p] \in Running /\ job[p].at = "ready" /\ main # Missing /\ lock \in {NoProc, p}
  BY AtPlace, AtWork DEF Write, At, Free
<1>2. Fit(Image) /\ Fit(main) /\ writes \in Nat /\ Image.core = "full"
  BY ImageFits DEF IInv, TypeOK, Write
<1>3. /\ i \in Images /\ i.steps = Image.steps /\ i.core = Image.core
      /\ i.version = Image.version
  BY <1>2 DEF Fit, Images
<1>4. Fit(i)
  <2> HIDE DEF i
  <2> QED BY <1>2, <1>3 DEF Fit
<1>5. Image' = i /\ UNCHANGED main /\ wal' = i
  BY <1>1, <1>2, <1>3, Committed DEF Write, Commit
<1>6. job' = [job EXCEPT ![p] = job[p]]
  BY DEF Write, IInv, TypeOK
<1>7. writes' \in Nat
  BY <1>2 DEF Write
<1> HIDE DEF i
<1> QED BY <1>1, <1>2, <1>3, <1>4, <1>5, <1>6, <1>7, OneWorks DEF Write, IInv, TypeOK

LEMMA CloseStep ==
    ASSUME IInv, NEW p \in Procs, Close(p)
    PROVE  IInv'
<1>1. job[p] \in Running /\ job[p].at = "ready"
  BY AtPlace DEF Close, At
<1> QED BY <1>1, OnlyPlace DEF Close, End, Idle

\* A backup writes only other files.
LEMMA FilesOnly ==
    ASSUME IInv, NEW p \in Procs, job[p] \in Running, job[p].at # "apply",
           NEW j \in {Idle} \cup Running, job' = [job EXCEPT ![p] = j],
           j.at \notin {"apply", "stamp"}, UNCHANGED <<main, wal, lock, txn, writes>>,
           file' \in [Paths -> Files], \A f \in Paths : Fit(file'[f].image)
    PROVE  IInv'
BY OneWorks DEF IInv, TypeOK

LEMMA BackupBeginStep ==
    ASSUME IInv, NEW p \in Procs, BackupBegin(p)
    PROVE  IInv'
<1>1. job[p] \in Running /\ job[p].at = "partial"
  BY AtPlace DEF BackupBegin, At
<1> DEFINE j == [job[p] EXCEPT !.at = "copy", !.began = Image]
<1>2. Image \in Images
  BY ImageFits DEF IInv, Fit
<1>3. j \in Running /\ j.at = "copy"
  BY <1>1, <1>2 DEF Running
<1>4. job' = [job EXCEPT ![p] = j]
  BY DEF BackupBegin, IInv, TypeOK
<1>5. [by |-> p, image |-> Empty] \in Files /\ Fit(Empty)
  BY Shapes DEF Files
<1>6. file' \in [Paths -> Files] /\ \A f \in Paths : Fit(file'[f].image)
  BY <1>5 DEF BackupBegin, IInv, TypeOK
<1> HIDE DEF j
<1> QED BY <1>1, <1>3, <1>4, <1>6, FilesOnly DEF BackupBegin

LEMMA BackupCopyStep ==
    ASSUME IInv, NEW p \in Procs, BackupCopy(p)
    PROVE  IInv'
<1>1. job[p] \in Running /\ job[p].at = "copy"
  BY AtPlace DEF BackupCopy, At
<1> DEFINE j == [job[p] EXCEPT !.at = "replace"]
<1>2. job' = [job EXCEPT ![p] = j] /\ j \in Running /\ j.at = "replace"
  BY <1>1, Going DEF BackupCopy
<1>3. Fit(Image) /\ Image \in Images
  BY ImageFits DEF IInv, Fit
<1>4. file' \in [Paths -> Files] /\ \A f \in Paths : Fit(file'[f].image)
  BY <1>3 DEF BackupCopy, IInv, TypeOK, Files
<1> HIDE DEF j
<1> QED BY <1>1, <1>2, <1>4, FilesOnly DEF BackupCopy

LEMMA BackupEndStep ==
    ASSUME IInv, NEW p \in Procs, BackupEnd(p)
    PROVE  IInv'
<1>1. job[p] \in Running /\ job[p].at = "replace" /\ job[p].dest \in Dests
  BY AtPlace DEF BackupEnd, At, Running
<1>2. Target(job[p].dest) \in Paths /\ NoFile \in Files /\ Fit(NoFile.image)
  BY <1>1, Destinations, Shapes DEF Target, NoFile, Files
<1>3. file' \in [Paths -> Files] /\ \A f \in Paths : Fit(file'[f].image)
  BY <1>2 DEF BackupEnd, IInv, TypeOK
<1>4. CASE Goto(p, "migrate")
  <2> DEFINE j == [job[p] EXCEPT !.at = "migrate"]
  <2>1. job' = [job EXCEPT ![p] = j] /\ j \in Running /\ j.at = "migrate"
    BY <1>1, <1>4, Going
  <2> HIDE DEF j
  <2> QED BY <1>1, <1>3, <2>1, FilesOnly DEF BackupEnd
<1>5. CASE End(p)
  <2>1. Idle.at = "idle"
    BY DEF Idle
  <2> QED BY <1>1, <1>3, <1>5, <2>1, FilesOnly DEF BackupEnd, End
<1> QED BY <1>4, <1>5 DEF BackupEnd

-----------------------------------------------------------------------------
(* Restoring *)

\* Nobody else is there, no transaction is open, and nobody stamps.
LEMMA OneRestores ==
    ASSUME IInv, NEW p \in Procs, \A q \in Procs : job[q] = Idle \/ q = p,
           job[p] = Idle \/ job[p] \in RestoreJobs,
           NEW j \in {Idle} \cup RestoreJobs, job' = [job EXCEPT ![p] = j],
           Fit(main'), Fit(wal'), file' \in [Paths -> Files], \A f \in Paths : Fit(file'[f].image),
           UNCHANGED <<lock, txn, writes>>
    PROVE  IInv'
<1>1. \A q \in Procs : job'[q] \in {Idle, j} /\ (q # p => job'[q] = Idle)
  BY DEF IInv, TypeOK
<1>2. j.at \notin {"apply", "stamp"} /\ Idle.at \notin {"apply", "stamp"}
  BY Shapes DEF Idle
<1>3. \A q \in Procs : job[q].at # "apply"
  BY Shapes DEF Idle
<1>4. lock = NoProc
  BY <1>3 DEF IInv, TypeOK, TxnOK
<1>5. TypeOK'
  BY DEF IInv, TypeOK
<1>6. Apart'
  BY <1>1, Shapes DEF Apart
<1>7. TxnOK'
  BY <1>1, <1>2, <1>4 DEF IInv, TxnOK, StorageAssumption
<1>8. StampOK'
  BY <1>1, <1>2 DEF StampOK
<1> QED BY <1>5, <1>6, <1>7, <1>8 DEF IInv

LEMMA RestoreBeginStep ==
    ASSUME IInv, NEW p \in Procs, NEW from \in Dests \cup {Prerestore}, RestoreBegin(p, from)
    PROVE  IInv'
<1>1. PICK keep \in BOOLEAN :
        job' = [job EXCEPT ![p] = [at |-> IF keep THEN "save" ELSE "unlink",
                  run |-> "restore", from |-> from, keep |-> keep,
                  prior |-> Image, wanted |-> file[from].image]]
  BY DEF RestoreBegin
<1> DEFINE j == [at |-> IF keep THEN "save" ELSE "unlink", run |-> "restore", from |-> from,
                 keep |-> keep, prior |-> Image, wanted |-> file[from].image]
<1>2. Image \in Images /\ file[from].image \in Images
  BY ImageFits, Destinations DEF IInv, TypeOK, Fit
<1>3. j \in RestoreJobs
  BY <1>2 DEF RestoreJobs
<1> HIDE DEF j
<1> QED BY <1>1, <1>3, OneRestores DEF RestoreBegin, IInv, TypeOK, j

\* The steps of a restore, and what they do to the two files of the database.
LEMMA RestoreSteps ==
    ASSUME IInv, NEW p \in Procs,
           \/ RestoreSave(p) \/ RestoreUnlink(p) \/ RestoreUnlinkWal(p) \/ RestoreConnect(p)
           \/ RestoreCopy(p)
    PROVE  IInv'
<1>1. job[p] \in RestoreJobs
  BY DEF RestoreSave, RestoreUnlink, RestoreUnlinkWal, RestoreConnect, RestoreCopy, At,
         IInv, TypeOK, Idle, Running
<1>2. \A q \in Procs : job[q] = Idle \/ q = p
  BY <1>1 DEF IInv, Apart
<1>3. job[p].from \in Paths
  BY <1>1, Destinations DEF RestoreJobs
<1>4. Fit(main') /\ Fit(wal')
  BY <1>3, ImageFits, Shapes
     DEF RestoreSave, RestoreUnlink, RestoreUnlinkWal, RestoreConnect, RestoreCopy, IInv, TypeOK
<1>5. Fit(Image) /\ Image \in Images
  BY ImageFits DEF IInv, Fit
<1>6. file' \in [Paths -> Files] /\ \A f \in Paths : Fit(file'[f].image)
  BY <1>5, Destinations DEF RestoreSave, RestoreUnlink, RestoreUnlinkWal, RestoreConnect,
     RestoreCopy, IInv, TypeOK, Files, Saved
<1>7. PICK j \in {Idle} \cup RestoreJobs : job' = [job EXCEPT ![p] = j]
  <2>1. CASE End(p)
    BY <2>1 DEF End
  <2>2. ASSUME NEW step \in {"unlink", "unlink_wal", "connect", "copy_back"}, Goto(p, step)
        PROVE  \E j \in {Idle} \cup RestoreJobs : job' = [job EXCEPT ![p] = j]
    <3>1. [job[p] EXCEPT !.at = step] \in RestoreJobs
      BY <1>1 DEF RestoreJobs
    <3> QED BY <2>2, <3>1 DEF Goto
  <2> QED BY <2>1, <2>2 DEF RestoreSave, RestoreUnlink, RestoreUnlinkWal, RestoreConnect, RestoreCopy
<1>8. UNCHANGED <<lock, txn, writes>>
  BY DEF RestoreSave, RestoreUnlink, RestoreUnlinkWal, RestoreConnect, RestoreCopy
<1> QED BY <1>1, <1>2, <1>4, <1>6, <1>7, <1>8, OneRestores

-----------------------------------------------------------------------------
LEMMA CrashStep ==
    ASSUME IInv, NEW p \in Procs, Crash(p)
    PROVE  IInv'
<1>1. file' \in [Paths -> Files] /\ \A f \in Paths : Fit(file'[f].image)
  BY DEF Crash, IInv, TypeOK, Files
<1>2. job' = [job EXCEPT ![p] = Idle] /\ Idle.at = "idle" /\ Missing \in Images
  BY Shapes DEF Crash, End, Idle
<1>3. CASE job[p] \in Running
  <2>1. Fit(main) /\ Fit(wal) /\ UNCHANGED <<main, wal, writes>> /\ writes \in Nat
    BY DEF Crash, IInv, TypeOK
  <2>2. \/ lock # p /\ job[p].at # "apply" /\ UNCHANGED <<lock, txn>>
        \/ lock = p /\ lock' = NoProc /\ txn' = Missing
    BY DEF Crash, IInv, TxnOK
  <2> QED BY <1>1, <1>2, <1>3, <2>1, <2>2, OneWorks
<1>4. CASE job[p] \in RestoreJobs
  <2>1. \A q \in Procs : job[q] = Idle \/ q = p
    BY <1>4 DEF IInv, Apart
  <2>2. lock # p
    BY <1>4, Shapes DEF IInv, TxnOK
  <2> QED BY <1>1, <1>2, <1>4, <2>1, <2>2, OneRestores DEF Crash, IInv, TypeOK
<1> QED BY <1>3, <1>4 DEF Crash, IInv, TypeOK

LEMMA StepIInv ==
    ASSUME IInv, [Next]_vars
    PROVE  IInv'
<1>1. CASE UNCHANGED vars
  BY <1>1 DEF vars, IInv, TypeOK, Apart, TxnOK, StampOK, Image, Fit
<1>2. ASSUME NEW p \in Procs, NEW run \in Commands[p], Begin(p, run) PROVE IInv'
  BY <1>2, BeginStep
<1>3. ASSUME NEW p \in Procs, NEW from \in Dests \cup {Prerestore}, RestoreBegin(p, from) PROVE IInv'
  BY <1>3, RestoreBeginStep
<1>4. ASSUME NEW p \in Procs, Step(p) PROVE IInv'
  BY <1>4, StatusStep, CreateTablesStep, StampStep, MigrateReadStep, MigrateBeginStep,
     MigrateApplyStep, MigrateEndStep, WriteStep, CloseStep, BackupBeginStep, BackupCopyStep,
     BackupEndStep, RestoreSteps DEF Step
<1> QED BY <1>1, <1>2, <1>3, <1>4, CheckpointStep, CrashStep DEF Next

-----------------------------------------------------------------------------
(* What a restore keeps *)

Kept ==
    \A p \in Procs : job[p] \in RestoreJobs /\ job[p].from # Prerestore =>
        /\ file[job[p].from].image = job[p].wanted
        /\ job[p].keep => job[p].prior = IF job[p].at = "save" THEN Image ELSE file[Prerestore].image

LEMMA NobodyRestores ==
    ASSUME \A p \in Procs : job'[p] \notin RestoreJobs
    PROVE  Kept'
BY DEF Kept

LEMMA WorkingKept ==
    ASSUME IInv, NEW p \in Procs, job[p] \in Running, Step(p)
    PROVE  Kept'
<1>1. \A q \in Procs : job[q] \notin RestoreJobs
  BY AtWork
<1>2. job[p].at \notin {"save", "unlink", "unlink_wal", "connect", "copy_back"}
  BY DEF Running
<1>3. PICK j : job' = [job EXCEPT ![p] = j] /\ (j = Idle \/ j.run # "restore")
  <2>1. CASE End(p)
    BY <2>1 DEF End
  <2>2. ASSUME NEW step, Goto(p, step)
        PROVE  \E j : job' = [job EXCEPT ![p] = j] /\ (j = Idle \/ j.run # "restore")
    <3>1. job' = [job EXCEPT ![p] = [job[p] EXCEPT !.at = step]]
      BY <2>2 DEF Goto
    <3>2. [job[p] EXCEPT !.at = step].run # "restore"
      BY DEF Running
    <3> QED BY <3>1, <3>2
  <2>3. CASE UNCHANGED job
    <3>1. job' = [job EXCEPT ![p] = job[p]] /\ job[p].run # "restore"
      BY <2>3 DEF IInv, TypeOK, Running
    <3> QED BY <3>1
  <2>4. ASSUME NEW dest, job' = [job EXCEPT ![p].at = "partial", ![p].dest = dest]
        PROVE  \E j : job' = [job EXCEPT ![p] = j] /\ (j = Idle \/ j.run # "restore")
    <3>1. job' = [job EXCEPT ![p] = [job[p] EXCEPT !.at = "partial", !.dest = dest]]
      BY <2>4 DEF IInv, TypeOK
    <3>2. [job[p] EXCEPT !.at = "partial", !.dest = dest].run # "restore"
      BY DEF Running
    <3> QED BY <3>1, <3>2
  <2>5. CASE job' = [job EXCEPT ![p].at = "copy", ![p].began = Image]
    <3>1. job' = [job EXCEPT ![p] = [job[p] EXCEPT !.at = "copy", !.began = Image]]
      BY <2>5 DEF IInv, TypeOK
    <3>2. [job[p] EXCEPT !.at = "copy", !.began = Image].run # "restore"
      BY DEF Running
    <3> QED BY <3>1, <3>2
  <2> QED BY <1>2, <2>1, <2>2, <2>3, <2>4, <2>5
          DEF Step, Status, CreateTables, Stamp, MigrateRead, MigrateBegin, MigrateApply, MigrateEnd,
              Write, Close, BackupBegin, BackupCopy, BackupEnd, RestoreSave, RestoreUnlink,
              RestoreUnlinkWal, RestoreConnect, RestoreCopy, At, Applied
<1> QED BY <1>1, <1>3, Shapes, NobodyRestores DEF IInv, TypeOK

LEMMA RestoringKept ==
    ASSUME IInv, Kept, NEW p \in Procs, job[p] \in RestoreJobs, Step(p)
    PROVE  Kept'
<1>1. \A q \in Procs : job[q] = Idle \/ q = p
  BY DEF IInv, Apart
<1>2. job[p].from \in Paths /\ Prerestore \in Paths /\ job[p].run = "restore"
  BY Destinations DEF RestoreJobs
<1>3. CASE RestoreSave(p)
  <2> DEFINE j == [job[p] EXCEPT !.at = "unlink"]
  <2>1. job' = [job EXCEPT ![p] = j]
    BY <1>3 DEF RestoreSave, Goto
  <2>2. /\ j.from = job[p].from /\ j.keep = job[p].keep /\ j.prior = job[p].prior
        /\ j.wanted = job[p].wanted
    BY DEF RestoreJobs
  <2> HIDE DEF j
  <2>3. \A q \in Procs : job'[q] = IF q = p THEN j ELSE Idle
    BY <1>1, <2>1 DEF IInv, TypeOK
  <2>4. file' = [file EXCEPT ![Prerestore] = [by |-> NoProc, image |-> Image]]
    BY <1>3 DEF RestoreSave, Saved
  <2>5. job[p].from # Prerestore => file'[job[p].from] = file[job[p].from]
    BY <1>2, <2>4 DEF IInv, TypeOK
  <2>6. file'[Prerestore].image = Image
    BY <1>2, <2>4 DEF IInv, TypeOK
  <2>7. job[p].from # Prerestore =>
            /\ file[job[p].from].image = job[p].wanted
            /\ job[p].keep => job[p].prior = Image
    BY <1>3 DEF Kept, RestoreSave, At
  <2>8. j.at = "unlink"
    BY DEF j, RestoreJobs
  <2> QED BY <2>2, <2>3, <2>5, <2>6, <2>7, <2>8, Shapes DEF Kept
<1>4. ASSUME NEW step, step # "save", Goto(p, step), UNCHANGED file, job[p].at # "save"
      PROVE  Kept'
  <2> DEFINE j == [job[p] EXCEPT !.at = step]
  <2>1. job' = [job EXCEPT ![p] = j]
    BY <1>4 DEF Goto
  <2>2. /\ j.from = job[p].from /\ j.keep = job[p].keep /\ j.prior = job[p].prior
        /\ j.wanted = job[p].wanted
    BY DEF RestoreJobs
  <2>3. j.at = step
    BY DEF RestoreJobs
  <2> HIDE DEF j
  <2>4. \A q \in Procs : job'[q] = IF q = p THEN j ELSE Idle
    BY <1>1, <2>1 DEF IInv, TypeOK
  <2> QED BY <1>4, <2>2, <2>3, <2>4, Shapes DEF Kept
<1>5. CASE End(p)
  <2>1. \A q \in Procs : job'[q] = Idle
    BY <1>1, <1>5 DEF IInv, TypeOK, End
  <2> QED BY <2>1, Shapes, NobodyRestores
<1>6. job[p].at \in {"save", "unlink", "unlink_wal", "connect", "copy_back"}
  BY DEF RestoreJobs
<1> QED BY <1>3, <1>4, <1>5, <1>6
        DEF Step, Status, CreateTables, Stamp, MigrateRead, MigrateBegin, MigrateApply, MigrateEnd,
            Write, Close, BackupBegin, BackupCopy, BackupEnd, RestoreUnlink,
            RestoreUnlinkWal, RestoreConnect, RestoreCopy, At

LEMMA RestoreBeginKept ==
    ASSUME IInv, NEW p \in Procs, NEW from \in Dests \cup {Prerestore}, RestoreBegin(p, from)
    PROVE  Kept'
<1>1. PICK keep \in BOOLEAN :
        job' = [job EXCEPT ![p] = [at |-> IF keep THEN "save" ELSE "unlink",
                  run |-> "restore", from |-> from, keep |-> keep,
                  prior |-> Image, wanted |-> file[from].image]]
  BY DEF RestoreBegin
<1>2. UNCHANGED <<file, Image>> /\ \A q \in Procs : job[q] = Idle
  BY DEF RestoreBegin, Image
<1> QED BY <1>1, <1>2, Shapes DEF Kept, IInv, TypeOK

LEMMA StepKept ==
    ASSUME IInv, Kept, [Next]_vars
    PROVE  Kept'
<1>1. ASSUME NEW p \in Procs, Step(p)
      PROVE  Kept'
  <2>1. CASE job[p] = Idle
    BY <1>1, <2>1 DEF Idle, Step, Status, CreateTables, Stamp, MigrateRead, MigrateBegin, MigrateApply,
       MigrateEnd, Write, Close, BackupBegin, BackupCopy, BackupEnd, RestoreSave, RestoreUnlink,
       RestoreUnlinkWal, RestoreConnect, RestoreCopy, At
  <2> QED BY <1>1, <2>1, WorkingKept, RestoringKept DEF IInv, TypeOK
<1>2. ASSUME NEW p \in Procs, NEW run \in Commands[p], Begin(p, run)
      PROVE  Kept'
  <2>1. \A q \in Procs : job[q] \notin RestoreJobs
    BY <1>2, Shapes DEF Begin, Restoring
  <2>2. job' = [job EXCEPT ![p] = [at |-> FirstStep(run), run |-> run, dest |-> Snapshot,
                                   began |-> Missing]] /\ run # "restore"
    BY <1>2 DEF Begin
  <2>3. \A q \in Procs : job'[q] \notin RestoreJobs
    BY <2>1, <2>2, Shapes DEF IInv, TypeOK
  <2> QED BY <2>3, NobodyRestores
<1>3. CASE Checkpoint
  <2>1. \A q \in Procs : job[q] \notin RestoreJobs
    BY <1>3, Shapes DEF Checkpoint, Restoring
  <2> QED BY <1>3, <2>1, NobodyRestores DEF Checkpoint
<1>4. ASSUME NEW p \in Procs, Crash(p)
      PROVE  Kept'
  <2>1. job' = [job EXCEPT ![p] = Idle] /\ UNCHANGED Image
    BY <1>4 DEF Crash, End, Image
  <2>2. \A f \in Paths : file'[f].image = file[f].image
    BY <1>4 DEF Crash, IInv, TypeOK, Files
  <2>3. \A q \in Procs : job'[q] \in RestoreJobs => job'[q] = job[q] /\ job[q].from \in Paths
    BY <2>1, Destinations, Shapes DEF IInv, TypeOK, RestoreJobs
  <2> QED BY <2>1, <2>2, <2>3, Destinations DEF Kept
<1>5. CASE UNCHANGED vars
  BY <1>5 DEF vars, Kept, Image
<1> QED BY <1>1, <1>2, <1>3, <1>4, <1>5, RestoreBeginKept DEF Next

-----------------------------------------------------------------------------
LEMMA IInvHolds == StorageAssumption /\ Spec => []IInv
<1>1. StorageAssumption /\ Init => IInv
  BY InitIInv
<1>2. IInv /\ [Next]_vars => IInv'
  BY StepIInv
<1> QED BY <1>1, <1>2, PTL DEF Spec

\* However many processes open, create and migrate, and wherever they end, whoever looks
\* sees the database as it was or the newest, with all the steps of its version
\* (migrate.py:186-223).
THEOREM NobodySeesHalf == StorageAssumption /\ Spec => []NoHalfMigration
<1>1. IInv => NoHalfMigration
  BY ImageFits DEF IInv, Fit, NoHalfMigration
<1> QED BY <1>1, IInvHolds, PTL

\* A restore has on disk what it replaces, if it keeps that, and what it restores, at each
\* of its steps (backup.py:109-178).
THEOREM RestoreKeepsBoth == StorageAssumption /\ Spec => []RestoreDestroysNothing
<1>1. StorageAssumption /\ Init => Kept
  <2> SUFFICES ASSUME Init PROVE Kept
    OBVIOUS
  <2> QED BY Shapes DEF Init, Kept
<1>2. IInv /\ Kept /\ [Next]_vars => Kept'
  BY StepKept
<1>3. IInv /\ Kept => RestoreDestroysNothing
  <2> SUFFICES ASSUME IInv, Kept, NEW p \in Procs, job[p] # Idle, job[p].run = "restore"
               PROVE  job[p] \in RestoreJobs
    BY DEF Kept, RestoreDestroysNothing
  <2> QED BY Shapes DEF IInv, TypeOK
<1> QED BY <1>1, <1>2, <1>3, IInvHolds, PTL DEF Spec

-----------------------------------------------------------------------------
(* What a backup puts in place *)

\* A later state of the same database.
Later(image, earlier) ==
    /\ earlier.write <= image.write /\ earlier.version <= image.version
    /\ image.core = "none" => earlier.core = "none"

BackingUp(p) == job[p].at \in {"copy", "replace"}

\* No two backups are at work on one destination.
OneForEach ==
    \A p, q \in Procs : p # q /\ BackingUp(p) /\ BackingUp(q) => job[p].dest # job[q].dest

\* Nothing has more writes than there were.
WritesOK ==
    /\ main.write <= writes /\ wal.write <= writes /\ txn.write <= writes
    /\ \A f \in Paths : file[f].image.write <= writes

TxnLater == lock # NoProc => Later(txn, Image)

\* A file that is being written is the copy of a backup under way.
HandlesOK ==
    \A f \in Paths, p \in Procs :
        file[f].by = p => job[p].at = "copy" /\ f = Partial(job[p].dest)

\* The copy under way, and the one that is complete, between what was there when the
\* backup began and what is there now.
CopyOK(p) ==
    LET copy == file[Partial(job[p].dest)]
    IN  /\ job[p].at = "copy" => copy.by = p /\ Later(Image, job[p].began)
        /\ job[p].at = "replace" => Later(copy.image, job[p].began) /\ Later(Image, copy.image)

CopiesOK == HandlesOK /\ \A p \in Procs : CopyOK(p)

LEMMA PathsApart ==
    /\ \A f \in Dests : Partial(f) \notin Dests /\ Partial(f) # Prerestore /\ f # Prerestore
    /\ \A f, g \in Dests : Partial(f) = Partial(g) => f = g
<1>1. \A f \in Dests : f \in {Snapshot} \cup {Premigrate(v) : v \in 0..Latest}
  BY DEF Dests
<1>2. \A f \in Dests : \E s \in {"snapshot", "pre-migrate"} : \E v : f = <<s, v, "">>
  BY <1>1 DEF Snapshot, Premigrate
<1>3. ASSUME NEW f \in Dests
      PROVE  Partial(f) \notin Dests /\ Partial(f) # Prerestore /\ f # Prerestore
  <2>1. PICK s \in {"snapshot", "pre-migrate"} : \E v : f = <<s, v, "">>
    BY <1>2
  <2>2. PICK v : f = <<s, v, "">>
    BY <2>1
  <2> QED BY <1>2, <2>2 DEF Partial, Prerestore
<1>4. ASSUME NEW f \in Dests, NEW g \in Dests, Partial(f) = Partial(g)
      PROVE  f = g
  <2>1. PICK s \in {"snapshot", "pre-migrate"} : \E v : f = <<s, v, "">>
    BY <1>2
  <2>2. PICK v : f = <<s, v, "">>
    BY <2>1
  <2>3. PICK t \in {"snapshot", "pre-migrate"} : \E v2 : g = <<t, v2, "">>
    BY <1>2
  <2>4. PICK w : g = <<t, w, "">>
    BY <2>3
  <2> QED BY <1>4, <2>2, <2>4 DEF Partial
<1> QED BY <1>3, <1>4

LEMMA LaterIsOrder ==
    /\ \A i \in Images : Later(i, i)
    /\ \A i, j, k \in Images : Later(i, j) /\ Later(j, k) => Later(i, k)
BY DEF Later, Images

LEMMA ImageWrites ==
    ASSUME TypeOK, WritesOK
    PROVE  Image.write <= writes
BY DEF Image, WritesOK

\* Whoever finds the lock free sees nothing of a transaction, and commits something later.
LEMMA ImageGrows ==
    ASSUME IInv, WritesOK, TxnLater, main # Missing, NEW p \in Procs, Step(p), job[p] \in Running
    PROVE  /\ Later(Image', Image)
           /\ lock \notin {NoProc, p} => UNCHANGED Image
<1>1. Image \in Images /\ Fit(Image) /\ Image.core # "missing" /\ writes \in Nat
  BY ThereFits DEF IInv, Fit, TypeOK
<1>2. job[p].at \notin {"save", "unlink", "unlink_wal", "connect", "copy_back"}
  BY DEF Running
<1>3. Later(Image, Image)
  BY <1>1, LaterIsOrder
<1>4. CASE UNCHANGED <<main, wal>>
  BY <1>3, <1>4 DEF Image
<1>5. ASSUME NEW i \in Images, Commit(i), Later(i, Image), i.core # "missing", lock \in {NoProc, p}
      PROVE  Later(Image', Image) /\ (lock \notin {NoProc, p} => UNCHANGED Image)
  BY <1>5, Committed
<1>6. CASE CreateTables(p)
  <2>1. lock \in {NoProc, p}
    BY <1>6 DEF CreateTables, Free
  <2>2. ASSUME NEW core \in {"some", "enough"}, Commit([Image EXCEPT !.core = core])
        PROVE  Later(Image', Image)
    <3>1. PICK i : i = [Image EXCEPT !.core = core]
      OBVIOUS
    <3>2. i \in Images /\ i.core = core /\ i.write = Image.write /\ i.version = Image.version
      BY <1>1, <3>1 DEF Images
    <3>3. Later(i, Image)
      BY <1>1, <3>2 DEF Later, Images
    <3> QED BY <1>5, <2>1, <2>2, <3>1, <3>2, <3>3
  <2>3. ASSUME Commit([Image EXCEPT !.core = "full", !.steps = Steps])
        PROVE  Later(Image', Image)
    <3>1. PICK i : i = [Image EXCEPT !.core = "full", !.steps = Steps]
      OBVIOUS
    <3>2. i \in Images /\ i.core = "full" /\ i.write = Image.write /\ i.version = Image.version
      BY <1>1, <3>1 DEF Images
    <3>3. Later(i, Image)
      BY <1>1, <3>2 DEF Later, Images
    <3> QED BY <1>5, <2>1, <2>3, <3>1, <3>2, <3>3
  <2> QED BY <1>4, <1>6, <2>1, <2>2, <2>3 DEF CreateTables
<1>7. CASE Stamp(p)
  <2>1. lock \in {NoProc, p}
    BY <1>7 DEF Stamp, Free
  <2>2. PICK i : i = [Image EXCEPT !.version = Latest]
    OBVIOUS
  <2>3. i \in Images /\ i.core = Image.core /\ i.write = Image.write /\ i.version = Latest
    BY <1>1, <2>2 DEF Images, IInv, StorageAssumption
  <2>4. Image.version <= Latest
    BY <1>1 DEF Fit, IInv, StorageAssumption
  <2>5. Later(i, Image)
    BY <1>1, <2>3, <2>4 DEF Later, Images
  <2> QED BY <1>1, <1>5, <1>7, <2>1, <2>2, <2>3, <2>5 DEF Stamp
<1>8. CASE Write(p)
  <2>1. lock \in {NoProc, p}
    BY <1>8 DEF Write, Free
  <2>2. PICK i : i = [Image EXCEPT !.write = writes + 1]
    OBVIOUS
  <2>3. i \in Images /\ i.core = Image.core /\ i.write = writes + 1 /\ i.version = Image.version
    BY <1>1, <2>2 DEF Images
  <2>4. Image.write <= writes
    BY ImageWrites DEF IInv
  <2>5. Later(i, Image)
    BY <1>1, <2>3, <2>4 DEF Later, Images
  <2> QED BY <1>1, <1>5, <1>8, <2>1, <2>2, <2>3, <2>5 DEF Write
<1>9. CASE MigrateEnd(p)
  <2>1. lock = p /\ lock # NoProc /\ txn \in Images /\ txn.core # "missing"
    BY <1>9 DEF MigrateEnd, At, IInv, TxnOK, TypeOK, StorageAssumption
  <2> QED BY <1>4, <1>5, <1>9, <2>1 DEF MigrateEnd, TxnLater
<1> QED BY <1>2, <1>4, <1>6, <1>7, <1>8, <1>9
        DEF Step, Status, MigrateRead, MigrateBegin, MigrateApply, Close, BackupBegin, BackupCopy,
            BackupEnd, RestoreSave, RestoreUnlink, RestoreUnlinkWal, RestoreConnect, RestoreCopy,
            At, Applied

\* While somebody is at work, the database only goes forward.
LEMMA Forward ==
    ASSUME IInv, WritesOK, TxnLater, NEW p \in Procs, job[p] \in Running, Next
    PROVE  Later(Image', Image)
<1>1. main # Missing /\ \A q \in Procs : job[q] \notin RestoreJobs
  BY AtWork
<1>2. Image \in Images
  BY ImageFits DEF IInv, Fit
<1>3. ASSUME NEW q \in Procs, Step(q)
      PROVE  Later(Image', Image)
  <2>1. job[q] # Idle
    BY <1>3 DEF Idle, Step, Status, CreateTables, Stamp, MigrateRead, MigrateBegin, MigrateApply,
       MigrateEnd, Write, Close, BackupBegin, BackupCopy, BackupEnd, RestoreSave, RestoreUnlink,
       RestoreUnlinkWal, RestoreConnect, RestoreCopy, At
  <2> QED BY <1>1, <1>3, <2>1, ImageGrows DEF IInv, TypeOK
<1>4. ASSUME UNCHANGED Image
      PROVE  Later(Image', Image)
  BY <1>2, <1>4, LaterIsOrder
<1>5. ASSUME NEW q \in Procs, NEW run \in Commands[q], Begin(q, run)
      PROVE  UNCHANGED Image
  BY <1>1, <1>5 DEF Begin, Image
<1>6. ASSUME NEW q \in Procs, NEW from \in Dests \cup {Prerestore}, RestoreBegin(q, from)
      PROVE  UNCHANGED Image
  BY <1>6 DEF RestoreBegin, Image
<1>7. ASSUME NEW q \in Procs, Crash(q)
      PROVE  UNCHANGED Image
  BY <1>7 DEF Crash, Image
<1>8. Checkpoint => UNCHANGED Image
  BY DEF Checkpoint, Image
<1> QED BY <1>3, <1>4, <1>5, <1>6, <1>7, <1>8 DEF Next

\* Copies of images have no more writes than they.
LEMMA WritesStep ==
    ASSUME IInv, WritesOK, Next
    PROVE  WritesOK'
<1>1. /\ Missing.write = 0 /\ Empty.write = 0 /\ writes \in Nat
      /\ main \in Images /\ wal \in Images /\ txn \in Images /\ Image \in Images
      /\ Image.write <= writes /\ file \in [Paths -> Files]
  BY ImageFits, ImageWrites DEF Missing, Empty, IInv, TypeOK, Fit
<1>2. CASE Checkpoint
  BY <1>1, <1>2 DEF Checkpoint, WritesOK
<1>3. ASSUME NEW p \in Procs, NEW run \in Commands[p], Begin(p, run)
      PROVE  WritesOK'
  BY <1>1, <1>3 DEF Begin, WritesOK
<1>4. ASSUME NEW p \in Procs, NEW from \in Dests \cup {Prerestore}, RestoreBegin(p, from)
      PROVE  WritesOK'
  BY <1>4 DEF RestoreBegin, WritesOK
<1>5. ASSUME NEW p \in Procs, Crash(p)
      PROVE  WritesOK'
  <2>1. \A f \in Paths : file'[f].image = file[f].image
    BY <1>5 DEF Crash, IInv, TypeOK, Files
  <2> QED BY <1>1, <1>5, <2>1 DEF Crash, WritesOK
<1>6. ASSUME NEW p \in Procs, Step(p)
      PROVE  WritesOK'
  <2>1. CASE UNCHANGED <<main, wal, file, txn, writes>>
    BY <2>1 DEF WritesOK
  <2>2. ASSUME NEW i, i.write <= writes', Commit(i), writes' \in Nat, writes <= writes',
               UNCHANGED file, txn' \in {txn, Missing}
        PROVE  WritesOK'
    <3>1. \A f \in Paths : file[f].image.write \in Nat
      BY <1>1 DEF Files, Images
    <3> QED BY <1>1, <2>2, <3>1 DEF WritesOK, Commit, Images
  <2>3. CASE CreateTables(p)
    <3>1. \/ UNCHANGED <<main, wal>>
          \/ \E core, s : \/ Commit([Image EXCEPT !.core = core])
                         \/ Commit([Image EXCEPT !.core = core, !.steps = s])
      BY <2>3 DEF CreateTables
    <3> SUFFICES ASSUME ~ UNCHANGED <<main, wal>> PROVE WritesOK'
      BY <2>1, <2>3 DEF CreateTables
    <3>2. PICK core, s : \/ Commit([Image EXCEPT !.core = core])
                         \/ Commit([Image EXCEPT !.core = core, !.steps = s])
      BY <3>1
    <3>3. PICK i : /\ Commit(i)
                   /\ i \in {[Image EXCEPT !.core = core], [Image EXCEPT !.core = core, !.steps = s]}
      BY <3>2
    <3>4. i.write = Image.write
      BY <1>1, <3>3 DEF Images
    <3> QED BY <1>1, <2>2, <2>3, <3>3, <3>4 DEF CreateTables
  <2>4. CASE Stamp(p)
    <3>1. PICK i : i = [Image EXCEPT !.version = Latest]
      OBVIOUS
    <3>2. i.write = Image.write
      BY <1>1, <3>1 DEF Images
    <3>3. Commit(i) /\ UNCHANGED <<file, txn, writes>>
      BY <2>4, <3>1 DEF Stamp
    <3> QED BY <1>1, <2>2, <3>2, <3>3
  <2>5. CASE Write(p)
    <3>1. PICK i : i = [Image EXCEPT !.write = writes + 1]
      OBVIOUS
    <3>2. i.write = writes + 1
      BY <1>1, <3>1 DEF Images
    <3>3. Commit(i) /\ UNCHANGED <<file, txn>> /\ writes' = writes + 1
      BY <2>5, <3>1 DEF Write
    <3> QED BY <1>1, <2>2, <3>2, <3>3
  <2>6. CASE MigrateBegin(p)
    BY <1>1, <2>6 DEF MigrateBegin, WritesOK
  <2>7. CASE MigrateApply(p)
    <3>1. \A v, s : [txn EXCEPT !.version = v, !.steps = s].write = txn.write
      BY <1>1 DEF Images
    <3>2. \/ txn' = Missing
          \/ \E v, s : txn' = [txn EXCEPT !.version = v, !.steps = s]
      BY <2>7 DEF MigrateApply, Applied
    <3>3. PICK next : next = txn'
      OBVIOUS
    <3>4. next.write \in {0, txn.write}
      BY <1>1, <3>1, <3>2, <3>3
    <3>5. UNCHANGED <<main, wal, file, writes>>
      BY <2>7 DEF MigrateApply, Applied
    <3>6. 0 <= writes /\ txn.write <= writes
      BY <1>1 DEF WritesOK
    <3> QED BY <3>3, <3>4, <3>5, <3>6 DEF WritesOK
  <2>8. CASE MigrateEnd(p)
    <3>1. txn' = Missing /\ UNCHANGED <<file, writes>>
      BY <2>8 DEF MigrateEnd
    <3>2. CASE Commit(txn)
      BY <1>1, <2>2, <3>1, <3>2 DEF WritesOK
    <3>3. CASE UNCHANGED <<main, wal>>
      BY <1>1, <3>1, <3>3 DEF WritesOK
    <3> QED BY <2>8, <3>2, <3>3 DEF MigrateEnd
  <2>9. ASSUME NEW f \in Paths, NEW copy, copy.image.write <= writes,
               file' = [file EXCEPT ![f] = copy],
               main' \in {main, Image}, wal' \in {wal, Missing}, UNCHANGED <<txn, writes>>
        PROVE  WritesOK'
    BY <1>1, <2>9 DEF WritesOK
  <2>10. job[p].dest \in Dests => Partial(job[p].dest) \in Paths /\ job[p].dest \in Paths
    BY Destinations
  <2>11. job[p].at \in {"partial", "copy", "replace"} => job[p].dest \in Dests
    BY AtPlace DEF Running
  <2>12. CASE BackupBegin(p)
    <3>1. PICK copy : copy = [by |-> p, image |-> Empty]
      OBVIOUS
    <3>2. copy.image.write = 0 /\ 0 <= writes
      BY <1>1, <3>1
    <3> QED BY <2>9, <2>10, <2>11, <2>12, <3>1, <3>2 DEF BackupBegin, At, Target
  <2>13. CASE BackupCopy(p)
    <3>1. \A f \in Paths : file'[f].image \in {Image, file[f].image}
      BY <1>1, <2>13 DEF BackupCopy
    <3> QED BY <1>1, <2>13, <3>1 DEF BackupCopy, WritesOK
  <2>14. CASE BackupEnd(p)
    <3>1. \A f \in Paths : file'[f] \in {NoFile, file[f], file[Partial(job[p].dest)]}
      BY <1>1, <2>10, <2>11, <2>14 DEF BackupEnd, At, Target
    <3>2. \A f \in Paths : file'[f].image.write <= writes
      BY <1>1, <2>10, <2>11, <2>14, <3>1 DEF BackupEnd, At, NoFile, WritesOK
    <3> QED BY <2>14, <3>2 DEF BackupEnd, WritesOK
  <2>15. CASE RestoreSave(p)
    BY <1>1, <2>9, <2>15, Destinations DEF RestoreSave, Saved
  <2>16. CASE RestoreUnlink(p) \/ RestoreUnlinkWal(p) \/ RestoreConnect(p)
    BY <1>1, <2>16 DEF RestoreUnlink, RestoreUnlinkWal, RestoreConnect, WritesOK
  <2>17. CASE RestoreCopy(p)
    <3>1. job[p].from \in Paths
      BY <2>17, Destinations DEF RestoreCopy, At, IInv, TypeOK, Idle, Running, RestoreJobs
    <3> QED BY <1>1, <2>17, <3>1 DEF RestoreCopy, WritesOK
  <2>18. Status(p) \/ MigrateRead(p) \/ Close(p) => UNCHANGED <<main, wal, file, txn, writes>>
    BY DEF Status, MigrateRead, Close
  <2> QED BY <1>6, <2>1, <2>3, <2>4, <2>5, <2>6, <2>7, <2>8, <2>12, <2>13, <2>14, <2>15, <2>16,
             <2>17, <2>18 DEF Step
<1> QED BY <1>2, <1>3, <1>4, <1>5, <1>6 DEF Next

LEMMA TxnLaterStep ==
    ASSUME IInv, WritesOK, TxnLater, Next
    PROVE  TxnLater'
<1>1. txn \in Images /\ Image \in Images
  BY ImageFits DEF IInv, TypeOK, Fit
<1>2. CASE UNCHANGED <<Image, lock, txn>>
  BY <1>2 DEF TxnLater, Later
<1>3. CASE lock' = NoProc
  BY <1>3 DEF TxnLater
<1>4. lock # NoProc => \E p \in Procs : job[p] \in Running /\ lock = p
  BY AtPlace DEF IInv, TypeOK, TxnOK
<1>5. lock # NoProc => main # Missing /\ \A q \in Procs : job[q] \notin RestoreJobs
  BY <1>4, AtWork
<1>6. CASE Checkpoint
  BY <1>2, <1>6 DEF Checkpoint, Image
<1>7. ASSUME NEW p \in Procs, NEW run \in Commands[p], Begin(p, run)
      PROVE  TxnLater'
  BY <1>2, <1>3, <1>5, <1>7 DEF Begin, Image
<1>8. ASSUME NEW p \in Procs, NEW from \in Dests \cup {Prerestore}, RestoreBegin(p, from)
      PROVE  TxnLater'
  BY <1>2, <1>8 DEF RestoreBegin, Image
<1>9. ASSUME NEW p \in Procs, Crash(p)
      PROVE  TxnLater'
  BY <1>2, <1>3, <1>9 DEF Crash, Image
<1>10. ASSUME NEW p \in Procs, Step(p)
       PROVE  TxnLater'
  <2>1. CASE MigrateBegin(p)
    <3>1. txn' = Image /\ UNCHANGED Image
      BY <2>1 DEF MigrateBegin, Image
    <3> QED BY <1>1, <3>1, LaterIsOrder DEF TxnLater
  <2>2. CASE MigrateApply(p) /\ lock' # NoProc
    <3>1. lock # NoProc /\ UNCHANGED Image /\ Pending # {}
      BY <2>2 DEF MigrateApply, Applied, Image
    <3>2. txn' = [txn EXCEPT !.version = Least(Pending), !.steps = txn.steps \cup {Least(Pending)}]
      BY <2>2 DEF MigrateApply, Applied
    <3>3. Least(Pending) \in Pending
      <4> DEFINE u == IF txn.version = 0 THEN 2 ELSE txn.version + 1
      <4>1. txn.version \in Nat
        BY <1>1 DEF Images
      <4>2. u \in Pending /\ \A w \in Pending : u <= w
        BY <3>1, <4>1 DEF Pending, Steps, IInv, StorageAssumption
      <4> QED BY <4>2 DEF Least
    <3>4. PICK v : v = Least(Pending)
      OBVIOUS
    <3>5. /\ txn'.version = v /\ txn.version <= v
          /\ txn'.write = txn.write /\ txn'.core = txn.core
      BY <1>1, <3>2, <3>3, <3>4 DEF Images, Pending, Steps
    <3>6. v \in Nat
      BY <3>3, <3>4 DEF Pending, Steps
    <3>7. Later(txn, Image) /\ txn.version \in Nat /\ Image.version \in Nat
      BY <1>1, <3>1 DEF TxnLater, Images
    <3> QED BY <3>1, <3>5, <3>6, <3>7 DEF TxnLater, Later
  <2>3. CASE UNCHANGED <<lock, txn>> /\ lock # NoProc
    <3>1. job[p] \in Running
      BY <1>5, <1>10, <2>3 DEF IInv, TypeOK, Idle, Step, Status, CreateTables, Stamp, MigrateRead,
         MigrateBegin, MigrateApply, MigrateEnd, Write, Close, BackupBegin, BackupCopy, BackupEnd,
         RestoreSave, RestoreUnlink, RestoreUnlinkWal, RestoreConnect, RestoreCopy, At
    <3>2. CASE lock # p
      BY <1>2, <1>5, <1>10, <2>3, <3>1, <3>2, ImageGrows
    <3>3. CASE lock = p
      <4>1. job[p].at = "apply"
        BY <2>3, <3>3 DEF IInv, TxnOK
      <4> QED BY <1>2, <1>3, <1>10, <2>2, <2>3, <4>1
              DEF Step, Status, CreateTables, Stamp, MigrateRead, MigrateBegin, MigrateEnd, Write,
                  Close, BackupBegin, BackupCopy, BackupEnd, RestoreSave, RestoreUnlink,
                  RestoreUnlinkWal, RestoreConnect, RestoreCopy, At
    <3> QED BY <3>2, <3>3
  <2> QED BY <1>3, <1>10, <2>1, <2>2, <2>3
          DEF Step, Status, CreateTables, Stamp, MigrateRead, MigrateEnd, Write, Close,
              BackupBegin, BackupCopy, BackupEnd, RestoreSave, RestoreUnlink, RestoreUnlinkWal,
              RestoreConnect, RestoreCopy
<1> QED BY <1>6, <1>7, <1>8, <1>9, <1>10 DEF Next

LEMMA CopyTypes ==
    ASSUME IInv, NEW p \in Procs, BackingUp(p)
    PROVE  /\ job[p] \in Running /\ job[p].dest \in Dests /\ job[p].began \in Images
           /\ Partial(job[p].dest) \in Paths
           /\ file[Partial(job[p].dest)].image \in Images
<1>1. job[p] \in Running
  BY AtPlace DEF BackingUp
<1>2. job[p].dest \in Dests /\ job[p].began \in Images
  BY <1>1 DEF Running
<1>3. Partial(job[p].dest) \in Paths
  BY <1>2, Destinations
<1> QED BY <1>1, <1>2, <1>3 DEF IInv, TypeOK, Files

\* What is no step of a backup leaves the copies as they are, or makes them nobody's.
LEMMA OthersCopies ==
    ASSUME IInv, IInv', HandlesOK, \A p \in Procs : CopyOK(p), NEW q \in Procs,
           \A p \in Procs \ {q} : job'[p] = job[p],
           job'[q].at \notin {"copy", "replace"},
           \A f \in Paths : /\ file'[f].image = file[f].image
                            /\ file'[f].by \in {NoProc, file[f].by} \ {q}
                            /\ file[f].by # q => file'[f].by = file[f].by,
           (\E p \in Procs : job[p] \in Running) => Later(Image', Image)
    PROVE  CopiesOK'
<1>1. HandlesOK'
  BY DEF HandlesOK, IInv, StorageAssumption
<1>2. ASSUME NEW p \in Procs, p # q
      PROVE  CopyOK(p)'
  <2>1. CASE BackingUp(p)
    <3>1. /\ job[p] \in Running /\ job[p].began \in Images /\ Partial(job[p].dest) \in Paths
          /\ file[Partial(job[p].dest)].image \in Images
      BY <2>1, CopyTypes
    <3>2. Later(Image', Image) /\ Image \in Images /\ Image' \in Images
      BY <3>1 DEF IInv, TypeOK, Fit, Image
    <3>3. job'[p] = job[p]
      BY <1>2
    <3> QED BY <1>2, <3>1, <3>2, <3>3, LaterIsOrder DEF CopyOK
  <2>2. CASE ~BackingUp(p)
    BY <1>2, <2>2 DEF CopyOK, BackingUp
  <2> QED BY <2>1, <2>2
<1>3. CopyOK(q)'
  BY DEF CopyOK
<1> QED BY <1>1, <1>2, <1>3 DEF CopiesOK

LEMMA BackupBeginCopies ==
    ASSUME IInv, IInv', CopiesOK, OneForEach', NEW q \in Procs, BackupBegin(q)
    PROVE  CopiesOK'
<1> DEFINE from == Partial(job[q].dest)
<1>1. job[q] \in Running /\ job[q].at = "partial" /\ job[q].dest \in Dests /\ from \in Paths
  BY AtPlace, Destinations DEF BackupBegin, At, Running
<1>2. job' = [job EXCEPT ![q] = [job[q] EXCEPT !.at = "copy", !.began = Image]]
  BY DEF BackupBegin, IInv, TypeOK
<1>3. /\ job'[q].at = "copy" /\ job'[q].began = Image /\ job'[q].dest = job[q].dest
      /\ \A p \in Procs \ {q} : job'[p] = job[p]
  BY <1>1, <1>2 DEF IInv, TypeOK, Running
<1>4. /\ file'[from] = [by |-> q, image |-> Empty]
      /\ \A f \in Paths \ {from} : file'[f] = file[f]
  BY <1>1 DEF BackupBegin, Target, IInv, TypeOK
<1> HIDE DEF from
<1>5. file'[from].by = q
  BY <1>4
<1>6. HandlesOK'
  <2>1. \A f \in Paths : file[f].by # q
    BY <1>1 DEF CopiesOK, HandlesOK
  <2> QED BY <1>3, <1>4, <1>5, <2>1 DEF CopiesOK, HandlesOK, from
<1>7. UNCHANGED Image /\ Image \in Images
  BY ImageFits DEF BackupBegin, Image, IInv, Fit
<1>8. CopyOK(q)'
  BY <1>3, <1>5, <1>7, LaterIsOrder DEF CopyOK, from
<1>9. ASSUME NEW p \in Procs, p # q
      PROVE  CopyOK(p)'
  <2>1. CASE BackingUp(p)
    <3>1. job[p].dest \in Dests /\ Partial(job[p].dest) \in Paths
      BY <2>1, CopyTypes
    <3>2. job[p].dest # job[q].dest
      BY <1>3, <1>9, <2>1 DEF OneForEach, BackingUp
    <3>3. Partial(job[p].dest) # from
      BY <1>1, <3>1, <3>2, PathsApart DEF from
    <3> QED BY <1>3, <1>4, <1>7, <1>9, <3>1, <3>3 DEF CopyOK, CopiesOK
  <2>2. CASE ~BackingUp(p)
    BY <1>3, <1>9, <2>2 DEF CopyOK, BackingUp
  <2> QED BY <2>1, <2>2
<1> QED BY <1>6, <1>8, <1>9 DEF CopiesOK

LEMMA BackupCopyCopies ==
    ASSUME IInv, IInv', CopiesOK, OneForEach, NEW q \in Procs, BackupCopy(q)
    PROVE  CopiesOK'
<1>1. job[q] \in Running /\ job[q].at = "copy" /\ BackingUp(q)
  BY AtPlace DEF BackupCopy, At, BackingUp
<1>2. /\ job[q].dest \in Dests /\ Partial(job[q].dest) \in Paths
  BY <1>1, CopyTypes
<1>3. job' = [job EXCEPT ![q] = [job[q] EXCEPT !.at = "replace"]]
  BY <1>1, Going DEF BackupCopy
<1>4. /\ job'[q].at = "replace" /\ job'[q].began = job[q].began /\ job'[q].dest = job[q].dest
      /\ \A p \in Procs \ {q} : job'[p] = job[p]
  BY <1>1, <1>3 DEF IInv, TypeOK, Running
<1>5. \A f \in Paths : /\ file[f].by = q => file'[f] = [by |-> NoProc, image |-> Image]
                       /\ file[f].by # q => file'[f] = file[f]
  BY DEF BackupCopy, IInv, TypeOK
<1>6. \A f \in Paths : file[f].by = q => file'[f].by = NoProc /\ file'[f].image = Image
  BY <1>5
<1>7. HandlesOK'
  BY <1>4, <1>5, <1>6 DEF CopiesOK, HandlesOK, IInv, StorageAssumption
<1>8. UNCHANGED Image /\ Image \in Images
  BY ImageFits DEF BackupCopy, Image, IInv, Fit
<1>9. CopyOK(q)'
  <2>1. file[Partial(job[q].dest)].by = q /\ Later(Image, job[q].began)
    BY <1>1 DEF CopiesOK, CopyOK
  <2> QED BY <1>2, <1>4, <1>6, <1>8, <2>1, LaterIsOrder DEF CopyOK
<1>10. ASSUME NEW p \in Procs, p # q
       PROVE  CopyOK(p)'
  <2>1. CASE BackingUp(p)
    <3>1. job[p].dest \in Dests /\ Partial(job[p].dest) \in Paths
      BY <2>1, CopyTypes
    <3>2. job[p].dest # job[q].dest
      BY <1>1, <1>10, <2>1 DEF OneForEach
    <3>3. file[Partial(job[p].dest)].by # q
      BY <1>2, <3>1, <3>2, PathsApart DEF CopiesOK, HandlesOK
    <3> QED BY <1>4, <1>5, <1>8, <1>10, <3>1, <3>3 DEF CopyOK, CopiesOK
  <2>2. CASE ~BackingUp(p)
    BY <1>4, <1>10, <2>2 DEF CopyOK, BackingUp
  <2> QED BY <2>1, <2>2
<1> QED BY <1>7, <1>9, <1>10 DEF CopiesOK

LEMMA BackupEndCopies ==
    ASSUME IInv, IInv', CopiesOK, OneForEach, NEW q \in Procs, BackupEnd(q)
    PROVE  CopiesOK'
<1> DEFINE to == job[q].dest
           from == Partial(to)
<1>1. job[q] \in Running /\ job[q].at = "replace" /\ BackingUp(q)
  BY AtPlace DEF BackupEnd, At, BackingUp
<1>2. to \in Dests /\ to \in Paths /\ from \in Paths /\ from # to
  BY <1>1, CopyTypes, Destinations, PathsApart
<1>3. /\ job'[q].at \in {"migrate", "idle"}
      /\ \A p \in Procs \ {q} : job'[p] = job[p]
  <2>1. CASE End(q)
    BY <2>1 DEF End, Idle, IInv, TypeOK
  <2>2. CASE Goto(q, "migrate")
    <3>1. /\ job' = [job EXCEPT ![q] = [job[q] EXCEPT !.at = "migrate"]]
          /\ [job[q] EXCEPT !.at = "migrate"].at = "migrate"
      BY <1>1, <2>2, Going
    <3> QED BY <3>1 DEF IInv, TypeOK
  <2> QED BY <2>1, <2>2 DEF BackupEnd
<1>4. \/ UNCHANGED file
      \/ /\ file'[to] = file[from] /\ file'[from] = NoFile
         /\ \A f \in Paths \ {to, from} : file'[f] = file[f]
  BY <1>2 DEF BackupEnd, Target, IInv, TypeOK
<1>5. UNCHANGED Image
  BY DEF BackupEnd, Image
<1> HIDE DEF to
<1>6. \A p \in Procs : file[from].by # p
  <2> SUFFICES ASSUME NEW p \in Procs, file[from].by = p PROVE FALSE
    OBVIOUS
  <2>1. job[p].at = "copy" /\ Partial(job[p].dest) = from
    BY <1>2 DEF CopiesOK, HandlesOK
  <2>2. job[p].dest \in Dests /\ p # q /\ BackingUp(p)
    BY <1>1, <2>1, CopyTypes DEF BackingUp
  <2> QED BY <1>1, <1>2, <2>1, <2>2, PathsApart DEF OneForEach, to
<1>7. HandlesOK'
  <2>1. NoFile.by = NoProc /\ NoProc \notin Procs
    BY DEF NoFile, IInv, StorageAssumption
  <2>2. \A f \in Paths, p \in Procs : file'[f].by = p => file[f].by = p
    BY <1>4, <1>6, <2>1
  <2>3. \A f \in Paths, p \in Procs : file'[f].by = p => p # q
    BY <1>1, <2>2 DEF CopiesOK, HandlesOK
  <2> QED BY <1>3, <2>2, <2>3 DEF CopiesOK, HandlesOK
<1>8. CopyOK(q)'
  BY <1>3 DEF CopyOK
<1>9. ASSUME NEW p \in Procs, p # q
      PROVE  CopyOK(p)'
  <2>1. CASE BackingUp(p)
    <3>1. job[p].dest \in Dests /\ Partial(job[p].dest) \in Paths
      BY <2>1, CopyTypes
    <3>2. job[p].dest # to
      BY <1>1, <1>9, <2>1 DEF OneForEach, to
    <3>3. Partial(job[p].dest) \notin {from, to}
      BY <1>2, <3>1, <3>2, PathsApart
    <3> QED BY <1>3, <1>4, <1>5, <1>9, <3>1, <3>3 DEF CopyOK, CopiesOK
  <2>2. CASE ~BackingUp(p)
    BY <1>3, <1>9, <2>2 DEF CopyOK, BackingUp
  <2> QED BY <2>1, <2>2
<1> QED BY <1>7, <1>8, <1>9 DEF CopiesOK

\* The steps of opening, migrating and restoring.
LEMMA NotBackingUp ==
    ASSUME IInv, NEW q \in Procs, Step(q), ~(BackupBegin(q) \/ BackupCopy(q) \/ BackupEnd(q))
    PROVE  /\ ~BackingUp(q) /\ job'[q].at \notin {"copy", "replace"}
           /\ \A p \in Procs \ {q} : job'[p] = job[p]
           /\ UNCHANGED file \/ RestoreSave(q)
<1>1. job[q].at \notin {"copy", "replace", "idle"}
  BY DEF Step, Status, CreateTables, Stamp, MigrateRead, MigrateBegin, MigrateApply, MigrateEnd,
         Write, Close, RestoreSave, RestoreUnlink, RestoreUnlinkWal, RestoreConnect, RestoreCopy, At
<1>2. job[q] \in Running \cup RestoreJobs
  BY <1>1 DEF IInv, TypeOK, Idle
<1>3. \/ End(q) \/ UNCHANGED job
      \/ \E dest : job' = [job EXCEPT ![q].at = "partial", ![q].dest = dest]
      \/ \E step : Goto(q, step) /\ step \notin {"copy", "replace"}
  BY DEF Step, Status, CreateTables, Stamp, MigrateRead, MigrateBegin, MigrateApply, MigrateEnd,
         Write, Close, RestoreSave, RestoreUnlink, RestoreUnlinkWal, RestoreConnect, RestoreCopy,
         Opened
<1>4. /\ job'[q].at \notin {"copy", "replace"}
      /\ \A p \in Procs \ {q} : job'[p] = job[p]
  <2>1. CASE End(q) \/ UNCHANGED job
    BY <1>1, <2>1 DEF End, Idle, IInv, TypeOK
  <2>2. ASSUME NEW dest, job' = [job EXCEPT ![q].at = "partial", ![q].dest = dest]
        PROVE  /\ job'[q].at \notin {"copy", "replace"}
               /\ \A p \in Procs \ {q} : job'[p] = job[p]
    <3>1. PICK j : j = [job[q] EXCEPT !.at = "partial", !.dest = dest]
      OBVIOUS
    <3>2. j.at = "partial"
      BY <1>2, <3>1 DEF Running, RestoreJobs
    <3>3. job' = [job EXCEPT ![q] = j]
      BY <2>2, <3>1 DEF IInv, TypeOK
    <3> QED BY <3>2, <3>3 DEF IInv, TypeOK
  <2>3. ASSUME NEW step, Goto(q, step), step \notin {"copy", "replace"}
        PROVE  /\ job'[q].at \notin {"copy", "replace"}
               /\ \A p \in Procs \ {q} : job'[p] = job[p]
    <3>1. PICK j : j = [job[q] EXCEPT !.at = step]
      OBVIOUS
    <3>2. j.at = step
      BY <1>2, <3>1 DEF Running, RestoreJobs
    <3>3. job' = [job EXCEPT ![q] = j]
      BY <2>3, <3>1 DEF Goto, IInv, TypeOK
    <3> QED BY <2>3, <3>2, <3>3 DEF IInv, TypeOK
  <2> QED BY <1>3, <2>1, <2>2, <2>3
<1>5. UNCHANGED file \/ RestoreSave(q)
  BY DEF Step, Status, CreateTables, Stamp, MigrateRead, MigrateBegin, MigrateApply, MigrateEnd,
         Write, Close, RestoreUnlink, RestoreUnlinkWal, RestoreConnect, RestoreCopy
<1> QED BY <1>1, <1>4, <1>5 DEF BackingUp

LEMMA CopiesStep ==
    ASSUME IInv, WritesOK, TxnLater, CopiesOK, OneForEach, OneForEach', Next
    PROVE  CopiesOK'
<1>1. IInv'
  BY StepIInv
<1>2. HandlesOK /\ \A p \in Procs : CopyOK(p)
  BY DEF CopiesOK
<1>3. (\E p \in Procs : job[p] \in Running) => Later(Image', Image)
  BY Forward
<1>4. \A q \in Procs : ~BackingUp(q) => \A f \in Paths : file[f].by # q
  BY <1>2 DEF HandlesOK, BackingUp
<1>5. CASE Checkpoint
  <2>1. UNCHANGED <<file, job>>
    BY <1>5 DEF Checkpoint
  <2>2. HandlesOK'
    BY <1>2, <2>1 DEF HandlesOK
  <2>3. UNCHANGED Image
    BY <1>5 DEF Checkpoint, Image
  <2> QED BY <1>2, <2>1, <2>2, <2>3 DEF CopiesOK, CopyOK
<1>6. ASSUME NEW q \in Procs, NEW run \in Commands[q], Begin(q, run)
      PROVE  CopiesOK'
  <2>1. job' = [job EXCEPT ![q] = [at |-> FirstStep(run), run |-> run, dest |-> Snapshot,
                                   began |-> Missing]]
        /\ UNCHANGED file /\ job[q] = Idle
    BY <1>6 DEF Begin
  <2>2. FirstStep(run) \notin {"copy", "replace"}
    BY <1>6 DEF FirstStep, Begin, IInv, StorageAssumption
  <2>3. /\ job'[q].at \notin {"copy", "replace"}
        /\ \A p \in Procs \ {q} : job'[p] = job[p]
    BY <2>1, <2>2 DEF IInv, TypeOK
  <2>4. \A f \in Paths : file[f].by # q
    BY <1>4, <2>1 DEF BackingUp, Idle
  <2> QED BY <1>1, <1>2, <1>3, <2>1, <2>3, <2>4, OthersCopies
<1>7. ASSUME NEW q \in Procs, NEW from \in Dests \cup {Prerestore}, RestoreBegin(q, from)
      PROVE  CopiesOK'
  <2>1. UNCHANGED file /\ job[q] = Idle
    BY <1>7 DEF RestoreBegin
  <2>2. PICK keep \in BOOLEAN :
          job' = [job EXCEPT ![q] = [at |-> IF keep THEN "save" ELSE "unlink",
                    run |-> "restore", from |-> from, keep |-> keep,
                    prior |-> Image, wanted |-> file[from].image]]
    BY <1>7 DEF RestoreBegin
  <2>3. /\ job'[q].at \notin {"copy", "replace"}
        /\ \A p \in Procs \ {q} : job'[p] = job[p]
    BY <2>2 DEF IInv, TypeOK
  <2>4. \A f \in Paths : file[f].by # q
    BY <1>4, <2>1 DEF BackingUp, Idle
  <2> QED BY <1>1, <1>2, <1>3, <2>1, <2>3, <2>4, OthersCopies
<1>8. ASSUME NEW q \in Procs, Crash(q)
      PROVE  CopiesOK'
  <2>1. \A f \in Paths : /\ file'[f].image = file[f].image
                         /\ file'[f].by = IF file[f].by = q THEN NoProc ELSE file[f].by
    BY <1>8 DEF Crash, IInv, TypeOK, Files
  <2>2. /\ job'[q].at \notin {"copy", "replace"}
        /\ \A p \in Procs \ {q} : job'[p] = job[p]
    BY <1>8 DEF Crash, End, Idle, IInv, TypeOK
  <2>3. NoProc # q
    BY DEF IInv, StorageAssumption
  <2> QED BY <1>1, <1>2, <1>3, <2>1, <2>2, <2>3, OthersCopies
<1>9. ASSUME NEW q \in Procs, Step(q), ~(BackupBegin(q) \/ BackupCopy(q) \/ BackupEnd(q))
      PROVE  CopiesOK'
  <2>1. /\ ~BackingUp(q) /\ job'[q].at \notin {"copy", "replace"}
        /\ \A p \in Procs \ {q} : job'[p] = job[p]
        /\ UNCHANGED file \/ RestoreSave(q)
    BY <1>9, NotBackingUp
  <2>2. CASE UNCHANGED file
    BY <1>1, <1>2, <1>3, <1>4, <2>1, <2>2, OthersCopies
  <2>3. CASE RestoreSave(q)
    <3>1. job[q] \in RestoreJobs
      BY <2>3 DEF RestoreSave, At, IInv, TypeOK, Idle, Running
    <3>2. \A p \in Procs : job'[p].at \notin {"copy", "replace"} /\ ~BackingUp(p)
      BY <2>1, <3>1 DEF IInv, Apart, BackingUp, Idle
    <3>3. \A f \in Paths : file'[f].by \in {NoProc, file[f].by}
      BY <2>3 DEF RestoreSave, IInv, TypeOK
    <3>4. HandlesOK'
      BY <1>4, <3>2, <3>3 DEF HandlesOK, IInv, StorageAssumption
    <3> QED BY <3>2, <3>4 DEF CopiesOK, CopyOK
  <2> QED BY <2>1, <2>2, <2>3
<1> QED BY <1>1, <1>5, <1>6, <1>7, <1>8, <1>9, BackupBeginCopies, BackupCopyCopies, BackupEndCopies
        DEF Next

\* A backup's destination changes only when its copy is complete.
LEMMA OnlyReplaced ==
    ASSUME IInv, CopiesOK, Next, NEW f \in Dests, file'[f].image # file[f].image
    PROVE  \E p \in Procs : /\ job[p] # Idle /\ At(p, "replace") /\ job[p].dest = f
                            /\ file'[f] = file[Partial(f)]
<1>1. f \in Paths /\ f # Prerestore /\ \A g \in Dests : Partial(g) # f
  BY Destinations, PathsApart
<1>2. ~Checkpoint
  BY DEF Checkpoint
<1>3. \A q \in Procs : \A run \in Commands[q] : ~Begin(q, run)
  BY DEF Begin
<1>4. \A q \in Procs : \A from : ~RestoreBegin(q, from)
  BY DEF RestoreBegin
<1>5. \A q \in Procs : ~Crash(q)
  BY <1>1 DEF Crash, IInv, TypeOK, Files
<1>6. PICK q \in Procs : Step(q)
  BY <1>2, <1>3, <1>4, <1>5 DEF Next
<1>7. ~RestoreSave(q)
  BY <1>1 DEF RestoreSave, IInv, TypeOK
<1>8. ~BackupBegin(q)
  <2> SUFFICES ASSUME BackupBegin(q) PROVE FALSE
    OBVIOUS
  <2>1. job[q].dest \in Dests
    BY AtPlace DEF BackupBegin, At, Running
  <2> QED BY <1>1, <2>1 DEF BackupBegin, Target, IInv, TypeOK
<1>9. ~BackupCopy(q)
  <2> SUFFICES ASSUME BackupCopy(q) PROVE FALSE
    OBVIOUS
  <2>1. job[q].dest \in Dests
    BY AtPlace DEF BackupCopy, At, Running
  <2>2. file[f].by # q
    BY <1>1, <2>1 DEF CopiesOK, HandlesOK
  <2> QED BY <1>1, <2>2 DEF BackupCopy, IInv, TypeOK
<1>10. BackupEnd(q)
  BY <1>6, <1>7, <1>8, <1>9, NotBackingUp
<1>11. job[q] \in Running /\ job[q].dest \in Dests
  BY <1>10, AtPlace DEF BackupEnd, At, Running
<1>12. job[q].dest = f /\ file'[f] = file[Partial(f)]
  BY <1>1, <1>10, <1>11, Destinations DEF BackupEnd, Target, IInv, TypeOK
<1> QED BY <1>10, <1>11, <1>12, Shapes DEF BackupEnd

BackupInv == IInv /\ WritesOK /\ TxnLater /\ CopiesOK

LEMMA BackupInit == StorageAssumption /\ Init => BackupInv
<1> SUFFICES ASSUME StorageAssumption, Init PROVE BackupInv
  OBVIOUS
<1>1. IInv
  BY InitIInv
<1>2. Missing.write = 0 /\ Whole(Old).write = 0
  BY DEF Missing, Whole
<1>3. WritesOK
  BY <1>2 DEF Init, WritesOK, NoFile
<1>4. TxnLater /\ HandlesOK /\ \A p \in Procs : CopyOK(p)
  BY DEF Init, TxnLater, HandlesOK, CopyOK, NoFile, Idle, StorageAssumption
<1> QED BY <1>1, <1>3, <1>4 DEF BackupInv, CopiesOK

LEMMA BackupStep ==
    ASSUME BackupInv, OneForEach, OneForEach', [Next]_vars
    PROVE  BackupInv'
<1>1. IInv'
  BY StepIInv DEF BackupInv
<1>2. CASE Next
  BY <1>1, <1>2, WritesStep, TxnLaterStep, CopiesStep DEF BackupInv
<1>3. CASE UNCHANGED vars
  BY <1>1, <1>3 DEF vars, BackupInv, WritesOK, TxnLater, Later, CopiesOK, HandlesOK, CopyOK, Image
<1> QED BY <1>2, <1>3

\* What a backup puts at its destination is one state the database had while the backup
\* ran, as long as no other writes to the same destination meanwhile (backup.py:61-106).
THEOREM BackupsAreWhole == StorageAssumption /\ Spec /\ []OneForEach => BackupIsCommitted
<1>1. BackupInv /\ [Next]_vars =>
        [\A f \in Dests : file'[f].image # file[f].image =>
            \E p \in Procs :
                LET new == file'[f].image
                IN  /\ job[p] # Idle /\ At(p, "replace") /\ job[p].dest = f
                    /\ new.write \in job[p].began.write..Image.write
                    /\ new.version \in job[p].began.version..Image.version
                    /\ new.core = "none" => job[p].began.core = "none"]_vars
  <2> SUFFICES ASSUME BackupInv, Next, NEW f \in Dests, file'[f].image # file[f].image
               PROVE  \E p \in Procs :
                        LET new == file'[f].image
                        IN  /\ job[p] # Idle /\ At(p, "replace") /\ job[p].dest = f
                            /\ new.write \in job[p].began.write..Image.write
                            /\ new.version \in job[p].began.version..Image.version
                            /\ new.core = "none" => job[p].began.core = "none"
    OBVIOUS
  <2>1. PICK p \in Procs : /\ job[p] # Idle /\ At(p, "replace") /\ job[p].dest = f
                           /\ file'[f] = file[Partial(f)]
    BY OnlyReplaced DEF BackupInv
  <2>2. PICK new : new = file'[f].image
    OBVIOUS
  <2>3. Later(new, job[p].began) /\ Later(Image, new)
    BY <2>1, <2>2 DEF BackupInv, CopiesOK, CopyOK, At
  <2>4. new \in Images /\ job[p].began \in Images /\ Image \in Images
    BY <2>1, <2>2, CopyTypes, ImageFits DEF BackupInv, BackingUp, At, IInv, Fit
  <2>5. /\ new.write \in job[p].began.write..Image.write
        /\ new.version \in job[p].began.version..Image.version
        /\ new.core = "none" => job[p].began.core = "none"
    BY <2>3, <2>4 DEF Later, Images
  <2> QED BY <2>1, <2>2, <2>5
<1>2. StorageAssumption /\ Init => BackupInv
  BY BackupInit
<1>3. BackupInv /\ OneForEach /\ OneForEach' /\ [Next]_vars => BackupInv'
  BY BackupStep
<1> QED BY <1>1, <1>2, <1>3, PTL DEF Spec, BackupIsCommitted
=============================================================================
