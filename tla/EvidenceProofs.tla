--------------------------- MODULE EvidenceProofs ---------------------------
(***************************************************************************)
(* For any sessions, artifacts, names and buckets: files and rows keep     *)
(* their shape, and no source is ever pointed at bytes that are not its    *)
(* own, wherever the sessions stop.                                        *)
(***************************************************************************)
EXTENDS Evidence, TLAPS

\* Where artifacts are made, and where those with the bytes c can be filed.
Staging == {p \in Places : p[1] \in {"inbox", "raw"}}
FiledPlaces(c) == Buckets \X Names \X {c} \X {0, 1}
PlacesOf(c) == Staging \cup FiledPlaces(c)

RegisterJobs == [op : {"register"}, place : Staging, content : Contents, unlink : BOOLEAN]
ArtifactJobs == [op : {"copy", "insert"}, place : Staging, content : Contents]
MoveJobs == [op : {"move"}, content : Contents, old : Places, bucket : Buckets]
FiledJobs == [op : {"moved", "record"}, content : Contents, path : Places, bucket : Buckets]
ScanJobs == [op : {"scan"}, move : BOOLEAN, todo : SUBSET Items, rows : SUBSET Items]
ItemJobs == [op : {"scan item"}, move : BOOLEAN, todo : SUBSET Items, rows : SUBSET Items,
             item : Items]

JobTypes == {Idle} \cup RegisterJobs \cup ArtifactJobs \cup MoveJobs \cup FiledJobs
              \cup ScanJobs \cup ItemJobs

\* A filing moves a registered source, and only to places named for its bytes.
FilingOK(j, sources) ==
    /\ j \in MoveJobs => sources[j.content] # NoRow /\ j.old \in PlacesOf(j.content)
    /\ j \in FiledJobs => sources[j.content] # NoRow /\ j.path \in FiledPlaces(j.content)

\* The rows of an open scan are new, and their transaction holds the lock.
RowsAreNew(s) ==
    job[s] \in ScanJobs \cup ItemJobs =>
        \A item \in job[s].rows : lock = s /\ ~Known(item[2])

JobsOK ==
    /\ job \in [Sessions -> JobTypes]
    /\ \A s \in Sessions : FilingOK(job[s], source) /\ RowsAreNew(s)

PathsOK == \A c \in Contents : Known(c) => source[c].path \in PlacesOf(c)

\* Two filings of one source at once are on record.
OneFiler ==
    \A s, t \in Sessions, c \in Contents :
        s # t /\ Filing(s, c) /\ Filing(t, c) => c \in unsettled

\* What is about to be recorded is there.
AboutToRecord ==
    \A s \in Sessions :
        Doing(s, "record") /\ job[s].content \notin unsettled
            => file[job[s].path] = job[s].content

IInv == /\ TypeOK
        /\ JobsOK
        /\ PathsOK
        /\ OneFiler
        /\ AboutToRecord

-----------------------------------------------------------------------------
(* Places *)

LEMMA StagingPlaces ==
    ASSUME NEW n \in Names, NEW c \in Contents
    PROVE  {Inbox(n), Raw(n), Hashed(n, c)} \subseteq Staging
BY DEF Staging, Places, Inbox, Raw, Hashed

LEMMA FiledPlacesArePlaces ==
    ASSUME NEW c \in Contents
    PROVE  FiledPlaces(c) \subseteq Places
BY DEF FiledPlaces, Places

LEMMA PlacesApart ==
    /\ \A c \in Contents : Staging \cap FiledPlaces(c) = {}
    /\ \A c, d \in Contents : c # d => FiledPlaces(c) \cap FiledPlaces(d) = {}
BY EvidenceAssumption DEF Staging, FiledPlaces

LEMMA TargetIsFiled ==
    ASSUME NEW j \in MoveJobs
    PROVE  /\ TargetOf(j) \in FiledPlaces(j.content)
           /\ Aside(TargetOf(j)) \in FiledPlaces(j.content)
BY DEF MoveJobs, Places, TargetOf, Aside, FiledPlaces

\* What a job is, by its first field.
LEMMA JobKinds ==
    ASSUME NEW j \in JobTypes
    PROVE  /\ j.op = "register" => j \in RegisterJobs
           /\ j.op \in {"copy", "insert"} => j \in ArtifactJobs
           /\ j.op = "move" => j \in MoveJobs
           /\ j.op \in {"moved", "record"} => j \in FiledJobs
           /\ j.op = "scan" => j \in ScanJobs
           /\ j.op = "scan item" => j \in ItemJobs
<1>1. CASE j = Idle
  BY <1>1 DEF Idle
<1>2. CASE j \in RegisterJobs
  BY <1>2 DEF RegisterJobs
<1>3. CASE j \in ArtifactJobs
  BY <1>3 DEF ArtifactJobs
<1>4. CASE j \in MoveJobs
  BY <1>4 DEF MoveJobs
<1>5. CASE j \in FiledJobs
  BY <1>5 DEF FiledJobs
<1>6. CASE j \in ScanJobs
  BY <1>6 DEF ScanJobs
<1>7. CASE j \in ItemJobs
  BY <1>7 DEF ItemJobs
<1> QED BY <1>1, <1>2, <1>3, <1>4, <1>5, <1>6, <1>7 DEF JobTypes

-----------------------------------------------------------------------------
(* One session's step *)

SourcesGrow == \A c \in Contents : Known(c) => Known(c)'

\* Nobody commits, and nobody takes the lock, while another session holds it.
LockRespected(s) ==
    \A t \in Sessions : t # s /\ lock = t => lock' = t /\ source' = source

\* The step leaves alone what the others are about to record.
FilesKept(s) ==
    \A t \in Sessions : t # s /\ Doing(t, "record") /\ job[t].content \notin unsettled'
                            => file'[job[t].path] = file[job[t].path]

LEMMA JobStep ==
    ASSUME IInv, NEW s \in Sessions, NEW j \in JobTypes, Continue(s, j),
           SourcesGrow, LockRespected(s), FilesKept(s), unsettled \subseteq unsettled',
           FilingOK(j, source'),
           j \in ScanJobs \cup ItemJobs =>
              \A item \in j.rows : lock' = s /\ ~Known(item[2])',
           j \in MoveJobs \cup FiledJobs =>
              \/ Filing(s, j.content)
              \/ \A t \in Sessions : Filing(t, j.content) => j.content \in unsettled',
           j.op = "record" /\ j.content \notin unsettled' => file'[j.path] = j.content
    PROVE  JobsOK' /\ OneFiler' /\ AboutToRecord'
<1>1. /\ job' \in [Sessions -> JobTypes]
      /\ job'[s] = j
      /\ \A t \in Sessions : t # s => job'[t] = job[t]
  BY DEF IInv, JobsOK, Continue
<1>2. ASSUME NEW t \in Sessions
      PROVE  FilingOK(job[t], source)' /\ RowsAreNew(t)'
  <2>1. CASE t = s
    BY <1>1, <2>1 DEF RowsAreNew, FilingOK
  <2>2. CASE t # s
    <3>1. FilingOK(job[t], source) /\ RowsAreNew(t)
      BY DEF IInv, JobsOK
    <3>2. FilingOK(job[t], source')
      BY <3>1 DEF FilingOK, SourcesGrow, Known, MoveJobs, FiledJobs
    <3>3. RowsAreNew(t)'
      BY <1>1, <2>2, <3>1 DEF RowsAreNew, LockRespected, Known
    <3> QED BY <1>1, <2>2, <3>2, <3>3
  <2> QED BY <2>1, <2>2
<1>3. OneFiler'
  <2> SUFFICES ASSUME NEW t \in Sessions, NEW u \in Sessions, NEW c \in Contents,
                      t # u, Filing(t, c)', Filing(u, c)'
               PROVE  c \in unsettled'
    BY DEF OneFiler
  <2>1. Filing(s, c)' => j \in MoveJobs \cup FiledJobs /\ j.content = c
    BY <1>1, JobKinds DEF Filing
  <2>2. \A v \in Sessions : v # s /\ Filing(v, c)' => Filing(v, c)
    BY <1>1 DEF Filing
  <2> QED BY <2>1, <2>2 DEF IInv, OneFiler
<1>4. AboutToRecord'
  BY <1>1 DEF IInv, AboutToRecord, FilesKept, Doing
<1> QED BY <1>1, <1>2, <1>3, <1>4 DEF JobsOK

-----------------------------------------------------------------------------
(* What the steps share *)

LEMMA QuietRows ==
    ASSUME NEW s \in Sessions, UNCHANGED <<source, lock>>
    PROVE  SourcesGrow /\ LockRespected(s)
BY DEF SourcesGrow, LockRespected, Known

LEMMA DoneRespects ==
    ASSUME NEW s \in Sessions, Done(s), source' = source \/ Lockable(s)
    PROVE  LockRespected(s)
BY EvidenceAssumption DEF Done, Released, LockRespected, Lockable

LEMMA StagingOnly ==
    ASSUME IInv, NEW s \in Sessions,
           \A p \in Places : p \notin Staging => file'[p] = file[p]
    PROVE  FilesKept(s)
<1> SUFFICES ASSUME NEW t \in Sessions, Doing(t, "record")
             PROVE  file'[job[t].path] = file[job[t].path]
  BY DEF FilesKept
<1>1. job[t] \in FiledJobs
  BY JobKinds DEF IInv, JobsOK, Doing
<1>2. job[t].path \in FiledPlaces(job[t].content) /\ job[t].content \in Contents
  BY <1>1 DEF IInv, JobsOK, FilingOK, FiledJobs
<1> QED BY <1>2, PlacesApart, FiledPlacesArePlaces

LEMMA WriteKeeps ==
    ASSUME IInv, NEW s \in Sessions, NEW p \in Staging, NEW c \in Contents \cup {NoFile},
           file' = [file EXCEPT ![p] = c]
    PROVE  FilesKept(s) /\ file' \in [Places -> Contents \cup {NoFile}]
<1>1. \A q \in Places : q \notin Staging => file'[q] = file[q]
  BY DEF IInv, TypeOK
<1>2. p \in Places
  BY DEF Staging
<1> QED BY <1>1, <1>2, StagingOnly DEF IInv, TypeOK

\* The lock belongs to a session in a call.
LEMMA LockOK ==
    ASSUME IInv, NEW s \in Sessions, NEW j, Continue(s, j),
           \/ lock' = lock /\ j # Idle
           \/ lock' = s /\ j # Idle
           \/ lock' = Released(s)
    PROVE  /\ lock' \in Sessions \cup {NoSession}
           /\ \A t \in Sessions : lock' = t => job'[t] # Idle
BY EvidenceAssumption DEF IInv, TypeOK, JobsOK, Continue, Released

LEMMA IdleJob ==
    /\ Idle \in JobTypes
    /\ Idle \notin MoveJobs \cup FiledJobs \cup ScanJobs \cup ItemJobs
    /\ Idle.op = "idle"
BY DEF Idle, JobTypes, MoveJobs, FiledJobs, ScanJobs, ItemJobs

\* A session that is done.
LEMMA DoneStep ==
    ASSUME IInv, NEW s \in Sessions, Done(s), SourcesGrow, FilesKept(s),
           source' = source \/ Lockable(s), unsettled \subseteq unsettled'
    PROVE  /\ JobsOK' /\ OneFiler' /\ AboutToRecord'
           /\ lock' \in Sessions \cup {NoSession}
           /\ \A t \in Sessions : lock' = t => job'[t] # Idle
<1>1. Continue(s, Idle) /\ lock' = Released(s)
  BY DEF Done
<1>2. FilingOK(Idle, source')
  BY IdleJob DEF FilingOK
<1>3. LockRespected(s)
  BY DoneRespects
<1>4. JobsOK' /\ OneFiler' /\ AboutToRecord'
  BY <1>1, <1>2, <1>3, IdleJob, JobStep
<1> QED BY <1>1, <1>4, LockOK

LEMMA FilesUntouched ==
    ASSUME NEW s \in Sessions, UNCHANGED file
    PROVE  FilesKept(s)
BY DEF FilesKept

LEMMA KindsApart ==
    /\ \A j \in RegisterJobs \cup ArtifactJobs :
          /\ j \in JobTypes
          /\ j \notin MoveJobs \cup FiledJobs \cup ScanJobs \cup ItemJobs
          /\ j # Idle /\ j.op # "record"
    /\ \A j \in ScanJobs \cup ItemJobs :
          /\ j \in JobTypes
          /\ j \notin MoveJobs \cup FiledJobs
          /\ j # Idle /\ j.op # "record"
    /\ \A j \in MoveJobs \cup FiledJobs :
          /\ j \in JobTypes
          /\ j \notin ScanJobs \cup ItemJobs
          /\ j # Idle
<1>1. \A j \in RegisterJobs : j.op \in {"register"}
  BY DEF RegisterJobs
<1>2. \A j \in ArtifactJobs : j.op \in {"copy", "insert"}
  BY DEF ArtifactJobs
<1>3. \A j \in MoveJobs : j.op \in {"move"}
  BY DEF MoveJobs
<1>4. \A j \in FiledJobs : j.op \in {"moved", "record"}
  BY DEF FiledJobs
<1>5. \A j \in ScanJobs : j.op \in {"scan"}
  BY DEF ScanJobs
<1>6. \A j \in ItemJobs : j.op \in {"scan item"}
  BY DEF ItemJobs
<1>7. Idle.op = "idle"
  BY DEF Idle
<1> QED BY <1>1, <1>2, <1>3, <1>4, <1>5, <1>6, <1>7 DEF JobTypes

\* A session that goes on with an artifact, or with a scan.
LEMMA ArtifactStep ==
    ASSUME IInv, NEW s \in Sessions, NEW j \in RegisterJobs \cup ArtifactJobs,
           Continue(s, j), UNCHANGED <<source, lock, unsettled>>, FilesKept(s)
    PROVE  /\ JobsOK' /\ OneFiler' /\ AboutToRecord'
           /\ lock' \in Sessions \cup {NoSession}
           /\ \A t \in Sessions : lock' = t => job'[t] # Idle
<1>1. FilingOK(j, source')
  BY KindsApart DEF FilingOK
<1>2. SourcesGrow /\ LockRespected(s)
  BY QuietRows
<1>3. JobsOK' /\ OneFiler' /\ AboutToRecord'
  BY <1>1, <1>2, KindsApart, JobStep
<1> QED BY <1>3, KindsApart, LockOK

LEMMA ScanStep ==
    ASSUME IInv, NEW s \in Sessions, NEW j \in ScanJobs \cup ItemJobs,
           Continue(s, j), UNCHANGED <<source, unsettled>>, FilesKept(s),
           lock' = lock \/ (lock' = s /\ Lockable(s)),
           \A item \in j.rows : lock' = s /\ ~Known(item[2])
    PROVE  /\ JobsOK' /\ OneFiler' /\ AboutToRecord'
           /\ lock' \in Sessions \cup {NoSession}
           /\ \A t \in Sessions : lock' = t => job'[t] # Idle
<1>1. FilingOK(j, source')
  BY KindsApart DEF FilingOK
<1>2. SourcesGrow /\ LockRespected(s)
  BY EvidenceAssumption DEF SourcesGrow, LockRespected, Lockable, Known
<1>3. \A item \in j.rows : lock' = s /\ ~Known(item[2])'
  BY DEF Known
<1>4. JobsOK' /\ OneFiler' /\ AboutToRecord'
  BY <1>1, <1>2, <1>3, KindsApart, JobStep
<1> QED BY <1>4, KindsApart, LockOK

-----------------------------------------------------------------------------
(* The steps *)

LEMMA InitIInv == Init => IInv
<1> SUFFICES ASSUME Init PROVE IInv
  OBVIOUS
<1>1. TypeOK
  BY EvidenceAssumption DEF Init, TypeOK
<1>2. JobsOK
  BY IdleJob DEF Init, JobsOK, FilingOK, RowsAreNew
<1>3. PathsOK /\ OneFiler /\ AboutToRecord
  BY IdleJob DEF Init, PathsOK, Known, OneFiler, Filing, AboutToRecord, Doing
<1> QED BY <1>1, <1>2, <1>3 DEF IInv

LEMMA RegisterStep ==
    ASSUME IInv, NEW s \in Sessions, NEW p \in Staging, NEW c \in Contents,
           NEW unlink \in BOOLEAN, Write(p, c), Register(s, p, c, unlink),
           UNCHANGED <<source, folder, processed, lock, unsettled>>
    PROVE  IInv'
<1> DEFINE j == [op |-> "register", place |-> p, content |-> c, unlink |-> unlink]
<1>1. j \in RegisterJobs
  BY DEF RegisterJobs
<1>2. FilesKept(s) /\ file' \in [Places -> Contents \cup {NoFile}]
  BY WriteKeeps DEF Write
<1>3. Continue(s, j)
  BY DEF Register
<1> HIDE DEF j
<1>4. /\ JobsOK' /\ OneFiler' /\ AboutToRecord'
      /\ lock' \in Sessions \cup {NoSession}
      /\ \A t \in Sessions : lock' = t => job'[t] # Idle
  BY <1>1, <1>2, <1>3, ArtifactStep
<1>5. PathsOK'
  BY DEF IInv, PathsOK, Known
<1> QED BY <1>2, <1>4, <1>5 DEF IInv, TypeOK

LEMMA AddStep ==
    ASSUME IInv, NEW s \in Sessions,
           Capture(s) \/ AddFetched(s) \/ AddFileName(s) \/ AddFileCopy(s)
    PROVE  IInv'
<1>1. CASE Capture(s)
  BY <1>1, StagingPlaces, RegisterStep DEF Capture
<1>2. CASE AddFetched(s)
  BY <1>2, StagingPlaces, RegisterStep DEF AddFetched
<1>3. CASE AddFileName(s)
  <2>1. PICK n \in Names, c \in Contents :
          Continue(s, [op |-> "copy", content |-> c,
                       place |-> IF file[Raw(n)] \in {NoFile, c} THEN Raw(n)
                                                               ELSE Hashed(n, c)])
    BY <1>3 DEF AddFileName
  <2> DEFINE j == [op |-> "copy", content |-> c,
                   place |-> IF file[Raw(n)] \in {NoFile, c} THEN Raw(n) ELSE Hashed(n, c)]
  <2>2. j \in ArtifactJobs
    BY StagingPlaces DEF ArtifactJobs
  <2>3. UNCHANGED <<file, source, folder, processed, lock, unsettled>>
    BY <1>3 DEF AddFileName, disk
  <2> HIDE DEF j
  <2>4. /\ JobsOK' /\ OneFiler' /\ AboutToRecord'
        /\ lock' \in Sessions \cup {NoSession}
        /\ \A t \in Sessions : lock' = t => job'[t] # Idle
    BY <2>1, <2>2, <2>3, FilesUntouched, ArtifactStep DEF j
  <2>5. PathsOK'
    BY <2>3 DEF IInv, PathsOK, Known
  <2> QED BY <2>3, <2>4, <2>5 DEF IInv, TypeOK
<1>4. CASE AddFileCopy(s)
  <2>1. job[s] \in ArtifactJobs
    BY <1>4, JobKinds DEF AddFileCopy, Doing, IInv, JobsOK
  <2> QED BY <1>4, <2>1, RegisterStep DEF AddFileCopy, ArtifactJobs
<1> QED BY <1>1, <1>2, <1>3, <1>4

LEMMA RefuseLookupStep ==
    ASSUME IInv, NEW s \in Sessions, Refuse(s) \/ Lookup(s)
    PROVE  IInv'
<1>1. job[s] \in RegisterJobs
  BY JobKinds DEF Refuse, Lookup, Doing, IInv, JobsOK
<1>2. CASE Refuse(s)
  <2>1. FilesKept(s) /\ file' \in [Places -> Contents \cup {NoFile}]
    <3>1. CASE job[s].unlink
      <4>1. file' = [file EXCEPT ![job[s].place] = NoFile] /\ job[s].place \in Staging
        BY <1>1, <1>2, <3>1 DEF Refuse, RegisterJobs
      <4> QED BY <4>1, WriteKeeps
    <3>2. CASE ~job[s].unlink
      BY <1>2, <3>2, FilesUntouched DEF Refuse, IInv, TypeOK
    <3> QED BY <3>1, <3>2
  <2>2. Done(s) /\ UNCHANGED <<source, folder, processed, unsettled>>
    BY <1>2 DEF Refuse
  <2>3. SourcesGrow
    BY <2>2 DEF SourcesGrow, Known
  <2>4. /\ JobsOK' /\ OneFiler' /\ AboutToRecord'
        /\ lock' \in Sessions \cup {NoSession}
        /\ \A t \in Sessions : lock' = t => job'[t] # Idle
    BY <2>1, <2>2, <2>3, DoneStep
  <2>5. PathsOK'
    BY <2>2 DEF IInv, PathsOK, Known
  <2> QED BY <2>1, <2>2, <2>4, <2>5 DEF IInv, TypeOK
<1>3. CASE Lookup(s)
  <2> DEFINE j == [op |-> "insert", place |-> job[s].place, content |-> job[s].content]
  <2>1. j \in ArtifactJobs /\ Continue(s, j)
    BY <1>1, <1>3 DEF Lookup, ArtifactJobs, RegisterJobs
  <2>2. UNCHANGED <<file, source, folder, processed, lock, unsettled>>
    BY <1>3 DEF Lookup, disk
  <2> HIDE DEF j
  <2>3. /\ JobsOK' /\ OneFiler' /\ AboutToRecord'
        /\ lock' \in Sessions \cup {NoSession}
        /\ \A t \in Sessions : lock' = t => job'[t] # Idle
    BY <2>1, <2>2, FilesUntouched, ArtifactStep
  <2>4. PathsOK'
    BY <2>2 DEF IInv, PathsOK, Known
  <2> QED BY <2>2, <2>3, <2>4 DEF IInv, TypeOK
<1> QED BY <1>2, <1>3

LEMMA InsertStep ==
    ASSUME IInv, NEW s \in Sessions, Insert(s)
    PROVE  IInv'
<1> DEFINE j == job[s]
<1>1. j \in ArtifactJobs
  BY JobKinds DEF Insert, Doing, IInv, JobsOK
<1>2. PICK b \in Buckets :
        source' = [source EXCEPT ![j.content] = [path |-> j.place, bucket |-> b]]
  BY DEF Insert
<1>3. j.content \in Contents /\ j.place \in Staging /\ j.place \in Places
  BY <1>1 DEF ArtifactJobs, Staging
<1>4. Done(s) /\ Lockable(s) /\ UNCHANGED <<file, folder, processed, unsettled>>
  BY DEF Insert, disk
<1> DEFINE row == [path |-> j.place, bucket |-> b]
<1>5. row \in SourceRows /\ row # NoRow /\ row.path = j.place
  BY <1>3 DEF SourceRows, NoRow
<1> HIDE DEF j, row
<1>6. source' = [source EXCEPT ![j.content] = row]
  BY <1>2 DEF row
<1>7. SourcesGrow
  BY <1>3, <1>5, <1>6 DEF SourcesGrow, Known, IInv, TypeOK
<1>8. /\ JobsOK' /\ OneFiler' /\ AboutToRecord'
      /\ lock' \in Sessions \cup {NoSession}
      /\ \A t \in Sessions : lock' = t => job'[t] # Idle
  BY <1>4, <1>7, FilesUntouched, DoneStep
<1>9. PathsOK' /\ source' \in [Contents -> SourceRows \cup {NoRow}]
  BY <1>3, <1>5, <1>6 DEF IInv, TypeOK, PathsOK, Known, PlacesOf
<1> QED BY <1>4, <1>8, <1>9 DEF IInv, TypeOK

LEMMA VerifyStep ==
    ASSUME IInv, NEW s \in Sessions, NEW c \in Contents, NEW b \in Buckets,
           NEW held \in BOOLEAN, Verify(s, c, b, held)
    PROVE  IInv'
<1> DEFINE old == source[c].path
           move == [op |-> "move", content |-> c, old |-> old, bucket |-> b]
           record == [op |-> "record", content |-> c, path |-> old, bucket |-> b]
           j == IF old = TargetOf(move) THEN record ELSE move
<1>1. Known(c) /\ file[old] = c /\ Continue(s, j)
  BY DEF Verify
<1>2. old \in Places /\ old \in PlacesOf(c)
  BY <1>1 DEF IInv, TypeOK, PathsOK, Known, SourceRows
<1>3. move \in MoveJobs /\ record \in FiledJobs
  BY <1>2 DEF MoveJobs, FiledJobs
<1>4. old = TargetOf(move) => old \in FiledPlaces(c)
  BY <1>3, TargetIsFiled
<1>5. /\ UNCHANGED <<file, folder, processed, source>>
      /\ unsettled \subseteq unsettled'
      /\ \A t \in Sessions : Filing(t, c) => c \in unsettled'
  <2>1. unsettled' = unsettled \cup IF \E t \in Sessions : Filing(t, c) THEN {c} ELSE {}
    BY DEF Verify
  <2> QED BY <2>1 DEF Verify, disk
<1>6. lock' = lock \/ (lock' = s /\ lock = NoSession)
  BY DEF Verify
<1>7. SourcesGrow /\ LockRespected(s) /\ FilesKept(s)
  BY <1>5, <1>6, EvidenceAssumption, FilesUntouched DEF SourcesGrow, LockRespected, Known
<1>8. /\ move.op = "move" /\ move.content = c /\ move.old = old
      /\ record.op = "record" /\ record.content = c /\ record.path = old
  OBVIOUS
<1> HIDE DEF move, record
<1>9. move \notin FiledJobs /\ record \notin MoveJobs
  BY <1>8 DEF FiledJobs, MoveJobs
<1>10. FilingOK(j, source')
  BY <1>1, <1>2, <1>4, <1>5, <1>8, <1>9 DEF FilingOK, Known
<1>11. /\ j \in MoveJobs \cup FiledJobs /\ j.content = c
       /\ j.op = "record" => j.path = old
  BY <1>3, <1>8
<1> HIDE DEF j, old
<1>12. /\ j \in JobTypes /\ j # Idle /\ j \notin ScanJobs \cup ItemJobs
  BY <1>11, KindsApart
<1>13. JobsOK' /\ OneFiler' /\ AboutToRecord'
  BY <1>1, <1>5, <1>7, <1>10, <1>11, <1>12, JobStep
<1>14. /\ lock' \in Sessions \cup {NoSession}
       /\ \A t \in Sessions : lock' = t => job'[t] # Idle
  BY <1>1, <1>6, <1>12, LockOK
<1>15. PathsOK'
  BY <1>5 DEF IInv, PathsOK, Known
<1> QED BY <1>5, <1>13, <1>14, <1>15 DEF IInv, TypeOK

LEMMA MoveStep ==
    ASSUME IInv, NEW s \in Sessions, Move(s)
    PROVE  IInv'
<1> DEFINE c == job[s].content
           old == job[s].old
           target == TargetOf(job[s])
<1>1. job[s] \in MoveJobs /\ FilingOK(job[s], source)
  BY JobKinds DEF Move, Doing, IInv, JobsOK
<1>2. /\ c \in Contents /\ job[s].bucket \in Buckets /\ old \in Places
      /\ source[c] # NoRow /\ old \in PlacesOf(c)
  BY <1>1 DEF FilingOK, MoveJobs
<1>3. PICK p \in FiledPlaces(c) :
        /\ Moved(s, p)
        /\ \/ file' = [file EXCEPT ![p] = file[old], ![old] = NoFile]
           \/ file' = [file EXCEPT ![old] = NoFile]
  BY <1>1, TargetIsFiled DEF Move
<1>4. p \in Places
  BY <1>2, FiledPlacesArePlaces
<1>5. UNCHANGED <<source, folder, processed, lock, unsettled>>
  BY DEF Move
<1> DEFINE j == [op |-> "moved", content |-> c, path |-> p, bucket |-> job[s].bucket]
<1>6. /\ j \in FiledJobs /\ j.content = c /\ j.path = p /\ j.op = "moved"
      /\ Continue(s, j) /\ j \notin MoveJobs
  BY <1>2, <1>3, <1>4 DEF Moved, FiledJobs, MoveJobs
<1>7. Filing(s, c)
  BY DEF Move, Doing, Filing
<1> HIDE DEF j, c, old, target
<1>8. /\ file' \in [Places -> Contents \cup {NoFile}]
      /\ \A q \in Places : q \notin PlacesOf(c) => file'[q] = file[q]
  BY <1>2, <1>3, <1>4 DEF IInv, TypeOK, PlacesOf
<1>9. FilesKept(s)
  <2> SUFFICES ASSUME NEW t \in Sessions, t # s, Doing(t, "record"),
                      job[t].content \notin unsettled
               PROVE  file'[job[t].path] = file[job[t].path]
    BY <1>5 DEF FilesKept
  <2>1. job[t] \in FiledJobs /\ FilingOK(job[t], source)
    BY JobKinds DEF IInv, JobsOK, Doing
  <2>2. /\ job[t].content \in Contents /\ job[t].path \in Places
        /\ job[t].path \in FiledPlaces(job[t].content)
    BY <2>1 DEF FilingOK, FiledJobs
  <2>3. job[t].content # c
    BY <1>2, <1>7 DEF IInv, OneFiler, Filing, Doing
  <2> QED BY <1>2, <1>8, <2>2, <2>3, PlacesApart DEF PlacesOf
<1>10. SourcesGrow /\ LockRespected(s)
  BY <1>5, QuietRows
<1>11. FilingOK(j, source')
  BY <1>2, <1>5, <1>6 DEF FilingOK
<1>12. j \in JobTypes /\ j # Idle /\ j \notin ScanJobs \cup ItemJobs
  BY <1>6, KindsApart
<1>13. JobsOK' /\ OneFiler' /\ AboutToRecord'
  BY <1>5, <1>6, <1>7, <1>9, <1>10, <1>11, <1>12, JobStep
<1>14. /\ lock' \in Sessions \cup {NoSession}
       /\ \A t \in Sessions : lock' = t => job'[t] # Idle
  BY <1>5, <1>6, <1>12, LockOK
<1>15. PathsOK'
  BY <1>5 DEF IInv, PathsOK, Known
<1> QED BY <1>5, <1>8, <1>13, <1>14, <1>15 DEF IInv, TypeOK

LEMMA VerifyAgainStep ==
    ASSUME IInv, NEW s \in Sessions, VerifyAgain(s)
    PROVE  IInv'
<1> DEFINE j == [op |-> "record", content |-> job[s].content, path |-> job[s].path,
                 bucket |-> job[s].bucket]
<1>1. job[s] \in FiledJobs /\ FilingOK(job[s], source)
  BY JobKinds DEF VerifyAgain, Doing, IInv, JobsOK
<1>2. /\ j \in FiledJobs /\ j \notin MoveJobs
      /\ j.content = job[s].content /\ j.path = job[s].path
  BY <1>1 DEF FiledJobs, MoveJobs
<1>3. Continue(s, j) /\ file[j.path] = j.content
  BY DEF VerifyAgain, Verified
<1> HIDE DEF j
<1>4. UNCHANGED <<file, source, folder, processed, lock, unsettled>>
  BY DEF VerifyAgain, disk
<1>5. FilingOK(j, source')
  BY <1>1, <1>2, <1>4 DEF FilingOK
<1>6. Filing(s, j.content)
  BY <1>2 DEF VerifyAgain, Doing, Filing
<1>7. j \in JobTypes /\ j # Idle /\ j \notin ScanJobs \cup ItemJobs
  BY <1>2, KindsApart
<1>8. JobsOK' /\ OneFiler' /\ AboutToRecord'
  BY <1>3, <1>4, <1>5, <1>6, <1>7, QuietRows, FilesUntouched, JobStep
<1>9. /\ lock' \in Sessions \cup {NoSession}
      /\ \A t \in Sessions : lock' = t => job'[t] # Idle
  BY <1>3, <1>4, <1>7, LockOK
<1>10. PathsOK'
  BY <1>4 DEF IInv, PathsOK, Known
<1> QED BY <1>4, <1>8, <1>9, <1>10 DEF IInv, TypeOK

LEMMA RecordStep ==
    ASSUME IInv, NEW s \in Sessions, Record(s)
    PROVE  IInv'
<1> DEFINE c == job[s].content
           row == [path |-> job[s].path, bucket |-> job[s].bucket]
<1>1. job[s] \in FiledJobs /\ FilingOK(job[s], source)
  BY JobKinds DEF Record, Doing, IInv, JobsOK
<1>2. /\ c \in Contents /\ row \in SourceRows /\ row # NoRow
      /\ row.path \in PlacesOf(c)
  BY <1>1 DEF FiledJobs, FilingOK, SourceRows, NoRow, PlacesOf
<1>3. /\ source' = [source EXCEPT ![c] = row]
      /\ Done(s) /\ Lockable(s) /\ UNCHANGED <<file, folder, processed, unsettled>>
  BY DEF Record, disk
<1> HIDE DEF c, row
<1>4. SourcesGrow
  BY <1>2, <1>3 DEF SourcesGrow, Known, IInv, TypeOK
<1>5. /\ JobsOK' /\ OneFiler' /\ AboutToRecord'
      /\ lock' \in Sessions \cup {NoSession}
      /\ \A t \in Sessions : lock' = t => job'[t] # Idle
  BY <1>3, <1>4, FilesUntouched, DoneStep
<1>6. PathsOK' /\ source' \in [Contents -> SourceRows \cup {NoRow}]
  BY <1>2, <1>3 DEF IInv, TypeOK, PathsOK, Known
<1> QED BY <1>3, <1>5, <1>6 DEF IInv, TypeOK

\* A step of a scan keeps the invariant if it keeps the folders' shape.
LEMMA ScanKeeps ==
    ASSUME IInv, NEW s \in Sessions, NEW j \in ScanJobs \cup ItemJobs,
           Continue(s, j), UNCHANGED <<source, unsettled>>, FilesKept(s),
           file' \in [Places -> Contents \cup {NoFile}],
           folder' \subseteq Items, processed' \subseteq Items,
           lock' = lock \/ (lock' = s /\ Lockable(s)),
           \A item \in j.rows : lock' = s /\ ~Known(item[2])
    PROVE  IInv'
<1>1. /\ JobsOK' /\ OneFiler' /\ AboutToRecord'
      /\ lock' \in Sessions \cup {NoSession}
      /\ \A t \in Sessions : lock' = t => job'[t] # Idle
  BY ScanStep
<1>2. PathsOK'
  BY DEF IInv, PathsOK, Known
<1> QED BY <1>1, <1>2 DEF IInv, TypeOK

LEMMA ScanListStep ==
    ASSUME IInv, NEW s \in Sessions, ScanBegin(s) \/ ScanWrite(s) \/ ScanSkip(s)
    PROVE  IInv'
<1>1. CASE ScanBegin(s)
  <2>1. PICK move \in BOOLEAN :
          Continue(s, [op |-> "scan", move |-> move, todo |-> folder, rows |-> {}])
    BY <1>1 DEF ScanBegin
  <2> DEFINE j == [op |-> "scan", move |-> move, todo |-> folder, rows |-> {}]
  <2>2. j \in ScanJobs /\ j.rows = {}
    BY DEF ScanJobs, IInv, TypeOK
  <2> HIDE DEF j
  <2>3. UNCHANGED <<file, folder, processed, source, lock, unsettled>>
    BY <1>1 DEF ScanBegin, disk
  <2> QED BY <2>1, <2>2, <2>3, FilesUntouched, ScanKeeps DEF j, IInv, TypeOK
<1>2. CASE ScanWrite(s)
  <2>1. PICK item \in job[s].todo :
          /\ Write(Hashed(item[1], item[2]), item[2])
          /\ Continue(s, [op |-> "scan item", move |-> job[s].move, rows |-> job[s].rows,
                          todo |-> job[s].todo, item |-> item])
    BY <1>2 DEF ScanWrite
  <2>2. job[s] \in ScanJobs /\ RowsAreNew(s)
    BY <1>2, JobKinds DEF ScanWrite, Doing, IInv, JobsOK
  <2>3. item \in Items /\ item[1] \in Names /\ item[2] \in Contents
    BY <2>1, <2>2 DEF ScanJobs, Items
  <2> DEFINE j == [op |-> "scan item", move |-> job[s].move, rows |-> job[s].rows,
                   todo |-> job[s].todo, item |-> item]
  <2>4. j \in ItemJobs /\ j.rows = job[s].rows
    BY <2>2, <2>3 DEF ScanJobs, ItemJobs
  <2> HIDE DEF j
  <2>5. UNCHANGED <<folder, processed, source, lock, unsettled>>
    BY <1>2 DEF ScanWrite
  <2>6. FilesKept(s) /\ file' \in [Places -> Contents \cup {NoFile}]
    BY <2>1, <2>3, StagingPlaces, WriteKeeps DEF Write
  <2>7. \A i \in j.rows : lock' = s /\ ~Known(i[2])
    BY <2>2, <2>4, <2>5 DEF RowsAreNew
  <2> QED BY <2>1, <2>4, <2>5, <2>6, <2>7, ScanKeeps DEF j, IInv, TypeOK
<1>3. CASE ScanSkip(s)
  <2>1. PICK item \in job[s].todo : Scanned(s, item, job[s].rows)
    BY <1>3 DEF ScanSkip
  <2>2. job[s] \in ScanJobs /\ RowsAreNew(s)
    BY <1>3, JobKinds DEF ScanSkip, Doing, IInv, JobsOK
  <2> DEFINE j == [op |-> "scan", move |-> job[s].move, todo |-> job[s].todo \ {item},
                   rows |-> job[s].rows]
  <2>3. j \in ScanJobs /\ j.rows = job[s].rows
    BY <2>2 DEF ScanJobs
  <2> HIDE DEF j
  <2>4. UNCHANGED <<file, folder, processed, source, lock, unsettled>>
    BY <1>3 DEF ScanSkip, disk
  <2>5. \A i \in j.rows : lock' = s /\ ~Known(i[2])
    BY <2>2, <2>3, <2>4 DEF RowsAreNew
  <2> QED BY <2>1, <2>3, <2>4, <2>5, FilesUntouched, ScanKeeps DEF j, Scanned, IInv, TypeOK
<1> QED BY <1>1, <1>2, <1>3

LEMMA ScanRegisterStep ==
    ASSUME IInv, NEW s \in Sessions, ScanRegister(s)
    PROVE  IInv'
<1> DEFINE item == job[s].item
           known == Known(item[2]) \/ \E n \in Names : <<n, item[2]>> \in job[s].rows
           rows == IF known THEN job[s].rows ELSE job[s].rows \cup {item}
           j == [op |-> "scan", move |-> job[s].move, todo |-> job[s].todo \ {item},
                 rows |-> rows]
<1>1. job[s] \in ItemJobs /\ RowsAreNew(s)
  BY JobKinds DEF ScanRegister, Doing, IInv, JobsOK
<1>2. item \in Items
  BY <1>1 DEF ItemJobs
<1>3. j \in ScanJobs /\ j.rows = rows
  BY <1>1, <1>2 DEF ItemJobs, ScanJobs
<1>4. Continue(s, j) /\ (known \/ Lockable(s)) /\ lock' = IF known THEN lock ELSE s
  BY DEF ScanRegister, Scanned, Refusable
<1> HIDE DEF j
<1>5. UNCHANGED <<file, source, unsettled>> /\ Archive(s, item)
  BY DEF ScanRegister
<1>6. folder' \subseteq Items /\ processed' \subseteq Items
  BY <1>2, <1>5 DEF Archive, IInv, TypeOK
<1>7. \A i \in job[s].rows : lock = s /\ ~Known(i[2])
  BY <1>1 DEF RowsAreNew
<1>8. \A i \in j.rows : lock' = s /\ ~Known(i[2])
  BY <1>3, <1>4, <1>7
<1> QED BY <1>3, <1>4, <1>5, <1>6, <1>8, FilesUntouched, ScanKeeps DEF IInv, TypeOK

LEMMA ScanCommitStep ==
    ASSUME IInv, NEW s \in Sessions, ScanCommit(s)
    PROVE  IInv' /\ \A c \in Contents : Known(c) => source'[c] = source[c]
<1> DEFINE New(c) == \E n \in Names : <<n, c>> \in job[s].rows
           NameOf(c) == CHOOSE n \in Names : <<n, c>> \in job[s].rows
<1>1. job[s] \in ScanJobs /\ RowsAreNew(s)
  BY JobKinds DEF ScanCommit, Doing, IInv, JobsOK
<1>2. PICK b \in Buckets :
        source' = [c \in Contents |-> IF New(c)
                                      THEN [path |-> Hashed(NameOf(c), c), bucket |-> b]
                                      ELSE source[c]]
  BY DEF ScanCommit
<1>3. Done(s) /\ UNCHANGED <<file, folder, processed, unsettled>>
  BY DEF ScanCommit, disk
<1>4. \A c \in Contents : New(c) => lock = s /\ ~Known(c) /\ NameOf(c) \in Names
  <2> SUFFICES ASSUME NEW c \in Contents, New(c)
               PROVE  lock = s /\ ~Known(c) /\ NameOf(c) \in Names
    OBVIOUS
  <2>1. PICK n \in Names : <<n, c>> \in job[s].rows
    OBVIOUS
  <2> QED BY <1>1, <2>1 DEF RowsAreNew
<1>5. \A c \in Contents : New(c) => /\ source'[c] \in SourceRows /\ source'[c] # NoRow
                                    /\ source'[c].path \in PlacesOf(c)
  <2> SUFFICES ASSUME NEW c \in Contents, New(c)
               PROVE  /\ source'[c] \in SourceRows /\ source'[c] # NoRow
                      /\ source'[c].path \in PlacesOf(c)
    OBVIOUS
  <2> DEFINE p == Hashed(NameOf(c), c)
  <2>1. p \in Staging /\ p \in Places
    BY <1>4, StagingPlaces DEF Staging
  <2>2. source'[c] = [path |-> p, bucket |-> b]
    BY <1>2
  <2> HIDE DEF p
  <2> QED BY <2>1, <2>2 DEF SourceRows, NoRow, PlacesOf
<1>6. \A c \in Contents : ~New(c) => source'[c] = source[c]
  BY <1>2
<1>7. DOMAIN source' = Contents /\ source' = [c \in Contents |-> source'[c]]
  BY <1>2
<1>8. source' = source \/ Lockable(s)
  <2>1. CASE \E c \in Contents : New(c)
    BY <1>4, <2>1 DEF Lockable
  <2>2. CASE \A c \in Contents : ~New(c)
    BY <1>6, <1>7, <2>2 DEF IInv, TypeOK
  <2> QED BY <2>1, <2>2
<1> HIDE DEF New
<1>9. SourcesGrow
  BY <1>4, <1>6 DEF SourcesGrow, Known
<1>10. /\ JobsOK' /\ OneFiler' /\ AboutToRecord'
       /\ lock' \in Sessions \cup {NoSession}
       /\ \A t \in Sessions : lock' = t => job'[t] # Idle
  BY <1>3, <1>8, <1>9, FilesUntouched, DoneStep
<1>11. PathsOK' /\ source' \in [Contents -> SourceRows \cup {NoRow}]
  BY <1>5, <1>6, <1>7 DEF IInv, TypeOK, PathsOK, Known
<1> QED BY <1>3, <1>4, <1>6, <1>10, <1>11 DEF IInv, TypeOK

LEMMA StopStep ==
    ASSUME IInv, NEW s \in Sessions, Stop(s)
    PROVE  IInv'
<1>1. /\ Done(s) /\ UNCHANGED <<file, source, folder, processed>>
      /\ unsettled \subseteq unsettled'
  BY DEF Stop, disk
<1>2. SourcesGrow
  BY <1>1 DEF SourcesGrow, Known
<1>3. /\ JobsOK' /\ OneFiler' /\ AboutToRecord'
      /\ lock' \in Sessions \cup {NoSession}
      /\ \A t \in Sessions : lock' = t => job'[t] # Idle
  BY <1>1, <1>2, FilesUntouched, DoneStep
<1>4. PathsOK'
  BY <1>1 DEF IInv, PathsOK, Known
<1> QED BY <1>1, <1>3, <1>4 DEF IInv, TypeOK

\* Steps that leave rows, files and sessions alone.
LEMMA OutsideStep ==
    ASSUME IInv, DropIn \/ UNCHANGED vars
    PROVE  IInv'
<1>1. /\ UNCHANGED <<file, source, lock, job, unsettled>>
      /\ folder' \subseteq Items /\ processed' \subseteq Items
  BY DEF DropIn, vars, disk, IInv, TypeOK, Items
<1>2. TypeOK'
  BY <1>1 DEF IInv, TypeOK
<1>3. JobsOK' /\ PathsOK' /\ OneFiler' /\ AboutToRecord'
  BY <1>1 DEF IInv, JobsOK, RowsAreNew, Known, PathsOK, OneFiler, Filing,
              AboutToRecord, Doing
<1> QED BY <1>2, <1>3 DEF IInv

LEMMA StepIInv == IInv /\ [Next]_vars => IInv'
<1> SUFFICES ASSUME IInv, [Next]_vars PROVE IInv'
  OBVIOUS
<1>1. CASE DropIn \/ UNCHANGED vars
  BY <1>1, OutsideStep
<1>2. CASE \E s \in Sessions : Extract(s) \/ EvidenceFile(s)
  BY <1>2, VerifyStep DEF Extract, EvidenceFile
<1>3. ASSUME NEW s \in Sessions,
             \/ Capture(s) \/ AddFetched(s) \/ AddFileName(s) \/ AddFileCopy(s)
             \/ Refuse(s) \/ Lookup(s) \/ Insert(s)
             \/ Move(s) \/ VerifyAgain(s) \/ Record(s)
             \/ ScanBegin(s) \/ ScanWrite(s) \/ ScanSkip(s) \/ ScanRegister(s)
             \/ ScanCommit(s) \/ Stop(s)
      PROVE  IInv'
  BY <1>3, AddStep, RefuseLookupStep, InsertStep, MoveStep, VerifyAgainStep, RecordStep,
     ScanListStep, ScanRegisterStep, ScanCommitStep, StopStep
<1> QED BY <1>1, <1>2, <1>3 DEF Next

-----------------------------------------------------------------------------
(* The theorems *)

\* Files, rows, folders and the lock keep their shape (TypeOK), whatever the sessions do.
THEOREM TypeCorrect == Spec => []TypeOK
<1>1. IInv => TypeOK
  BY DEF IInv
<1> QED BY InitIInv, StepIInv, <1>1, PTL DEF Spec

\* Only a filing changes a row that is there.
LEMMA WhoChangesRows ==
    ASSUME IInv, Next, NEW c \in Contents, Known(c), source'[c] # source[c]
    PROVE  \E s \in Sessions : Record(s) /\ job[s].content = c
<1>1. ~DropIn
  BY DEF DropIn
<1>2. PICK s \in Sessions :
        \/ Capture(s) \/ AddFetched(s) \/ AddFileName(s) \/ AddFileCopy(s)
        \/ Refuse(s) \/ Lookup(s) \/ Insert(s)
        \/ Extract(s) \/ EvidenceFile(s)
        \/ Move(s) \/ VerifyAgain(s) \/ Record(s)
        \/ ScanBegin(s) \/ ScanWrite(s) \/ ScanSkip(s) \/ ScanRegister(s)
        \/ ScanCommit(s) \/ Stop(s)
  BY <1>1 DEF Next
<1>3. Insert(s) \/ Record(s) \/ ScanCommit(s)
  BY <1>2 DEF Capture, AddFetched, AddFileName, AddFileCopy, Refuse, Lookup, Extract,
              EvidenceFile, Verify, Move, VerifyAgain, ScanBegin, ScanWrite, ScanSkip,
              ScanRegister, Stop
<1>4. ~ScanCommit(s)
  BY ScanCommitStep
<1>5. ~Insert(s)
  <2> SUFFICES ASSUME Insert(s) PROVE FALSE
    OBVIOUS
  <2>1. job[s].content # c
    BY DEF Insert
  <2> QED BY <2>1 DEF Insert, IInv, TypeOK
<1>6. Record(s)
  BY <1>3, <1>4, <1>5
<1>7. job[s].content = c
  BY <1>6 DEF Record, IInv, TypeOK
<1> QED BY <1>6, <1>7

\* A source's path is never changed to a place without its bytes, however filings,
\* captures and scans interleave and stop, unless two sessions filed it at once.
THEOREM PathsFollowBytes == Spec => FiledIsVerified
<1>1. ASSUME IInv, Next, NEW c \in Contents,
             Known(c), source'[c] # source[c], c \notin unsettled
      PROVE  file'[source'[c].path] = c
  <2>1. PICK s \in Sessions : Record(s) /\ job[s].content = c
    BY <1>1, WhoChangesRows
  <2>2. file[job[s].path] = c
    BY <1>1, <2>1 DEF Record, IInv, AboutToRecord
  <2>3. source'[c].path = job[s].path /\ UNCHANGED file
    BY <1>1, <2>1 DEF Record, disk, IInv, TypeOK
  <2> QED BY <2>2, <2>3
<1>2. IInv /\ [Next]_vars =>
        [\A c \in Contents : Known(c) /\ source'[c] # source[c] /\ c \notin unsettled
                               => file'[source'[c].path] = c]_vars
  BY <1>1
<1> QED BY InitIInv, StepIInv, <1>2, PTL DEF Spec, FiledIsVerified

-----------------------------------------------------------------------------
(* No registered source loses its bytes *)

OnDisk(c) == \E p \in Places : file[p] = c

\* What a running command has still to register.
HeldBy(j, c) ==
    \/ j.op \in {"register", "insert"} /\ j.content = c
    \/ j.op \in {"scan", "scan item"} /\ \E n \in Names : <<n, c>> \in j.rows
    \/ j.op = "scan item" /\ j.item[2] = c

Expected(c) == Known(c) \/ \E s \in Sessions : HeldBy(job[s], c)

KeptOnDisk == \A c \in Contents : Expected(c) /\ c \notin spoiled => OnDisk(c)

\* A filing moves the bytes of its source, or those of an overwrite that is on record.
OldIsOwn(s) ==
    Doing(s, "move") =>
        /\ job[s].old # TargetOf(job[s])
        /\ file[job[s].old] \in {job[s].content, NoFile} \cup spoiled

LInv == KeptOnDisk /\ \A s \in Sessions : OldIsOwn(s)

\* The step loses no bytes that are not on record as spoiled.
NoLoss ==
    /\ spoiled \subseteq spoiled'
    /\ \A c \in Contents : OnDisk(c) /\ c \notin spoiled' => OnDisk(c)'

\* The step leaves the others' filings the bytes that are theirs.
OthersOwn(s) ==
    \A t \in Sessions :
        t # s /\ Doing(t, "move")
            => file'[job[t].old] \in {job[t].content, NoFile} \cup spoiled'

\* What a step of one session has to show.
LEMMA KeptStep ==
    ASSUME IInv, LInv, NEW s \in Sessions, NEW j, Continue(s, j), NoLoss, OthersOwn(s),
           \A c \in Contents : Known(c)' \/ HeldBy(j, c) => Expected(c) \/ OnDisk(c)',
           j.op = "move" => /\ j.old # TargetOf(j)
                            /\ file'[j.old] \in {j.content, NoFile} \cup spoiled'
    PROVE  LInv'
<1>1. /\ job'[s] = j
      /\ \A t \in Sessions : t # s => job'[t] = job[t]
  BY DEF IInv, JobsOK, Continue
<1>2. ASSUME NEW c \in Contents, Expected(c)', c \notin spoiled'
      PROVE  OnDisk(c)'
  <2>1. Expected(c) \/ OnDisk(c)'
    <3>1. CASE Known(c)'
      BY <3>1
    <3>2. ASSUME NEW t \in Sessions, HeldBy(job[t], c)'
          PROVE  Expected(c) \/ OnDisk(c)'
      <4>1. CASE t = s
        BY <1>1, <3>2, <4>1 DEF HeldBy
      <4>2. CASE t # s
        BY <1>1, <3>2, <4>2 DEF HeldBy, Expected
      <4> QED BY <4>1, <4>2
    <3> QED BY <1>2, <3>1, <3>2 DEF Expected
  <2>2. Expected(c) => OnDisk(c)
    BY <1>2 DEF LInv, KeptOnDisk, NoLoss
  <2> QED BY <1>2, <2>1, <2>2 DEF NoLoss
<1>3. ASSUME NEW t \in Sessions
      PROVE  OldIsOwn(t)'
  <2>1. CASE t = s
    BY <1>1, <2>1 DEF OldIsOwn, Doing, TargetOf
  <2>2. CASE t # s
    BY <1>1, <2>2 DEF LInv, OldIsOwn, OthersOwn, Doing, TargetOf
  <2> QED BY <2>1, <2>2
<1> QED BY <1>2, <1>3 DEF LInv, KeptOnDisk

LEMMA QuietFiles ==
    ASSUME LInv, NEW s \in Sessions, UNCHANGED <<file, spoiled>>
    PROVE  NoLoss /\ OthersOwn(s)
BY DEF NoLoss, OthersOwn, OnDisk, LInv, OldIsOwn, Doing

LEMMA MovesFromPlaces ==
    ASSUME IInv, NEW t \in Sessions, Doing(t, "move")
    PROVE  job[t].old \in Places
<1>1. job[t] \in MoveJobs
  BY JobKinds DEF Doing, IInv, JobsOK
<1> QED BY <1>1 DEF MoveJobs

\* Files are removed only together with a record of their bytes.
LEMMA RemovalLosesNothing ==
    ASSUME IInv, LInv, NEW s \in Sessions, NEW p \in Places,
           file' = [file EXCEPT ![p] = NoFile],
           spoiled' = spoiled \cup ({file[p]} \ {NoFile})
    PROVE  NoLoss /\ OthersOwn(s)
<1>1. /\ file'[p] = NoFile
      /\ \A q \in Places : q # p => file'[q] = file[q]
  BY DEF IInv, TypeOK
<1>2. NoLoss
  BY <1>1, EvidenceAssumption DEF NoLoss, OnDisk
<1>3. ASSUME NEW t \in Sessions, Doing(t, "move")
      PROVE  file'[job[t].old] \in {job[t].content, NoFile} \cup spoiled'
  <2>1. job[t].old \in Places
    BY <1>3, MovesFromPlaces
  <2> QED BY <1>1, <1>3, <2>1 DEF LInv, OldIsOwn
<1> QED BY <1>2, <1>3 DEF OthersOwn

\* An artifact that is written over is on record, with the one that takes its name.
LEMMA WriteLosesNothing ==
    ASSUME IInv, LInv, NEW s \in Sessions, NEW p \in Places, NEW c \in Contents,
           Write(p, c)
    PROVE  NoLoss /\ OthersOwn(s) /\ OnDisk(c)'
<1>1. /\ file'[p] = c
      /\ \A q \in Places : q # p => file'[q] = file[q]
  BY DEF IInv, TypeOK, Write
<1>2. OnDisk(c)'
  BY <1>1 DEF OnDisk
<1>3. /\ spoiled \subseteq spoiled'
      /\ ~(Sharing(p) \subseteq {c}) => Sharing(p) \cup {c} \subseteq spoiled'
  BY DEF Write
<1>4. file[p] # NoFile => file[p] \in Sharing(p)
  BY DEF Sharing
<1>5. NoLoss
  BY <1>1, <1>3, <1>4, EvidenceAssumption DEF NoLoss, OnDisk
<1>6. ASSUME NEW t \in Sessions, Doing(t, "move")
      PROVE  file'[job[t].old] \in {job[t].content, NoFile} \cup spoiled'
  <2>1. job[t].old \in Places
    BY <1>6, MovesFromPlaces
  <2>2. CASE job[t].old # p
    BY <1>1, <1>3, <1>6, <2>1, <2>2 DEF LInv, OldIsOwn
  <2>3. CASE job[t].old = p
    <3>1. job[t].content \in Sharing(p)
      BY <1>6, <2>3 DEF Sharing
    <3> QED BY <1>1, <1>3, <2>3, <3>1
  <2> QED BY <2>2, <2>3
<1> QED BY <1>2, <1>5, <1>6 DEF OthersOwn

\* A move keeps the bytes, or leaves the same bytes at its target.
LEMMA MoveLosesNothing ==
    ASSUME IInv, LInv, NEW s \in Sessions, Move(s)
    PROVE  NoLoss /\ OthersOwn(s)
<1> DEFINE old == job[s].old
           c == job[s].content
           target == TargetOf(job[s])
<1>1. job[s] \in MoveJobs /\ Doing(s, "move")
  BY JobKinds DEF Move, Doing, IInv, JobsOK
<1>2. /\ old \in Places /\ c \in Contents /\ old \in PlacesOf(c)
      /\ target \in FiledPlaces(c) /\ Aside(target) \in FiledPlaces(c)
  BY <1>1, TargetIsFiled DEF MoveJobs, IInv, JobsOK, FilingOK
<1>3. target \in Places /\ Aside(target) \in Places
  BY <1>2, FiledPlacesArePlaces
<1>4. /\ old # target
      /\ file[old] # NoFile /\ file[old] \in {c} \cup spoiled /\ UNCHANGED spoiled
  BY <1>1 DEF Move, LInv, OldIsOwn
<1>5. PICK p \in {target, Aside(target)} :
        \/ /\ file[p] = NoFile
           /\ file' = [file EXCEPT ![p] = file[old], ![old] = NoFile]
        \/ p = target /\ file[p] = c /\ file' = [file EXCEPT ![old] = NoFile]
  BY DEF Move, Same
<1> HIDE DEF old, c, target
<1>6. p \in FiledPlaces(c) /\ p \in Places
  BY <1>2, <1>3, <1>5
<1>7. CASE file[p] = NoFile /\ file' = [file EXCEPT ![p] = file[old], ![old] = NoFile]
  <2>1. /\ p # old /\ file'[p] = file[old] /\ file'[old] = NoFile
        /\ \A q \in Places : q \notin {p, old} => file'[q] = file[q]
    BY <1>2, <1>4, <1>6, <1>7 DEF IInv, TypeOK
  <2>2. NoLoss
    BY <1>4, <1>6, <1>7, <2>1, EvidenceAssumption DEF NoLoss, OnDisk
  <2>3. ASSUME NEW t \in Sessions, Doing(t, "move")
        PROVE  file'[job[t].old] \in {job[t].content, NoFile} \cup spoiled'
    <3>1. job[t] \in MoveJobs
      BY <2>3, JobKinds DEF Doing, IInv, JobsOK
    <3>2. /\ job[t].old \in Places /\ job[t].content \in Contents
          /\ job[t].old \in PlacesOf(job[t].content)
      BY <3>1 DEF MoveJobs, IInv, JobsOK, FilingOK
    <3>3. CASE job[t].old \notin {p, old}
      BY <1>4, <2>1, <2>3, <3>2, <3>3 DEF LInv, OldIsOwn
    <3>4. CASE job[t].old = p
      <4>1. job[t].content = c
        BY <1>2, <1>6, <3>2, <3>4, PlacesApart DEF PlacesOf
      <4> QED BY <1>4, <2>1, <3>4, <4>1
    <3>5. CASE job[t].old = old
      BY <2>1, <3>5
    <3> QED BY <3>3, <3>4, <3>5
  <2> QED BY <2>2, <2>3 DEF OthersOwn
<1>8. CASE p # old /\ file[p] = c /\ file' = [file EXCEPT ![old] = NoFile]
  <2>1. /\ file'[old] = NoFile
        /\ \A q \in Places : q # old => file'[q] = file[q]
    BY <1>2, <1>8 DEF IInv, TypeOK
  <2>3. NoLoss
    BY <1>4, <1>6, <1>8, <2>1, EvidenceAssumption DEF NoLoss, OnDisk
  <2>4. ASSUME NEW t \in Sessions, Doing(t, "move")
        PROVE  file'[job[t].old] \in {job[t].content, NoFile} \cup spoiled'
    <3>1. job[t].old \in Places
      BY <2>4, MovesFromPlaces
    <3> QED BY <1>4, <2>1, <2>4, <3>1 DEF LInv, OldIsOwn
  <2> QED BY <2>3, <2>4 DEF OthersOwn
<1> QED BY <1>4, <1>5, <1>7, <1>8

\* Nothing is expected of an idle session, nor of one that copies, files or lists.
LEMMA NothingHeld ==
    \A c, j : j = Idle \/ j \in MoveJobs \cup FiledJobs \/ (j \in ArtifactJobs /\ j.op = "copy")
                => ~HeldBy(j, c)
<1>1. Idle.op = "idle"
  BY DEF Idle
<1>2. \A j \in MoveJobs \cup FiledJobs : j.op \in {"move", "moved", "record"}
  BY DEF MoveJobs, FiledJobs
<1> QED BY <1>1, <1>2 DEF HeldBy

LEMMA InitLInv == Init => LInv
BY NothingHeld DEF Init, LInv, KeptOnDisk, Expected, Known, OldIsOwn, Doing, Idle

\* An artifact is written before anything is expected of it.
LEMMA KeptWrites ==
    ASSUME IInv, LInv, NEW s \in Sessions, NEW p \in Places, NEW c \in Contents, Write(p, c),
           NEW j, Continue(s, j), UNCHANGED source, j.op # "move",
           \A d \in Contents : HeldBy(j, d) => d = c \/ HeldBy(job[s], d)
    PROVE  LInv'
<1>1. NoLoss /\ OthersOwn(s) /\ OnDisk(c)'
  BY WriteLosesNothing
<1>2. \A d \in Contents : Known(d)' \/ HeldBy(j, d) => Expected(d) \/ OnDisk(d)'
  BY <1>1 DEF Expected, Known
<1> QED BY <1>1, <1>2, KeptStep

LEMMA KeptAdds ==
    ASSUME IInv, LInv, NEW s \in Sessions,
           Capture(s) \/ AddFetched(s) \/ AddFileCopy(s) \/ ScanWrite(s)
    PROVE  LInv'
<1>1. ASSUME NEW p \in Places, NEW c \in Contents, NEW unlink, Write(p, c),
             Register(s, p, c, unlink), UNCHANGED source
      PROVE  LInv'
  <2> DEFINE j == [op |-> "register", place |-> p, content |-> c, unlink |-> unlink]
  <2>1. /\ Continue(s, j) /\ j.op # "move"
        /\ \A d \in Contents : HeldBy(j, d) => d = c
    BY <1>1 DEF Register, HeldBy
  <2> HIDE DEF j
  <2> QED BY <1>1, <2>1, KeptWrites
<1>2. CASE Capture(s)
  BY <1>1, <1>2, StagingPlaces DEF Capture, Staging
<1>3. CASE AddFetched(s)
  BY <1>1, <1>3, StagingPlaces DEF AddFetched, Staging
<1>4. CASE AddFileCopy(s)
  <2>1. job[s] \in ArtifactJobs
    BY <1>4, JobKinds DEF AddFileCopy, Doing, IInv, JobsOK
  <2>2. job[s].place \in Places /\ job[s].content \in Contents
    BY <2>1 DEF ArtifactJobs, Staging
  <2> QED BY <1>1, <1>4, <2>2 DEF AddFileCopy
<1>5. CASE ScanWrite(s)
  <2>1. job[s] \in ScanJobs /\ job[s].op = "scan"
    BY <1>5, JobKinds DEF ScanWrite, Doing, IInv, JobsOK
  <2>2. PICK item \in job[s].todo \cap folder :
          /\ Write(Hashed(item[1], item[2]), item[2])
          /\ Continue(s, [op |-> "scan item", move |-> job[s].move, rows |-> job[s].rows,
                          todo |-> job[s].todo, item |-> item])
    BY <1>5 DEF ScanWrite
  <2>3. item[1] \in Names /\ item[2] \in Contents
    BY <2>1, <2>2 DEF ScanJobs, Items
  <2>4. Hashed(item[1], item[2]) \in Places
    BY <2>3, StagingPlaces DEF Staging
  <2> DEFINE j == [op |-> "scan item", move |-> job[s].move, rows |-> job[s].rows,
                   todo |-> job[s].todo, item |-> item]
  <2>5. /\ j.op # "move"
        /\ \A d \in Contents : HeldBy(j, d) => d = item[2] \/ HeldBy(job[s], d)
    BY <2>1 DEF HeldBy
  <2>6. UNCHANGED source
    BY <1>5 DEF ScanWrite
  <2> QED BY <2>2, <2>3, <2>4, <2>5, <2>6, KeptWrites
<1> QED BY <1>2, <1>3, <1>4, <1>5

\* A session that only goes on with, or registers, what was expected already.
LEMMA KeptQuietly ==
    ASSUME IInv, LInv, NEW s \in Sessions, NEW j, Continue(s, j), UNCHANGED <<file, spoiled>>,
           j.op # "move",
           \A c \in Contents : Known(c)' \/ HeldBy(j, c) => Expected(c)
    PROVE  LInv'
BY QuietFiles, KeptStep

LEMMA KeptVerify ==
    ASSUME IInv, LInv, NEW s \in Sessions, NEW c \in Contents, NEW b \in Buckets,
           NEW held \in BOOLEAN, Verify(s, c, b, held)
    PROVE  LInv'
<1> DEFINE j == [op |-> "move", content |-> c, old |-> source[c].path, bucket |-> b]
           r == [op |-> "record", content |-> c, path |-> j.old, bucket |-> b]
           k == IF j.old = TargetOf(j) THEN r ELSE j
<1>1. Continue(s, k) /\ UNCHANGED <<file, source, spoiled>> /\ file[j.old] = c
  BY DEF Verify, disk
<1>2. \A d \in Contents : ~HeldBy(k, d)
  BY DEF HeldBy
<1>3. k.op = "move" => /\ k.old # TargetOf(k)
                       /\ file'[k.old] \in {k.content, NoFile} \cup spoiled'
  BY <1>1
<1>4. \A d \in Contents : Known(d)' => Expected(d)
  BY <1>1 DEF Expected, Known
<1> QED BY <1>1, <1>2, <1>3, <1>4, QuietFiles, KeptStep

LEMMA KeptRefuse ==
    ASSUME IInv, LInv, NEW s \in Sessions, Refuse(s)
    PROVE  LInv'
<1>1. job[s] \in RegisterJobs
  BY JobKinds DEF Refuse, Doing, IInv, JobsOK
<1>2. job[s].place \in Places
  BY <1>1 DEF RegisterJobs, Staging
<1>3. NoLoss /\ OthersOwn(s)
  BY <1>2, RemovalLosesNothing, QuietFiles DEF Refuse
<1>4. Continue(s, Idle) /\ UNCHANGED source
  BY DEF Refuse, Done
<1>5. \A c \in Contents : Known(c)' \/ HeldBy(Idle, c) => Expected(c)
  BY <1>4, NothingHeld DEF Expected, Known
<1> QED BY <1>3, <1>4, <1>5, IdleJob, KeptStep

LEMMA KeptMove ==
    ASSUME IInv, LInv, NEW s \in Sessions, Move(s)
    PROVE  LInv'
<1>1. NoLoss /\ OthersOwn(s)
  BY MoveLosesNothing
<1>2. PICK p : Moved(s, p)
  BY DEF Move
<1> DEFINE j == [op |-> "moved", content |-> job[s].content, path |-> p,
                 bucket |-> job[s].bucket]
<1>3. Continue(s, j) /\ j.op # "move" /\ \A c \in Contents : ~HeldBy(j, c)
  BY <1>2 DEF Moved, HeldBy
<1>4. \A c \in Contents : Known(c)' => Expected(c)
  BY DEF Move, Expected, Known
<1> QED BY <1>1, <1>3, <1>4, KeptStep

\* The bytes of what is inserted, or goes on to be, were expected.
LEMMA KeptRegistrations ==
    ASSUME IInv, LInv, NEW s \in Sessions,
           \/ AddFileName(s) \/ Lookup(s) \/ Insert(s) \/ VerifyAgain(s) \/ Record(s)
           \/ Stop(s)
    PROVE  LInv'
<1> DEFINE Rest(j) == \A c \in Contents : Known(c)' \/ HeldBy(j, c) => Expected(c)
<1>1. CASE AddFileName(s)
  <2>1. PICK n \in Names, c \in Contents :
          Continue(s, [op |-> "copy", content |-> c,
                       place |-> IF file[Raw(n)] \in {NoFile, c} THEN Raw(n)
                                                                 ELSE Hashed(n, c)])
    BY <1>1 DEF AddFileName
  <2> DEFINE j == [op |-> "copy", content |-> c,
                   place |-> IF file[Raw(n)] \in {NoFile, c} THEN Raw(n) ELSE Hashed(n, c)]
  <2>2. j.op # "move" /\ Rest(j) /\ UNCHANGED <<file, spoiled>>
    BY <1>1 DEF AddFileName, disk, HeldBy, Expected, Known
  <2> QED BY <2>1, <2>2, KeptQuietly
<1>2. CASE Lookup(s)
  <2> DEFINE j == [op |-> "insert", place |-> job[s].place, content |-> job[s].content]
  <2>1. Continue(s, j) /\ j.op # "move" /\ UNCHANGED <<file, source, spoiled>>
    BY <1>2 DEF Lookup, disk
  <2>2. \A c \in Contents : HeldBy(j, c) => HeldBy(job[s], c)
    BY <1>2 DEF Lookup, Doing, HeldBy
  <2>3. Rest(j)
    BY <2>1, <2>2 DEF Expected, Known
  <2> QED BY <2>1, <2>3, KeptQuietly
<1>3. CASE Insert(s)
  <2>1. Continue(s, Idle) /\ UNCHANGED <<file, spoiled>>
    BY <1>3 DEF Insert, Done, disk
  <2>2. HeldBy(job[s], job[s].content)
    BY <1>3 DEF Insert, Doing, HeldBy
  <2>3. \A c \in Contents : Known(c)' => Known(c) \/ c = job[s].content
    BY <1>3 DEF Insert, Known, IInv, TypeOK
  <2>4. Rest(Idle)
    BY <2>2, <2>3, NothingHeld DEF Expected
  <2> QED BY <2>1, <2>4, IdleJob, KeptQuietly
<1>4. CASE VerifyAgain(s)
  <2> DEFINE j == [op |-> "record", content |-> job[s].content, path |-> job[s].path,
                   bucket |-> job[s].bucket]
  <2>1. Continue(s, j) /\ j.op # "move" /\ UNCHANGED <<file, source, spoiled>>
    BY <1>4 DEF VerifyAgain, disk
  <2>2. Rest(j)
    BY <2>1 DEF HeldBy, Expected, Known
  <2> QED BY <2>1, <2>2, KeptQuietly
<1>5. CASE Record(s)
  <2>1. Continue(s, Idle) /\ UNCHANGED <<file, spoiled>>
    BY <1>5 DEF Record, Done, disk
  <2>2. job[s] \in FiledJobs
    BY <1>5, JobKinds DEF Record, Doing, IInv, JobsOK
  <2>3. Known(job[s].content)
    BY <2>2 DEF IInv, JobsOK, FilingOK, Known
  <2>4. \A c \in Contents : Known(c)' => Known(c)
    BY <1>5, <2>3 DEF Record, Known, IInv, TypeOK
  <2>5. Rest(Idle)
    BY <2>4, NothingHeld DEF Expected
  <2> QED BY <2>1, <2>5, IdleJob, KeptQuietly
<1>6. CASE Stop(s)
  <2>1. Continue(s, Idle) /\ UNCHANGED <<file, source, spoiled>>
    BY <1>6 DEF Stop, Done, disk
  <2>2. Rest(Idle)
    BY <2>1, NothingHeld DEF Expected, Known
  <2> QED BY <2>1, <2>2, IdleJob, KeptQuietly
<1> QED BY <1>1, <1>2, <1>3, <1>4, <1>5, <1>6

LEMMA KeptScans ==
    ASSUME IInv, LInv, NEW s \in Sessions,
           ScanBegin(s) \/ ScanSkip(s) \/ ScanRegister(s) \/ ScanCommit(s)
    PROVE  LInv'
<1> DEFINE Rest(j) == \A c \in Contents : Known(c)' \/ HeldBy(j, c) => Expected(c)
<1>1. CASE ScanBegin(s)
  <2>1. PICK move \in BOOLEAN :
          Continue(s, [op |-> "scan", move |-> move, todo |-> folder, rows |-> {}])
    BY <1>1 DEF ScanBegin
  <2> DEFINE j == [op |-> "scan", move |-> move, todo |-> folder, rows |-> {}]
  <2>2. j.op # "move" /\ Rest(j) /\ UNCHANGED <<file, spoiled>>
    BY <1>1 DEF ScanBegin, disk, HeldBy, Expected, Known
  <2> QED BY <2>1, <2>2, KeptQuietly
<1>2. ASSUME NEW item, NEW rows, Scanned(s, item, rows), UNCHANGED <<file, source, spoiled>>,
             \A n \in Names, c \in Contents : <<n, c>> \in rows => HeldBy(job[s], c)
      PROVE  LInv'
  <2> DEFINE j == [op |-> "scan", move |-> job[s].move, todo |-> job[s].todo \ {item},
                   rows |-> rows]
  <2>1. Continue(s, j) /\ j.op # "move"
    BY <1>2 DEF Scanned
  <2>2. \A c \in Contents : HeldBy(j, c) => HeldBy(job[s], c)
    BY <1>2 DEF HeldBy
  <2>3. Rest(j)
    BY <1>2, <2>2 DEF Expected, Known
  <2> QED BY <1>2, <2>1, <2>3, KeptQuietly
<1>3. CASE ScanSkip(s)
  <2>1. \A n \in Names, c \in Contents : <<n, c>> \in job[s].rows => HeldBy(job[s], c)
    BY <1>3 DEF ScanSkip, Doing, HeldBy
  <2> QED BY <1>2, <1>3, <2>1 DEF ScanSkip, disk
<1>4. CASE ScanRegister(s)
  <2> DEFINE item == job[s].item
  <2>1. PICK rows : rows \subseteq job[s].rows \cup {item} /\ Scanned(s, item, rows)
    BY <1>4 DEF ScanRegister
  <2>2. \A n \in Names, c \in Contents : <<n, c>> \in rows => HeldBy(job[s], c)
    <3>1. job[s].op = "scan item"
      BY <1>4 DEF ScanRegister, Doing
    <3>2. \A n \in Names, c \in Contents : <<n, c>> \in rows /\ <<n, c>> # item
                                               => <<n, c>> \in job[s].rows
      BY <2>1
    <3>3. \A n \in Names, c \in Contents : <<n, c>> = item => item[2] = c
      OBVIOUS
    <3> QED BY <3>1, <3>2, <3>3 DEF HeldBy
  <2>3. UNCHANGED <<file, source, spoiled>>
    BY <1>4 DEF ScanRegister
  <2> HIDE DEF item
  <2> QED BY <1>2, <2>1, <2>2, <2>3
<1>5. CASE ScanCommit(s)
  <2>1. Continue(s, Idle) /\ UNCHANGED <<file, spoiled>>
    BY <1>5 DEF ScanCommit, Done, disk
  <2>2. \A c \in Contents : Known(c)' => Known(c) \/ HeldBy(job[s], c)
    BY <1>5 DEF ScanCommit, Doing, HeldBy, Known
  <2>3. Rest(Idle)
    BY <2>2, NothingHeld DEF Expected
  <2> QED BY <2>1, <2>3, IdleJob, KeptQuietly
<1> QED BY <1>1, <1>3, <1>4, <1>5

LEMMA KeptOutside ==
    ASSUME LInv, DropIn \/ UNCHANGED vars
    PROVE  LInv'
<1>1. UNCHANGED <<file, source, job, spoiled>>
  BY DEF DropIn, vars, disk
<1> QED BY <1>1 DEF LInv, KeptOnDisk, Expected, Known, HeldBy, OnDisk, OldIsOwn, Doing,
                    TargetOf

LEMMA StepLInv == IInv /\ LInv /\ [Next]_vars => LInv'
<1> SUFFICES ASSUME IInv, LInv, [Next]_vars PROVE LInv'
  OBVIOUS
<1>1. CASE DropIn \/ UNCHANGED vars
  BY <1>1, KeptOutside
<1>2. CASE \E s \in Sessions : Extract(s) \/ EvidenceFile(s)
  BY <1>2, KeptVerify DEF Extract, EvidenceFile
<1>3. ASSUME NEW s \in Sessions,
             \/ Capture(s) \/ AddFetched(s) \/ AddFileName(s) \/ AddFileCopy(s)
             \/ Refuse(s) \/ Lookup(s) \/ Insert(s)
             \/ Move(s) \/ VerifyAgain(s) \/ Record(s)
             \/ ScanBegin(s) \/ ScanWrite(s) \/ ScanSkip(s) \/ ScanRegister(s)
             \/ ScanCommit(s) \/ Stop(s)
      PROVE  LInv'
  BY <1>3, KeptAdds, KeptRefuse, KeptMove, KeptRegistrations, KeptScans
<1> QED BY <1>1, <1>2, <1>3 DEF Next

\* The bytes of a registered source are somewhere on disk, however filings, captures,
\* scans and crashes interleave, unless an overwrite or a refused add is on record.
THEOREM EvidenceIsKept == Spec => []NothingLost
<1>1. IInv /\ LInv => NothingLost
  BY DEF LInv, KeptOnDisk, Expected, OnDisk, NothingLost
<1> QED BY InitIInv, StepIInv, InitLInv, StepLInv, <1>1, PTL DEF Spec
=============================================================================
