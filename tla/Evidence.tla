------------------------------ MODULE Evidence ------------------------------
(***************************************************************************)
(* Primary sources: artifacts in the inbox, in raw/ and in the buckets     *)
(* under raw/, and the rows of `sources` that point to them (ingest.py,    *)
(* evidence.py, drop.py).                                                  *)
(*                                                                         *)
(* A command changes files and rows in steps, and only the rows are        *)
(* transactional: what it has read, and what it has still to do, is in     *)
(* `job`.  When it stops half way its files stay as they are.              *)
(***************************************************************************)
EXTENDS Naturals, FiniteSets

CONSTANTS Sessions,
          Contents,   \* the bytes of an artifact; their hash identifies them
          Names,      \* the stem of a file name: slug, or second and slug
          Buckets,    \* directories under raw/
          NoFile,     \* no file at a place; no hash in a file's name
          NoSession,
          MaxFiles,   \* bound: artifacts on disk at once
          MaxDrops    \* bound: files ever put into the drop folder

ASSUME EvidenceAssumption ==
    /\ NoFile \notin Contents
    /\ NoSession \notin Sessions
    /\ MaxFiles \in Nat /\ MaxDrops \in Nat
    /\ Buckets \cap {"inbox", "raw"} = {}

\* Where a file can be.  A hash in its name is a hash of the bytes it was made for.
Inbox(n) == <<"inbox", n, NoFile, 0>>
Raw(n) == <<"raw", n, NoFile, 0>>
Hashed(n, c) == <<"raw", n, c, 0>>
Aside(p) == <<p[1], p[2], p[3], 1>>   \* bound: one collision suffix

Places == ({"inbox", "raw"} \X Names \X {NoFile} \X {0})
            \cup ({"raw"} \X Names \X Contents \X {0})
            \cup (Buckets \X Names \X Contents \X {0, 1})

VARIABLES
    file,       \* the bytes at each place
    source,     \* the committed rows of sources by their unique hash; NoRow
    folder,     \* the files in a drop folder
    processed,  \* its .processed/ directory
    lock,       \* who holds SQLite's write lock
    job,        \* what each session is doing
    spoiled,    \* history: bytes that shared a file name, or that a refused add unlinked
    unsettled   \* history: bytes that two sessions filed at once, or that one moved
                \* before it stopped

disk == <<file, folder, processed>>
vars == <<disk, source, lock, job, spoiled, unsettled>>

NoRow == [path |-> NoFile]
Idle == [op |-> "idle"]

Init ==
    /\ file = [p \in Places |-> NoFile]
    /\ source = [c \in Contents |-> NoRow]
    /\ folder = {}
    /\ processed = {}
    /\ lock = NoSession
    /\ job = [s \in Sessions |-> Idle]
    /\ spoiled = {}
    /\ unsettled = {}

Known(c) == source[c] # NoRow
Doing(s, op) == job[s].op = op
Continue(s, record) == job' = [job EXCEPT ![s] = record]

\* Mutant of Released: the connection is not closed.
StillLocked(s) == lock

Released(s) == IF lock = s THEN NoSession ELSE lock

\* The command returns or raises; what it has not committed is rolled back.
Done(s) == Continue(s, Idle) /\ lock' = Released(s)

\* The write lock is free, or this session's own.
Lockable(s) == lock \in {NoSession, s}

\* The bytes at p, and those that a row or a running filing expects there.
Sharing(p) ==
    ({file[p]} \ {NoFile})
      \cup {c \in Contents : Known(c) /\ source[c].path = p}
      \cup {job[s].content : s \in {t \in Sessions : job[t].op \in {"register", "insert"}
                                                      /\ job[t].place = p}}
      \cup {job[s].content : s \in {t \in Sessions : Doing(t, "move") /\ job[t].old = p}}

\* write_bytes: whatever was there is gone.
Write(p, c) ==
    /\ Cardinality({q \in Places \ {p} : file[q] # NoFile}) < MaxFiles
    /\ file' = [file EXCEPT ![p] = c]
    /\ spoiled' = spoiled \cup IF Sharing(p) \subseteq {c} THEN {} ELSE Sharing(p) \cup {c}

(***************************************************************************)
(* One artifact: capture, add, transcribe                                  *)
(***************************************************************************)
Register(s, p, c, unlink) ==
    Continue(s, [op |-> "register", place |-> p, content |-> c, unlink |-> unlink])

Capture(s) ==
    /\ job[s] = Idle
    /\ \E n \in Names, c \in Contents :
          Write(Inbox(n), c) /\ Register(s, Inbox(n), c, FALSE)
    /\ UNCHANGED <<source, folder, processed, lock, unsettled>>

\* add of a URL, and transcribe: the file's name has the hash, and a refusal cleans up.
AddFetched(s) ==
    /\ job[s] = Idle
    /\ \E n \in Names, c \in Contents :
          Write(Hashed(n, c), c) /\ Register(s, Hashed(n, c), c, TRUE)
    /\ UNCHANGED <<source, folder, processed, lock, unsettled>>

\* add of a file: its own name, unless other bytes have it.
AddFileName(s) ==
    /\ job[s] = Idle
    /\ \E n \in Names, c \in Contents :
          Continue(s, [op |-> "copy", content |-> c,
                       place |-> IF file[Raw(n)] \in {NoFile, c} THEN Raw(n) ELSE Hashed(n, c)])
    /\ UNCHANGED <<disk, source, lock, spoiled, unsettled>>

AddFileCopy(s) ==
    /\ Doing(s, "copy")
    /\ Write(job[s].place, job[s].content)
    /\ Register(s, job[s].place, job[s].content, FALSE)
    /\ UNCHANGED <<source, folder, processed, lock, unsettled>>

\* _register_source looks the hash up before it has the lock.
Refusable(c) == Known(c)

Refuse(s) ==
    /\ Doing(s, "register")
    /\ Refusable(job[s].content)
    /\ LET p == job[s].place
       IN IF job[s].unlink
          THEN /\ file' = [file EXCEPT ![p] = NoFile]
               /\ spoiled' = spoiled \cup ({file[p]} \ {NoFile})
          ELSE UNCHANGED <<file, spoiled>>
    /\ Done(s)
    /\ UNCHANGED <<source, folder, processed, unsettled>>

Lookup(s) ==
    /\ Doing(s, "register")
    /\ ~Refusable(job[s].content)
    /\ Continue(s, [op |-> "insert", place |-> job[s].place, content |-> job[s].content])
    /\ UNCHANGED <<disk, source, lock, spoiled, unsettled>>

\* The insert and its commit.  A row with the hash that came in between violates the
\* unique key, and the command stops (Stop).
Insert(s) ==
    /\ Doing(s, "insert")
    /\ Lockable(s)
    /\ ~Known(job[s].content)
    /\ \E b \in Buckets :
          source' = [source EXCEPT ![job[s].content] = [path |-> job[s].place, bucket |-> b]]
    /\ Done(s)
    /\ UNCHANGED <<disk, spoiled, unsettled>>

(***************************************************************************)
(* Filing: verify, move, verify again, and only then record the new path   *)
(***************************************************************************)
Filing(s, c) == job[s].op \in {"move", "moved", "record"} /\ job[s].content = c

\* The name is kept: a hash once added to it, and a collision suffix, stay.
TargetOf(j) == <<j.bucket, j.old[2], j.content, j.old[4]>>

\* The row and the bytes it points to; a hash that does not match raises with nothing
\* done, and a source already in its place only has its hash checked.  `held`: in an
\* extraction, which has written to the database before and commits in any case; its
\* tags may put the source into another bucket.
Verify(s, c, b, held) ==
    LET j == [op |-> "move", content |-> c, old |-> source[c].path, bucket |-> b]
    IN /\ job[s] = Idle
       /\ Known(c)
       /\ file[j.old] = c
       /\ IF held THEN lock = NoSession /\ lock' = s
                  ELSE b = source[c].bucket /\ j.old # TargetOf(j) /\ UNCHANGED lock
       /\ Continue(s, IF j.old = TargetOf(j)
                      THEN [op |-> "record", content |-> c, path |-> j.old, bucket |-> b]
                      ELSE j)
       /\ unsettled' = unsettled \cup IF \E t \in Sessions : Filing(t, c) THEN {c} ELSE {}
       /\ UNCHANGED <<disk, source, spoiled>>

Extract(s) == \E c \in Contents, b \in Buckets : Verify(s, c, b, TRUE)
EvidenceFile(s) == \E c \in Contents, b \in Buckets : Verify(s, c, b, FALSE)

\* Mutant of Same: no file at the target passes for the same file.
SameOrGone(p, c) == file[p] \in {c, NoFile}

Same(p, c) == file[p] = c

Moved(s, p) == Continue(s, [op |-> "moved", content |-> job[s].content, path |-> p,
                            bucket |-> job[s].bucket])

\* shutil.move and unlink raise on a file that is gone (Stop), and so does a second
\* file in the way.
Move(s) ==
    LET old == job[s].old
        target == TargetOf(job[s])
        To(p) == file[p] = NoFile /\ Moved(s, p)
                   /\ file' = [file EXCEPT ![p] = file[old], ![old] = NoFile]
    IN /\ Doing(s, "move")
       /\ file[old] # NoFile
       /\ \/ To(target)
          \/ Same(target, job[s].content) /\ Moved(s, target)
               /\ file' = [file EXCEPT ![old] = NoFile]
          \/ file[target] # NoFile /\ ~Same(target, job[s].content) /\ To(Aside(target))
       /\ UNCHANGED <<source, folder, processed, lock, spoiled, unsettled>>

\* Mutant of Verified: the bytes are not read again after the move.
Unverified(p, c) == TRUE

Verified(p, c) == file[p] = c

VerifyAgain(s) ==
    /\ Doing(s, "moved")
    /\ Verified(job[s].path, job[s].content)
    /\ Continue(s, [op |-> "record", content |-> job[s].content, path |-> job[s].path,
                    bucket |-> job[s].bucket])
    /\ UNCHANGED <<disk, source, lock, spoiled, unsettled>>

\* UPDATE sources SET path, and the commit.
Record(s) ==
    /\ Doing(s, "record")
    /\ Lockable(s)
    /\ source' = [source EXCEPT ![job[s].content] = [path |-> job[s].path,
                                                     bucket |-> job[s].bucket]]
    /\ Done(s)
    /\ UNCHANGED <<disk, spoiled, unsettled>>

(***************************************************************************)
(* The drop folder                                                         *)
(***************************************************************************)
DropIn ==
    /\ Cardinality(folder \cup processed) < MaxDrops
    /\ \E n \in Names, c \in Contents : folder' = folder \cup {<<n, c>>}
    /\ UNCHANGED <<file, processed, source, lock, job, spoiled, unsettled>>

\* scan: the listing of the folder.
ScanBegin(s) ==
    /\ job[s] = Idle
    /\ folder # {}
    /\ \E move \in BOOLEAN :
          Continue(s, [op |-> "scan", move |-> move, todo |-> folder, rows |-> {}])
    /\ UNCHANGED <<disk, source, lock, spoiled, unsettled>>

\* One file of the listing becomes an artifact.
ScanWrite(s) ==
    /\ Doing(s, "scan")
    /\ \E item \in job[s].todo \cap folder :
          /\ Write(Hashed(item[1], item[2]), item[2])
          /\ Continue(s, [op |-> "scan item", move |-> job[s].move, rows |-> job[s].rows,
                          todo |-> job[s].todo, item |-> item])
    /\ UNCHANGED <<source, folder, processed, lock, unsettled>>

Scanned(s, item, rows) ==
    Continue(s, [op |-> "scan", move |-> job[s].move, todo |-> job[s].todo \ {item},
                 rows |-> rows])

Archive(s, item) ==
    IF job[s].move THEN folder' = folder \ {item} /\ processed' = processed \cup {item}
                   ELSE UNCHANGED <<folder, processed>>

\* A file that gives no text (no extractor, or another scan took it) is left in place.
ScanSkip(s) ==
    /\ Doing(s, "scan")
    /\ \E item \in job[s].todo : Scanned(s, item, job[s].rows)
    /\ UNCHANGED <<disk, source, lock, spoiled, unsettled>>

\* The artifact becomes a row of the open transaction, unless its hash is known; the
\* file goes to .processed/ either way.  A file that is gone by then raises (Stop).
ScanRegister(s) ==
    LET item == job[s].item
        known == Refusable(item[2]) \/ \E n \in Names : <<n, item[2]>> \in job[s].rows
    IN /\ Doing(s, "scan item")
       /\ job[s].move => item \in folder
       /\ known \/ Lockable(s)
       /\ lock' = IF known THEN lock ELSE s
       /\ Archive(s, item)
       /\ Scanned(s, item, IF known THEN job[s].rows ELSE job[s].rows \cup {item})
       /\ UNCHANGED <<file, source, spoiled, unsettled>>

\* finalize, after the last file.
ScanCommit(s) ==
    /\ Doing(s, "scan")
    /\ job[s].todo = {}
    /\ \E b \in Buckets :
          source' = [c \in Contents |->
                       IF \E n \in Names : <<n, c>> \in job[s].rows
                       THEN [path |-> Hashed((CHOOSE n \in Names : <<n, c>> \in job[s].rows), c),
                             bucket |-> b]
                       ELSE source[c]]
    /\ Done(s)
    /\ UNCHANGED <<disk, spoiled, unsettled>>

\* The bytes a session has moved and not committed.
InHand(s) ==
    CASE job[s].op \in {"moved", "record"} -> {job[s].content, file[job[s].path]} \ {NoFile}
      [] job[s].op \in {"scan", "scan item"} -> {item[2] : item \in job[s].rows}
      [] OTHER -> {}

\* An exception, a lock timeout or the end of the process.
Stop(s) ==
    /\ job[s] # Idle
    /\ Done(s)
    /\ unsettled' = unsettled \cup InHand(s)
    /\ UNCHANGED <<disk, source, spoiled>>

Next == \/ DropIn
        \/ \E s \in Sessions :
              \/ Capture(s) \/ AddFetched(s) \/ AddFileName(s) \/ AddFileCopy(s)
              \/ Refuse(s) \/ Lookup(s) \/ Insert(s)
              \/ Extract(s) \/ EvidenceFile(s)
              \/ Move(s) \/ VerifyAgain(s) \/ Record(s)
              \/ ScanBegin(s) \/ ScanWrite(s) \/ ScanSkip(s) \/ ScanRegister(s)
              \/ ScanCommit(s) \/ Stop(s)

Spec == Init /\ [][Next]_vars

(***************************************************************************)
(* Properties                                                              *)
(***************************************************************************)
Items == Names \X Contents
SourceRows == [path : Places, bucket : Buckets]

\* Files, rows and folders keep their shape; the lock is held by a session in a call.
TypeOK ==
    /\ file \in [Places -> Contents \cup {NoFile}]
    /\ source \in [Contents -> SourceRows \cup {NoRow}]
    /\ folder \subseteq Items /\ processed \subseteq Items
    /\ lock \in Sessions \cup {NoSession}
    /\ \A s \in Sessions : lock = s => job[s] # Idle

\* The bytes of a registered source are never lost by filing, scanning or a crash: the
\* only ways to lose them are a file name that two artifacts share, and an add that is
\* refused.
NothingLost ==
    \A c \in Contents :
        Known(c) /\ c \notin spoiled => \E p \in Places : file[p] = c

\* A source's path is only ever changed to one where its bytes are, unless two sessions
\* file it at once.
FiledIsVerified ==
    [][\A c \in Contents : Known(c) /\ source'[c] # source[c] /\ c \notin unsettled
                              => file'[source'[c].path] = c]_vars

\* A refused add leaves the artifacts of registered sources alone.
RefusedAddKeepsEvidence ==
    [][\A s \in Sessions, c \in Contents :
          Doing(s, "register") /\ job'[s] = Idle /\ Known(c) /\ file[source[c].path] = c
              => file'[source[c].path] = c]_vars
=============================================================================
