---------------------------- MODULE BackgroundProofs -------------------------
(***************************************************************************)
(* For any sessions, pages, budgets, sources, models, processes and        *)
(* bounds, and whatever the parts of the background do beside each other:  *)
(* status and count of a queue row agree, a fetch is charged exactly when  *)
(* its page is registered, sessions that race on one budget exceed it by   *)
(* less than their number, what triage has reported is on record, and what *)
(* holds of the orchestration and of the storage holds here.               *)
(***************************************************************************)
EXTENDS Background, FiniteSetTheorems, TLAPS

Row == [question : Questions \cup LintQuestions, status : {"open", "parked", "done"}, attempts : Nat]

CountFits(row) ==
    /\ row \in Row
    /\ row.status = "open" => row.attempts < ParkAfter
    /\ row.status = "parked" => row.attempts >= ParkAfter

\* The queue's part: what is stored, and what is read and not yet written back.
QueueOK ==
    /\ queue \in Seq(Row)
    /\ \A id \in DOMAIN queue : CountFits(queue[id])

Fetching == {"get", "register", "insert"}

JobOK(j, ids) ==
    /\ "at" \in DOMAIN j
    /\ j.at = "lint" => j.question \in Questions \cup LintQuestions
    /\ j.at = "attempt" => j.id \in ids /\ CountFits(j.row)
    /\ j.at \in Fetching \cup {"stub"} => "id" \in DOMAIN j /\ j.id \in ids \cup {NoId}

Jobs ==
    /\ job = [w \in Workers |-> job[w]]
    /\ \A w \in Workers : JobOK(job[w], DOMAIN queue)

\* The rows of gather_events are numbered apart, and none is of a night to come.
EventsOK ==
    /\ IsFiniteSet(events)
    /\ night \in Nat
    /\ \A e \in events : /\ e.n \in 1..Cardinality(events)
                         /\ e.night \in 0..night
                         /\ e.kind = "fetch" => e.id \in DOMAIN queue

SourcesOK ==
    /\ IsFiniteSet({s \in sources : s.origin = "autoresearch"})
    /\ \A s \in stubs : s.origin = "bookmark"

Good == QueueOK /\ Jobs /\ EventsOK /\ SourcesOK

-----------------------------------------------------------------------------
(* What a step leaves alone *)

LEMMA EntryFits ==
    ASSUME NEW q \in Questions \cup LintQuestions
    PROVE  CountFits(Entry(q))
BY DEF CountFits, Entry, Row, ParkAfter

LEMMA AttemptedFits ==
    ASSUME NEW row, CountFits(row), NEW now, CountFits(now)
    PROVE  CountFits(Attempted(row, now))
<1> DEFINE n == row.attempts + 1
           status == IF n >= ParkAfter THEN "parked" ELSE row.status
           new == [now EXCEPT !.attempts = n, !.status = status]
<1>1. Attempted(row, now) = new
  BY DEF Attempted
<1>2. /\ n \in Nat /\ status \in {"open", "parked", "done"}
      /\ status = "open" => n < ParkAfter
      /\ status = "parked" => n >= ParkAfter
  BY DEF CountFits, Row, ParkAfter
<1>3. now \in Row
  BY DEF CountFits
<1> HIDE DEF n, status
<1>4. new \in Row /\ new.attempts = n /\ new.status = status
  BY <1>2, <1>3 DEF Row
<1> HIDE DEF new
<1> QED BY <1>1, <1>2, <1>4 DEF CountFits

\* A job that is replaced, the others as they were, while the queue loses no row.
LEMMA JobsKeep ==
    ASSUME Jobs, DOMAIN queue \subseteq DOMAIN queue', NEW w \in Workers, NEW j,
           Goto(w, j), JobOK(j, DOMAIN queue')
    PROVE  Jobs'
<1>1. job' = [v \in Workers |-> IF v = w THEN j ELSE job[v]]
  BY DEF Jobs, Goto
<1>2. ASSUME NEW v \in Workers
      PROVE  JobOK(job'[v], DOMAIN queue')
  <2>1. CASE v = w
    BY <1>1, <2>1
  <2>2. CASE v # w
    BY <1>1, <2>2 DEF Jobs, JobOK
  <2> QED BY <2>1, <2>2
<1> QED BY <1>1, <1>2 DEF Jobs

LEMMA JobsStay ==
    ASSUME Jobs, DOMAIN queue \subseteq DOMAIN queue', UNCHANGED job
    PROVE  Jobs'
<1>1. ASSUME NEW w \in Workers
      PROVE  JobOK(job[w], DOMAIN queue')
  BY DEF Jobs, JobOK
<1> QED BY <1>1 DEF Jobs

LEMMA IdleKeeps ==
    ASSUME Jobs, DOMAIN queue \subseteq DOMAIN queue', NEW w \in Workers, Goto(w, Idle)
    PROVE  Jobs'
<1>1. JobOK(Idle, DOMAIN queue')
  BY DEF JobOK, Idle, Fetching
<1> QED BY <1>1, JobsKeep

\* The sync goes on with pages that no question asked for.
LEMMA ProceedKeeps ==
    ASSUME Jobs, UNCHANGED queue, NEW w \in Workers, job[w].at \in Fetching \cup {"stub"},
           Proceed(w)
    PROVE  Jobs'
<1>1. CASE Goto(w, Idle)
  BY <1>1, IdleKeeps
<1>2. CASE Goto(w, [job[w] EXCEPT !.at = "finalize"])
  <2>1. JobOK([job[w] EXCEPT !.at = "finalize"], DOMAIN queue')
    BY DEF Jobs, JobOK, Fetching
  <2> QED BY <1>2, <2>1, JobsKeep
<1>3. ASSUME NEW url \in job[w].todo,
             Goto(w, [at |-> "get", url |-> url, id |-> NoId, todo |-> job[w].todo \ {url}])
      PROVE  Jobs'
  <2>1. JobOK([at |-> "get", url |-> url, id |-> NoId, todo |-> job[w].todo \ {url}], DOMAIN queue')
    BY DEF JobOK, Fetching
  <2> QED BY <1>3, <2>1, JobsKeep
<1> QED BY <1>1, <1>2, <1>3 DEF Proceed

LEMMA GrownQueue ==
    ASSUME QueueOK, NEW q \in Questions \cup LintQuestions, queue' = Append(queue, Entry(q))
    PROVE  QueueOK' /\ DOMAIN queue \subseteq DOMAIN queue'
<1>1. Entry(q) \in Row /\ CountFits(Entry(q))
  BY EntryFits DEF CountFits
<1>2. /\ queue' \in Seq(Row) /\ DOMAIN queue' = 1..(Len(queue) + 1) /\ DOMAIN queue = 1..Len(queue)
      /\ \A id \in DOMAIN queue : queue'[id] = queue[id]
      /\ queue'[Len(queue) + 1] = Entry(q)
  BY <1>1 DEF QueueOK
<1>3. ASSUME NEW id \in DOMAIN queue' PROVE CountFits(queue'[id])
  <2>1. id \in DOMAIN queue \/ id = Len(queue) + 1
    BY <1>2 DEF QueueOK
  <2> QED BY <1>1, <1>2, <2>1 DEF QueueOK
<1> QED BY <1>2, <1>3 DEF QueueOK

LEMMA EventsStay ==
    ASSUME EventsOK, UNCHANGED <<events, night>>, DOMAIN queue \subseteq DOMAIN queue'
    PROVE  EventsOK'
BY DEF EventsOK

\* One more row: it is new, and the others keep their numbers.
Event(kind, id) == [n |-> Cardinality(events) + 1, night |-> night, kind |-> kind, id |-> id]

LEMMA EventRecorded ==
    ASSUME EventsOK, UNCHANGED <<queue, night>>, NEW kind, NEW id,
           kind = "fetch" => id \in DOMAIN queue, events' = Recorded(kind, id)
    PROVE  /\ EventsOK'
           /\ events' = events \cup {Event(kind, id)} /\ Event(kind, id) \notin events
<1>1. events' = events \cup {Event(kind, id)}
  BY DEF Recorded, Event
<1>2. Cardinality(events) \in Nat
  BY FS_CardinalityType DEF EventsOK
<1>3. Event(kind, id).n = Cardinality(events) + 1
  BY DEF Event
<1>4. Event(kind, id) \notin events
  BY <1>2, <1>3 DEF EventsOK
<1>5. IsFiniteSet(events') /\ Cardinality(events') = Cardinality(events) + 1
  BY <1>1, <1>4, FS_AddElement DEF EventsOK
<1>6. ASSUME NEW e \in events'
      PROVE  /\ e.n \in 1..Cardinality(events') /\ e.night \in 0..night'
             /\ e.kind = "fetch" => e.id \in DOMAIN queue'
  <2>1. CASE e \in events
    BY <1>2, <1>5, <2>1 DEF EventsOK
  <2>2. CASE e = Event(kind, id)
    BY <1>2, <1>5, <2>2 DEF EventsOK, Event
  <2> QED BY <1>1, <2>1, <2>2
<1> QED BY <1>1, <1>4, <1>5, <1>6 DEF EventsOK

LEMMA InitGood == Init => Good
<1> SUFFICES ASSUME Init PROVE Good
  OBVIOUS
<1>1. QueueOK
  BY DEF Init, QueueOK
<1>2. Jobs
  BY DEF Init, Jobs, JobOK, Idle, Fetching
<1>3. EventsOK
  BY FS_EmptySet DEF Init, EventsOK
<1>4. {s \in sources : s.origin = "autoresearch"} = {}
  BY DEF Init
<1>5. SourcesOK
  BY <1>4, FS_EmptySet DEF Init, SourcesOK
<1> QED BY <1>1, <1>2, <1>3, <1>5 DEF Good

-----------------------------------------------------------------------------
(* The queue's steps *)

\* A step of the queue touches neither the events nor the sources.
LEMMA QueueGood ==
    ASSUME Good, QueueOK', Jobs', DOMAIN queue \subseteq DOMAIN queue',
           UNCHANGED <<events, sources, night, stubs>>
    PROVE  Good'
BY EventsStay DEF Good, SourcesOK

LEMMA AddGood ==
    ASSUME Good, NEW w \in Workers, NEW q \in Questions, Add(w, q)
    PROVE  Good'
<1>1. QueueOK' /\ DOMAIN queue \subseteq DOMAIN queue'
  BY GrownQueue DEF Good, Add
<1>2. Jobs'
  BY <1>1, JobsStay DEF Good, Add
<1> QED BY <1>1, <1>2, QueueGood DEF Add, txn

LEMMA LintGood ==
    ASSUME Good, NEW w \in Workers, NEW q \in LintQuestions, Lint(w, q)
    PROVE  Good'
<1>1. JobOK([at |-> "lint", question |-> q], DOMAIN queue')
  BY DEF JobOK, Fetching
<1>2. Jobs'
  BY <1>1, JobsKeep DEF Good, Lint, store
<1> QED BY <1>2, QueueGood DEF Good, QueueOK, Lint, store, txn

LEMMA LintQueueGood ==
    ASSUME Good, NEW w \in Workers, LintQueue(w)
    PROVE  Good'
<1>1. job[w].question \in Questions \cup LintQuestions
  BY DEF Good, Jobs, JobOK, LintQueue, At
<1>2. QueueOK' /\ DOMAIN queue \subseteq DOMAIN queue'
  BY <1>1, GrownQueue DEF Good, LintQueue
<1>3. Jobs'
  BY <1>2, IdleKeeps DEF Good, LintQueue
<1> QED BY <1>2, <1>3, QueueGood DEF LintQueue, txn

LEMMA DoneGood ==
    ASSUME Good, NEW w \in Workers, NEW id \in DOMAIN queue, Done(w, id)
    PROVE  Good'
<1> DEFINE row == [queue[id] EXCEPT !.status = "done"]
<1>1. queue' = [queue EXCEPT ![id] = row]
  BY DEF Done
<1>2. row \in Row /\ CountFits(row)
  BY DEF Good, QueueOK, CountFits, Row
<1>3. QueueOK' /\ DOMAIN queue = DOMAIN queue'
  <2> HIDE DEF row
  <2> QED BY <1>1, <1>2 DEF Good, QueueOK
<1>4. Jobs'
  BY <1>3, JobsStay DEF Good, Done, txn
<1> QED BY <1>3, <1>4, QueueGood DEF Done, txn

LEMMA AttemptReadGood ==
    ASSUME Good, NEW w \in Workers, NEW id \in DOMAIN queue, AttemptRead(w, id)
    PROVE  Good'
<1>1. JobOK([at |-> "attempt", id |-> id, row |-> queue[id]], DOMAIN queue')
  BY DEF Good, QueueOK, JobOK, Fetching, AttemptRead, store
<1>2. Jobs'
  BY <1>1, JobsKeep DEF Good, AttemptRead, store
<1> QED BY <1>2, QueueGood DEF Good, QueueOK, AttemptRead, store, txn

LEMMA AttemptWriteGood ==
    ASSUME Good, NEW w \in Workers, AttemptWrite(w)
    PROVE  Good'
<1> DEFINE id == job[w].id
           row == Attempted(job[w].row, queue[id])
<1>1. queue' = [queue EXCEPT ![id] = row]
  BY DEF AttemptWrite
<1>2. id \in DOMAIN queue /\ CountFits(job[w].row)
  BY DEF Good, Jobs, JobOK, AttemptWrite, At
<1>3. row \in Row /\ CountFits(row)
  <2>1. CountFits(row) => row \in Row
    <3> HIDE DEF row
    <3> QED BY DEF CountFits
  <2> QED BY <1>2, <2>1, AttemptedFits DEF Good, QueueOK
<1>4. QueueOK' /\ DOMAIN queue = DOMAIN queue'
  <2> HIDE DEF row, id
  <2> QED BY <1>1, <1>2, <1>3 DEF Good, QueueOK
<1>5. Jobs'
  BY <1>4, IdleKeeps DEF Good, AttemptWrite
<1> QED BY <1>4, <1>5, QueueGood DEF AttemptWrite, txn

LEMMA AbortGood ==
    ASSUME Good, NEW w \in Workers, Abort(w)
    PROVE  Good'
<1>1. Jobs'
  BY IdleKeeps DEF Good, Abort, store
<1>2. SourcesOK'
  BY DEF Good, SourcesOK, Abort, store, txn
<1> QED BY <1>1, <1>2, EventsStay DEF Good, QueueOK, Abort, store

-----------------------------------------------------------------------------
(* The gathering's steps *)

\* A step that registers and charges nothing.
LEMMA GatherGood ==
    ASSUME Good, Jobs', UNCHANGED store, night' \in {night, night + 1},
           \A s \in stubs' \ stubs : s.origin = "bookmark"
    PROVE  Good'
<1>1. EventsOK'
  BY DEF Good, EventsOK, store
<1>2. SourcesOK'
  BY DEF Good, SourcesOK, store
<1> QED BY <1>1, <1>2 DEF Good, QueueOK, store

LEMMA SearchGood ==
    ASSUME Good, NEW w \in Workers, NEW id, Search(w, id)
    PROVE  Good'
<1>1. JobOK([at |-> "answered", id |-> id], DOMAIN queue')
  BY DEF JobOK, Fetching
<1>2. Jobs'
  BY <1>1, JobsKeep, JobsStay DEF Good, Search, store
<1> QED BY <1>2, GatherGood DEF Search, txn

LEMMA ChargeGood ==
    ASSUME Good, NEW w \in Workers, Charge(w)
    PROVE  Good'
<1>1. Jobs'
  BY IdleKeeps DEF Good, Charge
<1>2. EventsOK'
  BY EventRecorded DEF Good, Charge
<1> QED BY <1>1, <1>2 DEF Good, QueueOK, SourcesOK, Charge, txn

LEMMA FetchGood ==
    ASSUME Good, NEW w \in Workers, NEW id \in DOMAIN queue, NEW url, Fetch(w, url, id)
    PROVE  Good'
<1>1. JobOK([at |-> "get", url |-> url, id |-> id, todo |-> {}], DOMAIN queue')
  BY DEF JobOK, Fetching, Fetch, store
<1>2. Jobs'
  BY <1>1, JobsKeep DEF Good, Fetch, store
<1> QED BY <1>2, GatherGood DEF Fetch, txn

LEMMA SyncGood ==
    ASSUME Good, NEW w \in Workers, Sync(w)
    PROVE  Good'
<1>1. PICK url, todo : Goto(w, [at |-> "get", url |-> url, id |-> NoId, todo |-> todo])
  BY DEF Sync
<1>2. JobOK([at |-> "get", url |-> url, id |-> NoId, todo |-> todo], DOMAIN queue')
  BY DEF JobOK, Fetching
<1>3. Jobs'
  BY <1>1, <1>2, JobsKeep DEF Good, Sync, store
<1> QED BY <1>3, GatherGood DEF Sync, txn

LEMMA GetGood ==
    ASSUME Good, NEW w \in Workers, Get(w)
    PROVE  Good'
<1>1. "id" \in DOMAIN job[w] /\ job[w].id \in DOMAIN queue \cup {NoId}
  BY DEF Good, Jobs, JobOK, Get, At, Fetching
<1>2. PICK up \in SUBSET {"jina", "trafilatura"} :
        IF up = {}
        THEN Goto(w, IF job[w].id = NoId THEN [job[w] EXCEPT !.at = "stub"] ELSE Idle)
        ELSE Goto(w, [at |-> "register", url |-> job[w].url, id |-> job[w].id, todo |-> job[w].todo,
                      content |-> Fetched(job[w].url, job[w].id, up)])
  BY DEF Get
<1> DEFINE fetched == [at |-> "register", url |-> job[w].url, id |-> job[w].id, todo |-> job[w].todo,
                       content |-> Fetched(job[w].url, job[w].id, up)]
<1>3. JobOK(fetched, DOMAIN queue')
  BY <1>1 DEF JobOK, Fetching, Get, store
<1>4. JobOK([job[w] EXCEPT !.at = "stub"], DOMAIN queue')
  BY <1>1 DEF Good, Jobs, JobOK, Fetching, Get, store
<1>5. Goto(w, fetched) \/ Goto(w, [job[w] EXCEPT !.at = "stub"]) \/ Goto(w, Idle)
  BY <1>2
<1>6. Jobs'
  <2> HIDE DEF fetched
  <2> QED BY <1>3, <1>4, <1>5, JobsKeep, IdleKeeps DEF Good, Get, store
<1> QED BY <1>6, GatherGood DEF Get, txn

LEMMA StubGood ==
    ASSUME Good, NEW w \in Workers, Stub(w)
    PROVE  Good'
<1>1. Jobs'
  BY ProceedKeeps DEF Good, Stub, At, store
<1>2. \A s \in stubs' \ stubs : s.origin = "bookmark"
  BY DEF Stub, StubRow, txn
<1> QED BY <1>1, <1>2, GatherGood DEF Stub

LEMMA RegisterGood ==
    ASSUME Good, NEW w \in Workers, Register(w)
    PROVE  Good'
<1>1. JobOK([job[w] EXCEPT !.at = "insert"], DOMAIN queue')
  BY DEF Good, Jobs, JobOK, Fetching, Register, At, store
<1>2. Jobs'
  BY <1>1, JobsKeep, ProceedKeeps DEF Good, Register, At, Fetching, store
<1> QED BY <1>2, GatherGood DEF Register, txn

LEMMA FinalizeGood ==
    ASSUME Good, NEW w \in Workers, Finalize(w)
    PROVE  Good'
<1>1. Jobs'
  BY IdleKeeps DEF Good, Finalize
<1>2. {s \in sources' : s.origin = "autoresearch"} = {s \in sources : s.origin = "autoresearch"}
  BY DEF Good, SourcesOK, Finalize, txn
<1>3. SourcesOK'
  BY <1>2 DEF Good, SourcesOK, Finalize, txn
<1> QED BY <1>1, <1>3 DEF Good, QueueOK, EventsOK, Finalize

\* What an insert does to the events and to the pages that questions fetched.
LEMMA Inserted ==
    ASSUME Good, NEW w \in Workers, Insert(w)
    PROVE  /\ job[w].at = "insert" /\ job[w].id \in DOMAIN queue \cup {NoId}
           /\ UNCHANGED <<queue, night>>
           /\ \/ /\ job[w].id = NoId /\ events' = events
                 /\ {s \in sources' : s.origin = "autoresearch"}
                       = {s \in sources : s.origin = "autoresearch"}
              \/ /\ job[w].id \in DOMAIN queue
                 /\ Goto(w, Idle)
                 /\ events' = events \cup {Event("fetch", job[w].id)}
                 /\ Event("fetch", job[w].id) \notin events
                 /\ \E row : /\ row \notin {s \in sources : s.origin = "autoresearch"}
                             /\ {s \in sources' : s.origin = "autoresearch"}
                                   = {s \in sources : s.origin = "autoresearch"} \cup {row}
<1> DEFINE new == [url |-> job[w].url, content |-> job[w].content, status |-> "new",
                   origin |-> IF job[w].id = NoId THEN "bookmark" ELSE "autoresearch"]
<1>1. job[w].at = "insert" /\ job[w].id \in DOMAIN queue \cup {NoId}
  BY DEF Good, Jobs, JobOK, Insert, At, Fetching
<1>2. /\ new \notin sources /\ sources' = sources \cup stubs \cup {new}
      /\ \A s \in stubs : s.origin = "bookmark"
      /\ events' = Charged(job[w].id) /\ Proceed(w) /\ UNCHANGED <<queue, night>>
  BY DEF Good, SourcesOK, Insert, HashTaken
<1>3. CASE job[w].id = NoId
  <2>1. new.origin = "bookmark"
    BY <1>3
  <2> HIDE DEF new
  <2> QED BY <1>1, <1>2, <1>3, <2>1 DEF Charged
<1>4. CASE job[w].id # NoId
  <2>1. new.origin = "autoresearch" /\ job[w].id \in DOMAIN queue
    BY <1>1, <1>4
  <2>2. events' = Recorded("fetch", job[w].id) /\ Goto(w, Idle)
    BY <1>2, <1>4 DEF Charged, Proceed
  <2>3. events' = events \cup {Event("fetch", job[w].id)} /\ Event("fetch", job[w].id) \notin events
    BY <1>2, <2>1, <2>2, EventRecorded DEF Good
  <2> HIDE DEF new
  <2>4. /\ new \notin {s \in sources : s.origin = "autoresearch"}
        /\ {s \in sources' : s.origin = "autoresearch"}
              = {s \in sources : s.origin = "autoresearch"} \cup {new}
    BY <1>2, <2>1
  <2> QED BY <1>1, <1>2, <2>1, <2>2, <2>3, <2>4
<1> QED BY <1>3, <1>4

LEMMA InsertGood ==
    ASSUME Good, NEW w \in Workers, Insert(w)
    PROVE  Good'
<1>1. Jobs'
  BY ProceedKeeps DEF Good, Insert, At, Fetching
<1>2. EventsOK'
  <2>1. CASE job[w].id = NoId
    BY <2>1 DEF Good, EventsOK, Insert, Charged
  <2>2. CASE job[w].id # NoId
    BY <2>2, Inserted, EventRecorded DEF Good, Insert, Charged
  <2> QED BY <2>1, <2>2
<1>3. IsFiniteSet({s \in sources' : s.origin = "autoresearch"})
  <2> DEFINE pages == {s \in sources : s.origin = "autoresearch"}
             pagesNext == {s \in sources' : s.origin = "autoresearch"}
  <2>1. IsFiniteSet(pages) /\ (pagesNext = pages \/ \E row : pagesNext = pages \cup {row})
    BY Inserted DEF Good, SourcesOK
  <2> HIDE DEF pages
  <2> QED BY <2>1, FS_AddElement
<1>4. stubs' = {}
  BY DEF Insert
<1> QED BY <1>1, <1>2, <1>3, <1>4 DEF Good, QueueOK, SourcesOK, Insert

LEMMA NewDayGood == Good /\ NewDay => Good'
BY JobsStay, GatherGood DEF Good, NewDay, store, txn

LEMMA StepGood ==
    ASSUME Good, [Next]_vars
    PROVE  Good'
<1>1. ASSUME NEW w \in Workers, NEW q \in Questions, Add(w, q) PROVE Good'
  BY <1>1, AddGood
<1>2. ASSUME NEW w \in Workers, NEW q \in LintQuestions, Lint(w, q) PROVE Good'
  BY <1>2, LintGood
<1>3. ASSUME NEW w \in Workers, NEW id \in DOMAIN queue, Done(w, id) \/ AttemptRead(w, id)
      PROVE Good'
  BY <1>3, DoneGood, AttemptReadGood
<1>4. ASSUME NEW w \in Workers, AttemptWrite(w) \/ LintQueue(w) \/ Abort(w) PROVE Good'
  BY <1>4, AttemptWriteGood, LintQueueGood, AbortGood
<1>5. ASSUME NEW w \in Workers, NEW id, Search(w, id) PROVE Good'
  BY <1>5, SearchGood
<1>6. ASSUME NEW w \in Workers, NEW id \in DOMAIN queue, NEW url \in Urls, Fetch(w, url, id)
      PROVE Good'
  BY <1>6, FetchGood
<1>7. ASSUME NEW w \in Workers, Charge(w) \/ Sync(w) \/ Get(w) \/ Stub(w) PROVE Good'
  BY <1>7, ChargeGood, SyncGood, GetGood, StubGood
<1>8. ASSUME NEW w \in Workers, Register(w) \/ Insert(w) \/ Finalize(w) PROVE Good'
  BY <1>8, RegisterGood, InsertGood, FinalizeGood
<1>9. CASE UNCHANGED vars
  BY <1>9, JobsStay, GatherGood DEF Good, vars, store, txn
<1> QED BY <1>1, <1>2, <1>3, <1>4, <1>5, <1>6, <1>7, <1>8, <1>9, NewDayGood
        DEF Next, QueueStep, GatherStep

-----------------------------------------------------------------------------
(* Charges and pages *)

LEMMA InsertCharges ==
    ASSUME Good, ChargesMatchSources, NEW w \in Workers, Insert(w)
    PROVE  ChargesMatchSources'
<1> DEFINE charges == {e \in events : e.kind = "fetch"}
           chargesNext == {e \in events' : e.kind = "fetch"}
           pages == {s \in sources : s.origin = "autoresearch"}
           pagesNext == {s \in sources' : s.origin = "autoresearch"}
<1>1. /\ IsFiniteSet(charges) /\ IsFiniteSet(pages)
      /\ Cardinality(charges) = Cardinality(pages)
  <2>1. charges \subseteq events
    OBVIOUS
  <2> QED BY <2>1, FS_Subset DEF Good, EventsOK, SourcesOK, ChargesMatchSources
<1>2. CASE events' = events /\ pagesNext = pages
  BY <1>1, <1>2 DEF ChargesMatchSources
<1>3. ASSUME NEW id, NEW row, row \notin pages, pagesNext = pages \cup {row},
             Event("fetch", id) \notin events, events' = events \cup {Event("fetch", id)}
      PROVE  ChargesMatchSources'
  <2>1. Event("fetch", id).kind = "fetch"
    BY DEF Event
  <2>2. chargesNext = charges \cup {Event("fetch", id)} /\ Event("fetch", id) \notin charges
    <3> HIDE DEF pages
    <3> QED BY <1>3, <2>1
  <2>3. Cardinality(chargesNext) = Cardinality(charges) + 1
    <3> HIDE DEF charges, chargesNext
    <3> QED BY <1>1, <2>2, FS_AddElement
  <2>4. Cardinality(pagesNext) = Cardinality(pages) + 1
    <3> HIDE DEF pages, pagesNext
    <3> QED BY <1>1, <1>3, FS_AddElement
  <2> QED BY <1>1, <2>3, <2>4 DEF ChargesMatchSources
<1> QED BY <1>2, <1>3, Inserted

LEMMA StepCharges ==
    ASSUME Good, ChargesMatchSources, [Next]_vars
    PROVE  ChargesMatchSources'
<1>1. ASSUME NEW w \in Workers, Insert(w) PROVE ChargesMatchSources'
  BY <1>1, InsertCharges
<1>2. ASSUME NEW w \in Workers, Finalize(w) PROVE ChargesMatchSources'
  <2>1. {s \in sources' : s.origin = "autoresearch"} = {s \in sources : s.origin = "autoresearch"}
    BY <1>2 DEF Good, SourcesOK, Finalize, txn
  <2> QED BY <1>2, <2>1 DEF ChargesMatchSources, Finalize
<1>3. ASSUME NEW w \in Workers, Charge(w) PROVE ChargesMatchSources'
  <2>1. {e \in events' : e.kind = "fetch"} = {e \in events : e.kind = "fetch"}
    BY <1>3 DEF Charge, Recorded
  <2> QED BY <1>3, <2>1 DEF ChargesMatchSources, Charge
<1>4. CASE UNCHANGED <<events, sources>>
  BY <1>4 DEF ChargesMatchSources
<1> QED BY <1>1, <1>2, <1>3, <1>4
        DEF Next, QueueStep, GatherStep, Add, Lint, Done, AttemptRead, AttemptWrite, LintQueue,
            Abort, Search, Fetch, Sync, Get, Stub, Register, NewDay, vars, store, txn

-----------------------------------------------------------------------------
(* Budgets: those who may still charge *)

Charges(n, ids) == {e \in events : e.night = n /\ e.kind = "fetch" /\ e.id \in ids}
Pending(ids) == {w \in Workers : job[w].at \in Fetching /\ job[w].id \in ids}

\* Tonight either nobody is refused yet, or no more can be charged than who is
\* already fetching; of the past nights only the charges are left.
Within(ids, limit) ==
    /\ \/ Cardinality(Charges(night, ids)) < limit
       \/ Cardinality(Charges(night, ids)) + Cardinality(Pending(ids)) <= limit + Overrun
    /\ \A n \in Nat : n < night => Cardinality(Charges(n, ids)) <= limit + Overrun

Ids == Nat \ {0}
Budgets == /\ Within(Ids, FetchesPerNight)
           /\ \A id \in Ids : Within({id}, FetchesPerQuestion)

LEMMA Finite ==
    ASSUME Good, NEW n, NEW ids
    PROVE  /\ IsFiniteSet(Charges(n, ids)) /\ Cardinality(Charges(n, ids)) \in Nat
           /\ IsFiniteSet(Pending(ids)) /\ Cardinality(Pending(ids)) \in Nat
           /\ Cardinality(Pending(ids)) <= Cardinality(Workers) /\ Cardinality(Workers) \in Nat
<1>1. Charges(n, ids) \subseteq events /\ Pending(ids) \subseteq Workers
  BY DEF Charges, Pending
<1> QED BY <1>1, FS_Subset, FS_CardinalityType, GatheringAssumption DEF Good, EventsOK

\* Nobody joins those who fetch, and nothing is charged.
LEMMA NobodyJoins ==
    ASSUME Good, NEW ids, NEW limit \in Nat, Within(ids, limit),
           \A n \in Nat : Charges(n, ids)' = Charges(n, ids), UNCHANGED night,
           Pending(ids)' \subseteq Pending(ids)
    PROVE  Within(ids, limit)'
<1>1. Cardinality(Pending(ids)') \in Nat /\ Cardinality(Pending(ids)') <= Cardinality(Pending(ids))
  BY Finite, FS_Subset, FS_CardinalityType
<1>2. night \in Nat
  BY DEF Good, EventsOK
<1> QED BY <1>1, <1>2, Finite DEF Within, Overrun

\* Whoever is allowed a fetch finds the budget open.
LEMMA OneJoins ==
    ASSUME Good, NEW ids, NEW limit \in Nat, Within(ids, limit),
           \A n \in Nat : Charges(n, ids)' = Charges(n, ids), UNCHANGED night,
           Cardinality(Charges(night, ids)) < limit
    PROVE  Within(ids, limit)'
<1>1. night \in Nat
  BY DEF Good, EventsOK
<1> QED BY <1>1 DEF Within, Overrun

\* Who charges is no longer fetching.
LEMMA OneCharges ==
    ASSUME Good, NEW ids, NEW limit \in Nat, Within(ids, limit), UNCHANGED night,
           NEW w \in Pending(ids), Pending(ids)' = Pending(ids) \ {w},
           NEW e, e \notin Charges(night, ids),
           Charges(night, ids)' = Charges(night, ids) \cup {e},
           \A n \in Nat : n # night => Charges(n, ids)' = Charges(n, ids)
    PROVE  Within(ids, limit)'
<1>1. night \in Nat
  BY DEF Good, EventsOK
<1>2. Cardinality(Charges(night, ids)') = Cardinality(Charges(night, ids)) + 1
  BY Finite, FS_AddElement
<1>3. Cardinality(Pending(ids)') = Cardinality(Pending(ids)) - 1
  BY Finite, FS_RemoveElement
<1> QED BY <1>1, <1>2, <1>3, Finite DEF Within, Overrun

LEMMA NightFalls ==
    ASSUME Good, NEW ids, NEW limit \in Nat \ {0}, Within(ids, limit), NewDay
    PROVE  Within(ids, limit)'
<1>1. night \in Nat /\ night' = night + 1 /\ UNCHANGED events
  BY DEF Good, EventsOK, NewDay, store
<1>2. \A n \in Nat : Charges(n, ids)' = Charges(n, ids)
  BY <1>1 DEF Charges
<1>3. Charges(night, ids)' = {}
  BY <1>1 DEF Charges, Good, EventsOK
<1>4. Cardinality(Charges(night, ids)') = 0
  BY <1>3, FS_EmptySet
<1>5. Cardinality(Charges(night, ids)) <= limit + Overrun
  BY Finite DEF Within, Overrun
<1> QED BY <1>1, <1>2, <1>4, <1>5 DEF Within, Overrun

\* Events and sessions that fetch as they were, or fewer of them.
LEMMA QuietKeeps ==
    ASSUME Good, Budgets, UNCHANGED night,
           {e \in events' : e.kind = "fetch"} = {e \in events : e.kind = "fetch"},
           \A w \in Workers : job'[w].at \in Fetching /\ job'[w].id # NoId =>
                job[w].at \in Fetching /\ job[w].id = job'[w].id
    PROVE  Budgets'
<1>1. ASSUME NEW ids \in SUBSET Ids, NEW limit \in Nat, Within(ids, limit)
      PROVE  Within(ids, limit)'
  <2>1. \A n \in Nat : Charges(n, ids)' = Charges(n, ids)
    BY DEF Charges
  <2>2. Pending(ids)' \subseteq Pending(ids)
    BY DEF Pending, Ids, NoId
  <2> QED BY <1>1, <2>1, <2>2, NobodyJoins
<1>2. \A id \in Ids : {id} \in SUBSET Ids
  OBVIOUS
<1>3. FetchesPerNight \in Nat /\ FetchesPerQuestion \in Nat
  BY GatheringAssumption
<1> QED BY <1>1, <1>2, <1>3 DEF Budgets

\* A fetch for a question is one of the night's and one of the question's.
LEMMA FetchesOfTheQueue ==
    ASSUME Good
    PROVE  DOMAIN queue \subseteq Ids /\ Charges(night, Ids) = Charges(night, DOMAIN queue)
<1>1. DOMAIN queue \subseteq Ids
  BY DEF Good, QueueOK, Ids
<1> QED BY <1>1 DEF Good, EventsOK, Charges

LEMMA FetchBudgets ==
    ASSUME Good, Budgets, NEW w \in Workers, NEW id \in DOMAIN queue, NEW url, Fetch(w, url, id)
    PROVE  Budgets'
<1>1. UNCHANGED <<events, night>> /\ \A n, ids : Charges(n, ids)' = Charges(n, ids)
  BY DEF Fetch, store, Charges
<1>2. /\ Cardinality(Charges(night, Ids)) < FetchesPerNight
      /\ Cardinality(Charges(night, {id})) < FetchesPerQuestion
  BY FetchesOfTheQueue DEF Fetch, FetchAllowed, Tonight, Charges
<1>3. Within(Ids, FetchesPerNight)'
  BY <1>1, <1>2, OneJoins, GatheringAssumption DEF Budgets
<1>4. ASSUME NEW i \in Ids
      PROVE  Within({i}, FetchesPerQuestion)'
  <2>1. CASE i = id
    BY <1>1, <1>2, <2>1, OneJoins, GatheringAssumption DEF Budgets
  <2>2. CASE i # id
    <3>1. \A v \in Workers : v # w => job'[v] = job[v]
      BY DEF Good, Jobs, Fetch, Goto
    <3>2. job'[w].id = id
      BY DEF Good, Jobs, Fetch, Goto
    <3>3. Pending({i})' \subseteq Pending({i})
      BY <2>2, <3>1, <3>2 DEF Pending
    <3> QED BY <1>1, <3>3, NobodyJoins, GatheringAssumption DEF Budgets
  <2> QED BY <2>1, <2>2
<1> QED BY <1>3, <1>4 DEF Budgets

LEMMA InsertBudgets ==
    ASSUME Good, Budgets, NEW w \in Workers, Insert(w)
    PROVE  Budgets'
<1>1. \A v \in Workers : v # w => job'[v] = job[v]
  BY DEF Good, Jobs, Insert, Proceed, Goto
<1>2. CASE job[w].id = NoId
  <2>1. job'[w].at \notin Fetching \/ job'[w].id = NoId
    BY <1>2 DEF Good, Jobs, JobOK, Insert, At, Proceed, Goto, Fetching
  <2> QED BY <1>1, <1>2, <2>1, Inserted, QuietKeeps DEF Insert, Charged
<1>3. CASE job[w].id # NoId
  <2> DEFINE id == job[w].id
             e == Event("fetch", id)
  <2>1. /\ job[w].at = "insert" /\ id \in DOMAIN queue /\ Goto(w, Idle) /\ UNCHANGED night
        /\ events' = events \cup {e} /\ e \notin events
    BY <1>3, Inserted
  <2>2. job'[w] = Idle
    BY <2>1 DEF Good, Jobs, Goto
  <2>3. id \in Ids
    BY <2>1, FetchesOfTheQueue
  <2>4. e.kind = "fetch" /\ e.night = night /\ e.id = id
    BY DEF Event
  <2>5. ASSUME NEW ids, id \in ids, NEW limit \in Nat, Within(ids, limit)
        PROVE  Within(ids, limit)'
    <3>1. w \in Pending(ids) /\ Pending(ids)' = Pending(ids) \ {w}
      BY <1>1, <2>1, <2>2, <2>5 DEF Pending, Fetching, Idle
    <3> HIDE DEF e
    <3>2. /\ e \notin Charges(night, ids)
          /\ Charges(night, ids)' = Charges(night, ids) \cup {e}
          /\ \A n \in Nat : n # night => Charges(n, ids)' = Charges(n, ids)
      BY <2>1, <2>4, <2>5 DEF Charges
    <3> QED BY <2>1, <2>5, <3>1, <3>2, OneCharges
  <2>6. ASSUME NEW ids, id \notin ids, NEW limit \in Nat, Within(ids, limit)
        PROVE  Within(ids, limit)'
    <3>1. Pending(ids)' \subseteq Pending(ids)
      BY <1>1, <2>2 DEF Pending, Fetching, Idle
    <3> HIDE DEF e
    <3>2. \A n \in Nat : Charges(n, ids)' = Charges(n, ids)
      BY <2>1, <2>4, <2>6 DEF Charges
    <3> QED BY <2>1, <2>6, <3>1, <3>2, NobodyJoins
  <2>7. FetchesPerNight \in Nat /\ FetchesPerQuestion \in Nat
    BY GatheringAssumption
  <2>8. Within(Ids, FetchesPerNight)'
    BY <2>3, <2>5, <2>7 DEF Budgets
  <2>9. ASSUME NEW i \in Ids
        PROVE  Within({i}, FetchesPerQuestion)'
    <3>1. id \in {i} \/ id \notin {i}
      OBVIOUS
    <3> QED BY <2>5, <2>6, <2>7, <3>1 DEF Budgets
  <2> QED BY <2>8, <2>9 DEF Budgets
<1> QED BY <1>2, <1>3

\* Every other step lets nobody in: who joins comes from the idle.
LEMMA LeaveKeeps ==
    ASSUME Good, Budgets, UNCHANGED night,
           {e \in events' : e.kind = "fetch"} = {e \in events : e.kind = "fetch"},
           NEW w \in Workers, NEW j, Goto(w, j),
           \/ j.at \notin Fetching
           \/ j.id = NoId
           \/ job[w].at \in Fetching /\ job[w].id = j.id
    PROVE  Budgets'
<1>1. \A v \in Workers : job'[v] = IF v = w THEN j ELSE job[v]
  BY DEF Good, Jobs, Goto
<1> QED BY <1>1, QuietKeeps

LEMMA StayKeeps ==
    ASSUME Good, Budgets, UNCHANGED <<night, events, job>>
    PROVE  Budgets'
BY QuietKeeps

LEMMA ProceedBudgets ==
    ASSUME Good, Budgets, UNCHANGED <<night, events>>, NEW w \in Workers, Proceed(w),
           "at" \in DOMAIN job[w]
    PROVE  Budgets'
<1>1. CASE Goto(w, Idle)
  BY <1>1, LeaveKeeps DEF Idle, Fetching
<1>2. CASE Goto(w, [job[w] EXCEPT !.at = "finalize"])
  <2>1. [job[w] EXCEPT !.at = "finalize"].at \notin Fetching
    BY DEF Fetching
  <2> QED BY <1>2, <2>1, LeaveKeeps
<1>3. ASSUME NEW url \in job[w].todo,
             Goto(w, [at |-> "get", url |-> url, id |-> NoId, todo |-> job[w].todo \ {url}])
      PROVE  Budgets'
  BY <1>3, LeaveKeeps
<1> QED BY <1>1, <1>2, <1>3 DEF Proceed

LEMMA GetBudgets ==
    ASSUME Good, Budgets, NEW w \in Workers, Get(w)
    PROVE  Budgets'
<1> DEFINE fetched(up) == [at |-> "register", url |-> job[w].url, id |-> job[w].id,
                           todo |-> job[w].todo, content |-> Fetched(job[w].url, job[w].id, up)]
<1>1. job[w].at \in Fetching /\ "at" \in DOMAIN job[w] /\ UNCHANGED <<night, events>>
  BY DEF Good, Jobs, JobOK, Get, At, Fetching, store
<1>2. \/ Goto(w, [job[w] EXCEPT !.at = "stub"]) \/ Goto(w, Idle)
      \/ \E up \in SUBSET {"jina", "trafilatura"} : Goto(w, fetched(up))
  BY DEF Get
<1>3. CASE Goto(w, [job[w] EXCEPT !.at = "stub"])
  <2>1. [job[w] EXCEPT !.at = "stub"].at \notin Fetching
    BY <1>1 DEF Fetching
  <2> QED BY <1>1, <1>3, <2>1, LeaveKeeps
<1>4. CASE Goto(w, Idle)
  BY <1>1, <1>4, LeaveKeeps DEF Idle, Fetching
<1>5. ASSUME NEW up, Goto(w, fetched(up))
      PROVE  Budgets'
  <2>1. fetched(up).id = job[w].id
    OBVIOUS
  <2> HIDE DEF fetched
  <2> QED BY <1>1, <1>5, <2>1, LeaveKeeps
<1> QED BY <1>2, <1>3, <1>4, <1>5

LEMMA RegisterBudgets ==
    ASSUME Good, Budgets, NEW w \in Workers, Register(w)
    PROVE  Budgets'
<1>1. /\ job[w].at \in Fetching /\ {"at", "id"} \subseteq DOMAIN job[w]
      /\ UNCHANGED <<night, events>>
  BY DEF Good, Jobs, JobOK, Register, At, Fetching, store
<1>2. [job[w] EXCEPT !.at = "insert"].id = job[w].id
  BY <1>1
<1> QED BY <1>1, <1>2, LeaveKeeps, ProceedBudgets DEF Register

LEMMA NewDayBudgets ==
    ASSUME Good, Budgets, NewDay
    PROVE  Budgets'
BY NightFalls, GatheringAssumption DEF Budgets

LEMMA StepBudgets ==
    ASSUME Good, Budgets, [Next]_vars
    PROVE  Budgets'
<1>1. ASSUME NEW w \in Workers, Charge(w)
      PROVE  Budgets'
  <2>1. {e \in events' : e.kind = "fetch"} = {e \in events : e.kind = "fetch"}
    BY <1>1 DEF Charge, Recorded
  <2> QED BY <1>1, <2>1, LeaveKeeps DEF Charge, Idle, Fetching
<1>2. ASSUME NEW w \in Workers, AttemptWrite(w) \/ LintQueue(w) \/ Abort(w) \/ Finalize(w)
      PROVE  Budgets'
  BY <1>2, LeaveKeeps DEF AttemptWrite, LintQueue, Abort, Finalize, store, Idle, Fetching
<1>3. ASSUME NEW w \in Workers, NEW id, AttemptRead(w, id) \/ Search(w, id) \/ Lint(w, id)
      PROVE  Budgets'
  BY <1>3, LeaveKeeps, StayKeeps DEF AttemptRead, Search, Lint, store, Fetching
<1>4. ASSUME NEW w \in Workers, Sync(w)
      PROVE  Budgets'
  <2>1. PICK url, todo : Goto(w, [at |-> "get", url |-> url, id |-> NoId, todo |-> todo])
    BY <1>4 DEF Sync
  <2> QED BY <1>4, <2>1, LeaveKeeps DEF Sync, store
<1>5. ASSUME NEW w \in Workers, Stub(w)
      PROVE  Budgets'
  BY <1>5, ProceedBudgets DEF Good, Jobs, JobOK, Stub, store
<1>6. ASSUME NEW w \in Workers, NEW id, Add(w, id) \/ Done(w, id)
      PROVE  Budgets'
  BY <1>6, StayKeeps DEF Add, Done, txn
<1>7. CASE UNCHANGED vars
  BY <1>7, StayKeeps DEF vars, store, txn
<1> QED BY <1>1, <1>2, <1>3, <1>4, <1>5, <1>6, <1>7, FetchBudgets, GetBudgets, RegisterBudgets,
           InsertBudgets, NewDayBudgets
        DEF Next, QueueStep, GatherStep

LEMMA InitBudgets == Init => Budgets
<1> SUFFICES ASSUME Init PROVE Budgets
  OBVIOUS
<1>1. ASSUME NEW ids, NEW limit \in Nat \ {0}
      PROVE  Within(ids, limit)
  <2>1. Charges(night, ids) = {}
    BY DEF Init, Charges
  <2>2. Cardinality(Charges(night, ids)) = 0
    BY <2>1, FS_EmptySet
  <2>3. ASSUME NEW n \in Nat, n < night
        PROVE  Cardinality(Charges(n, ids)) <= limit + Overrun
    <3>1. Charges(n, ids) = {} /\ Cardinality({}) = 0 /\ Cardinality(Workers) \in Nat
      BY FS_EmptySet, FS_CardinalityType, GatheringAssumption DEF Init, Charges
    <3> QED BY <3>1 DEF Overrun
  <2> QED BY <2>2, <2>3 DEF Within
<1> QED BY <1>1, GatheringAssumption DEF Budgets

-----------------------------------------------------------------------------
LEMMA GoodHolds == Spec => []Good
<1>1. Init => Good
  BY InitGood
<1>2. Good /\ [Next]_vars => Good'
  BY StepGood
<1> QED BY <1>1, <1>2, PTL DEF Spec

\* However attempts race with each other and with done, an open question is below the
\* limit and a parked one at it (queue.py:48-58).
THEOREM CountsAreTheirStatus == Spec => []ParkedAtTheLimit
<1>1. Good => ParkedAtTheLimit
  BY DEF Good, QueueOK, CountFits, ParkedAtTheLimit
<1> QED BY <1>1, GoodHolds, PTL

\* Whatever a session dies of, a fetch is charged exactly when its page is registered
\* (gather.py:139-150).
THEOREM FetchAndChargeAreOne == Spec => []ChargesMatchSources
<1>1. Init => ChargesMatchSources
  <2> SUFFICES ASSUME Init PROVE ChargesMatchSources
    OBVIOUS
  <2>1. {e \in events : e.kind = "fetch"} = {} /\ {s \in sources : s.origin = "autoresearch"} = {}
    BY DEF Init
  <2> QED BY <2>1 DEF ChargesMatchSources
<1>2. Good /\ ChargesMatchSources /\ [Next]_vars => ChargesMatchSources'
  BY StepCharges
<1> QED BY <1>1, <1>2, GoodHolds, PTL DEF Spec

\* Sessions that race on one budget exceed it by less than their number, on any night,
\* in all and for each question (gather.py:58-62 and 149).
THEOREM OverrunIsBounded == Spec => []BudgetsHold
<1>1. Init => Budgets
  BY InitBudgets
<1>2. Good /\ Budgets /\ [Next]_vars => Budgets'
  BY StepBudgets
<1>3. ASSUME Good, Budgets
      PROVE  BudgetsHold
  <2>1. ASSUME NEW ids, NEW limit \in Nat, Within(ids, limit), NEW n \in Nat
        PROVE  Cardinality(Charges(n, ids)) <= limit + Overrun
    <3>1. night \in Nat
      BY <1>3 DEF Good, EventsOK
    <3>2. CASE n < night
      BY <2>1, <3>2 DEF Within
    <3>3. CASE n = night
      BY <1>3, <2>1, <3>3, Finite DEF Within, Overrun
    <3>4. CASE n > night
      <4>1. Charges(n, ids) = {} \/ ids = {}
        BY <1>3, <3>1, <3>4 DEF Charges, Good, EventsOK
      <4>2. Cardinality(Charges(n, ids)) = 0
        BY <4>1, FS_EmptySet DEF Charges
      <4>3. 0 <= limit + Overrun
        BY <1>3, <2>1, Finite DEF Within, Overrun
      <4> QED BY <4>2, <4>3
    <3> QED BY <3>1, <3>2, <3>3, <3>4
  <2>2. ASSUME NEW n \in 1..Nights
        PROVE  /\ Cardinality(Charges(n, DOMAIN queue)) <= FetchesPerNight + Overrun
               /\ \A id \in DOMAIN queue : Cardinality(Charges(n, {id})) <= FetchesPerQuestion + Overrun
    <3>1. DOMAIN queue \subseteq Ids /\ Charges(n, Ids) = Charges(n, DOMAIN queue)
      BY <1>3, FetchesOfTheQueue DEF Good, EventsOK, Charges
    <3>2. FetchesPerNight \in Nat /\ FetchesPerQuestion \in Nat /\ n \in Nat
      BY GatheringAssumption
    <3> QED BY <1>3, <2>1, <3>1, <3>2 DEF Budgets
  <2> QED BY <2>2 DEF BudgetsHold, Charges
<1> QED BY <1>1, <1>2, <1>3, GoodHolds, PTL DEF Spec

-----------------------------------------------------------------------------
(***************************************************************************)
(* The librarian: a session that has written a recommendation and not      *)
(* committed it holds the lock, through its calls of the model, so that    *)
(* nobody can make it wrong or lose it.                                    *)
(***************************************************************************)
LEMMA NobodyHolds == NoSession \notin Librarians
BY BackgroundAssumption DEF Librarian!LibrarianAssumption

\* What a session in the stage triage has counted and not yet reported.
Owed(j) == IF j # Librarian!Idle /\ j.stage = "triage" THEN j.done ELSE {}

RunOK(j) == j = Librarian!Idle
   \/ {"at", "run", "stage", "todo", "item", "tries", "done"} \subseteq DOMAIN j

\* Claims of which n were ever filed.
ClaimsOK(claims, n) ==
    /\ n \in Nat /\ DOMAIN claims \subseteq Nat
    /\ \A id \in DOMAIN claims : /\ {"source", "text", "status"} \subseteq DOMAIN claims[id]
                                 /\ claims[id].text \in 1..n

\* They may be committed: what is not new in them is there already, under the same id.
Follow(claims, n) ==
    /\ ClaimsOK(claims, n) /\ texts <= n
    /\ \A id \in DOMAIN claims : \/ claims[id].text > texts
                                 \/ id \in DOMAIN rows /\ claims[id].text = rows[id].text

\* The claims as a session reads them.
Reads(l) == IF held = l /\ torn # Librarian!Whole THEN torn.rows ELSE rows
Counts(l) == IF held = l /\ torn # Librarian!Whole THEN torn.texts ELSE texts

\* d counts a recommendation that is in ids, unless its claim is gone.
Stored(claims, d, ids) == d[1] \in DOMAIN claims /\ claims[d[1]].text = d[2] => d[1] \in ids

Typed ==
    /\ run = [l \in Librarians |-> run[l]] /\ \A l \in Librarians : RunOK(run[l])
    /\ ClaimsOK(rows, texts)
    /\ torn # Librarian!Whole => held # NoSession /\ Follow(torn.rows, torn.texts)

Reported == \A r \in reports : r[2] \in 1..texts /\ Stored(rows, r, advice)

Counted ==
    \A l \in Librarians :
        /\ Owed(run[l]) # {} => held = l
        /\ \A d \in Owed(run[l]) : d[2] \in 1..Counts(l) /\ Stored(Reads(l), d, written \cup advice)

LibrarianInv == Typed /\ Reported /\ Counted

-----------------------------------------------------------------------------
LEMMA InitLibrarian == Librarian!Init => LibrarianInv
<1> SUFFICES ASSUME Librarian!Init PROVE LibrarianInv
  OBVIOUS
<1>1. \A l \in Librarians : run[l] = Librarian!Idle
  BY DEF Librarian!Init
<1>2. DOMAIN rows = {} /\ texts = 0
  BY DEF Librarian!Init
<1>3. Typed
  BY <1>1, <1>2 DEF Librarian!Init, Typed, RunOK, ClaimsOK
<1> QED BY <1>1, <1>3 DEF Librarian!Init, LibrarianInv, Reported, Counted, Owed

LEMMA ViewRead ==
    ASSUME NEW l
    PROVE  Librarian!View(l).rows = Reads(l) /\ Librarian!View(l).texts = Counts(l)
BY DEF Librarian!View, Librarian!Committed, Reads, Counts

\* What a session that may write reads may be committed.
LEMMA ReadsFollow ==
    ASSUME LibrarianInv, NEW l
    PROVE  Follow(Reads(l), Counts(l))
<1>1. Follow(rows, texts)
  BY DEF LibrarianInv, Typed, Follow, ClaimsOK
<1> QED BY <1>1 DEF LibrarianInv, Typed, Reads, Counts

\* A session goes on with what it has counted, or with nothing.
LEMMA Goes ==
    ASSUME LibrarianInv, NEW l \in Librarians, NEW j, Librarian!Goto(l, j), RunOK(j),
           Owed(j) \in {{}, Owed(run[l])},
           UNCHANGED <<rows, texts, held, written, torn, advice, reports>>
    PROVE  LibrarianInv'
<1>1. \A k \in Librarians : run'[k] = IF k = l THEN j ELSE run[k]
  BY DEF Librarian!Goto, LibrarianInv, Typed
<1>2. Typed'
  BY <1>1 DEF Librarian!Goto, LibrarianInv, Typed, ClaimsOK, Follow
<1>3. Reported'
  BY DEF LibrarianInv, Reported, Stored
<1>4. \A k \in Librarians : Owed(run'[k]) \in {{}, Owed(run[k])}
  BY <1>1
<1>5. \A k \in Librarians : Reads(k)' = Reads(k) /\ Counts(k)' = Counts(k)
  BY DEF Reads, Counts
<1>6. Counted'
  <2> SUFFICES ASSUME NEW k \in Librarians
               PROVE  /\ Owed(run'[k]) # {} => held' = k
                      /\ \A d \in Owed(run'[k]) : d[2] \in 1..Counts(k)'
                            /\ Stored(Reads(k), d, written \cup advice)'
    BY DEF Counted
  <2> QED BY <1>4, <1>5 DEF LibrarianInv, Counted, Stored
<1> QED BY <1>2, <1>3, <1>6 DEF LibrarianInv

\* Somebody who has nothing counted writes: nobody else has, either.
LEMMA Writes ==
    ASSUME LibrarianInv, NEW l \in Librarians \cup {NoSession}, held \in {NoSession, l},
           \A k \in Librarians : k = l => Owed(run'[k]) = {},
           \A k \in Librarians : k # l => run'[k] = run[k],
           run' = [k \in Librarians |-> run'[k]], \A k \in Librarians : RunOK(run'[k]),
           Follow(rows', texts'), UNCHANGED reports,
           \A id \in DOMAIN rows' : rows'[id].text <= texts /\ id \in advice => id \in advice',
           torn' # Librarian!Whole => held' # NoSession /\ Follow(torn.rows, torn.texts)'
    PROVE  LibrarianInv'
<1>1. Typed'
  BY DEF LibrarianInv, Typed, Follow
<1>2. Reported'
  <2> SUFFICES ASSUME NEW r \in reports
               PROVE  r[2] \in 1..texts' /\ Stored(rows, r, advice)'
    BY DEF Reported
  <2>1. r[2] \in 1..texts /\ Stored(rows, r, advice)
    BY DEF LibrarianInv, Reported
  <2>2. texts \in Nat /\ texts' \in Nat /\ texts <= texts'
    BY DEF LibrarianInv, Typed, Follow, ClaimsOK
  <2>3. ASSUME r[1] \in DOMAIN rows', rows'[r[1]].text = r[2]
        PROVE  r[1] \in advice'
    BY <2>1, <2>2, <2>3 DEF Stored, Follow
  <2> QED BY <2>1, <2>2, <2>3 DEF Stored
<1>3. \A k \in Librarians : Owed(run'[k]) = {}
  BY NobodyHolds DEF LibrarianInv, Counted
<1>4. Counted'
  BY <1>3 DEF Counted
<1> QED BY <1>1, <1>2, <1>4 DEF LibrarianInv

\* The claims keep their texts.
SameTexts ==
    /\ DOMAIN rows' = DOMAIN rows
    /\ \A id \in DOMAIN rows : {"source", "text", "status"} \subseteq DOMAIN rows'[id]
                               /\ rows'[id].text = rows[id].text

LEMMA SameFollow == ASSUME LibrarianInv, SameTexts, UNCHANGED texts PROVE Follow(rows', texts')
BY DEF SameTexts, LibrarianInv, Typed, Follow, ClaimsOK

LEMMA SameClaims ==
    ASSUME LibrarianInv, UNCHANGED <<rows, texts>> PROVE SameTexts /\ Follow(rows', texts')
BY SameFollow DEF SameTexts, LibrarianInv, Typed, ClaimsOK

\* A command or a stage ends without a commit of its own.
LEMMA NextJobs == \A j : RunOK(Librarian!NextJob(j)) /\ Owed(Librarian!NextJob(j)) = {}
BY DEF Librarian!NextJob, RunOK, Owed, Librarian!Enter, Librarian!Idle

\* Where the sessions are when one has gone to j.
LEMMA Gone ==
    ASSUME LibrarianInv, NEW l \in Librarians, NEW j, Librarian!Goto(l, j), RunOK(j)
    PROVE  /\ \A k \in Librarians : run'[k] = IF k = l THEN j ELSE run[k]
           /\ run' = [k \in Librarians |-> run'[k]] /\ \A k \in Librarians : RunOK(run'[k])
BY DEF Librarian!Goto, LibrarianInv, Typed

LEMMA Ends ==
    ASSUME LibrarianInv, NEW l \in Librarians, NEW j, Librarian!Goto(l, j), RunOK(j), Owed(j) = {},
           UNCHANGED Librarian!txn \/ Librarian!Rollback(l), UNCHANGED <<rows, texts, reports>>
    PROVE  LibrarianInv'
<1>1. CASE UNCHANGED Librarian!txn
  BY <1>1, Goes DEF Librarian!txn
<1>2. CASE Librarian!Rollback(l) /\ held # l
  BY <1>2, Goes DEF Librarian!Rollback, Librarian!Released
<1>3. CASE Librarian!Rollback(l) /\ held = l
  BY <1>3, Gone, SameClaims, Writes DEF Librarian!Rollback, Librarian!Released
<1> QED BY <1>1, <1>2, <1>3

\* A commit of a session that has nothing counted.
LEMMA Commits ==
    ASSUME LibrarianInv, NEW l \in Librarians, NEW j, Librarian!Goto(l, j), RunOK(j), Owed(j) = {},
           held \in {NoSession, l}, NEW v, Librarian!Commit(l, v), Follow(v.rows, v.texts),
           UNCHANGED reports
    PROVE  LibrarianInv'
<1>1. Follow(rows', texts') /\ advice \subseteq advice'
  BY DEF Librarian!Commit
<1>2. torn' = Librarian!Whole
  BY NobodyHolds DEF Librarian!Commit, Librarian!Released, LibrarianInv, Typed
<1> QED BY <1>1, <1>2, Gone, Writes

\* An extraction in a transaction: the claims of the source go, and the new claim has a text
\* nobody has seen.
LEMMA FilingFollows ==
    ASSUME LibrarianInv, NEW s, NEW id \in Librarian!Free(s), NEW opened
    PROVE  LET v == Librarian!Filing(s, id, opened)
           IN  /\ Follow(v.rows, v.texts)
               /\ \A n \in DOMAIN v.rows : v.rows[n].text > texts \/ n \in DOMAIN Librarian!Kept(s)
<1> DEFINE v == Librarian!Filing(s, id, opened)
           kept == Librarian!Kept(s)
           claim == [source |-> s, text |-> texts + 1, status |-> "pending"]
<1>1. /\ v.rows = [n \in DOMAIN kept \cup {id} |-> IF n = id THEN claim ELSE kept[n]]
      /\ v.texts = texts + 1
  BY DEF Librarian!Filing
<1>2. id \in 1..MaxClaims
  BY DEF Librarian!Free
<1>3. DOMAIN kept \subseteq DOMAIN rows /\ \A n \in DOMAIN kept : kept[n] = rows[n]
  BY DEF Librarian!Kept, Librarian!Only
<1>4. claim.text = texts + 1 /\ {"source", "text", "status"} \subseteq DOMAIN claim
  OBVIOUS
<1> HIDE DEF v, kept, claim
<1>5. DOMAIN v.rows = DOMAIN kept \cup {id}
      /\ \A n \in DOMAIN v.rows : v.rows[n] = IF n = id THEN claim ELSE rows[n]
  BY <1>1, <1>3
<1>6. texts \in Nat /\ v.texts = texts + 1 /\ id \in Nat
  BY <1>1, <1>2 DEF LibrarianInv, Typed, ClaimsOK
<1>7. ASSUME NEW n \in DOMAIN v.rows
      PROVE  /\ n \in Nat /\ {"source", "text", "status"} \subseteq DOMAIN v.rows[n]
             /\ v.rows[n].text \in 1..v.texts
             /\ \/ v.rows[n].text > texts
                \/ n \in DOMAIN kept /\ n \in DOMAIN rows /\ v.rows[n].text = rows[n].text
  <2>1. CASE n = id
    BY <1>4, <1>5, <1>6, <2>1
  <2>2. CASE n # id
    <3>1. n \in DOMAIN kept /\ n \in DOMAIN rows /\ v.rows[n] = rows[n]
      BY <1>3, <1>5, <2>2
    <3>2. n \in Nat /\ {"source", "text", "status"} \subseteq DOMAIN rows[n]
             /\ rows[n].text \in 1..texts
      BY <3>1 DEF LibrarianInv, Typed, ClaimsOK
    <3> QED BY <1>6, <3>1, <3>2
  <2> QED BY <2>1, <2>2
<1>8. ClaimsOK(v.rows, v.texts)
  BY <1>6, <1>7 DEF ClaimsOK
<1> QED BY <1>6, <1>7, <1>8 DEF Follow, v, kept

\* It is committed while nobody has anything counted: the claims of the source go with
\* their recommendations.
LEMMA Files ==
    ASSUME LibrarianInv, NEW s, Librarian!Filed(s), UNCHANGED reports,
           NEW l \in Librarians \cup {NoSession}, held \in {NoSession, l},
           \A k \in Librarians : k = l => Owed(run'[k]) = {},
           \A k \in Librarians : k # l => run'[k] = run[k],
           run' = [k \in Librarians |-> run'[k]], \A k \in Librarians : RunOK(run'[k])
    PROVE  LibrarianInv'
<1>1. PICK id \in Librarian!Free(s) : \E opened :
          LET v == Librarian!Filing(s, id, opened) IN rows' = v.rows /\ texts' = v.texts
  BY DEF Librarian!Filed
<1>2. /\ Follow(rows', texts')
      /\ \A n \in DOMAIN rows' : rows'[n].text > texts \/ n \in DOMAIN Librarian!Kept(s)
  BY <1>1, FilingFollows
<1>3. ASSUME NEW n \in DOMAIN rows', rows'[n].text <= texts, n \in advice
      PROVE  n \in advice'
  <2>1. texts \in Nat /\ rows'[n].text \in Nat
    BY <1>2 DEF Follow, ClaimsOK, LibrarianInv, Typed
  <2>2. n \in DOMAIN Librarian!Kept(s)
    BY <1>2, <1>3, <2>1
  <2> QED BY <1>3, <2>2 DEF Librarian!Filed
<1>4. torn' = Librarian!Whole
  BY DEF Librarian!Filed
<1> QED BY <1>2, <1>3, <1>4, Writes

-----------------------------------------------------------------------------
LEMMA RunsStay ==
    ASSUME LibrarianInv, UNCHANGED run
    PROVE  run' = [k \in Librarians |-> run'[k]] /\ \A k \in Librarians : RunOK(run'[k])
BY DEF LibrarianInv, Typed

LEMMA NobodyCounts ==
    ASSUME LibrarianInv, NEW l \in Librarians \cup {NoSession}, held \in {NoSession, l}
    PROVE  \A k \in Librarians : k # l => Owed(run[k]) = {}
BY NobodyHolds DEF LibrarianInv, Counted

\* Steps that touch neither claims, sessions nor transactions.
LEMMA Aside ==
    ASSUME LibrarianInv, UNCHANGED <<run, rows, texts, Librarian!txn, reports>>
    PROVE  LibrarianInv'
<1>1. Typed'
  BY DEF LibrarianInv, Typed, ClaimsOK, Follow, Librarian!txn
<1>2. Reported'
  BY DEF LibrarianInv, Reported, Stored, Librarian!txn
<1>3. Counted'
  BY DEF LibrarianInv, Counted, Stored, Reads, Counts, Librarian!txn
<1> QED BY <1>1, <1>2, <1>3 DEF LibrarianInv

LEMMA PeopleStep ==
    ASSUME LibrarianInv, Librarian!People
    PROVE  LibrarianInv'
<1>1. ASSUME NEW s \in Sources, Librarian!Drop(s) \/ Librarian!AddSource(s)
      PROVE  LibrarianInv'
  BY <1>1, Aside DEF Librarian!Drop, Librarian!AddSource, Librarian!ledger
<1>2. ASSUME NEW s \in Sources, Librarian!Refile(s)
      PROVE  LibrarianInv'
  BY <1>2, NobodyHolds, RunsStay, Files DEF Librarian!Refile
<1>3. ASSUME NEW id \in DOMAIN rows, Librarian!Judge(id)
      PROVE  LibrarianInv'
  <2>1. SameTexts
    BY <1>3 DEF Librarian!Judge, SameTexts, LibrarianInv, Typed, ClaimsOK
  <2>2. held = NoSession /\ UNCHANGED <<run, texts, reports, held, torn, advice>>
    BY <1>3 DEF Librarian!Judge, Librarian!txn
  <2>3. torn' = Librarian!Whole
    BY <2>2 DEF LibrarianInv, Typed
  <2> QED BY <2>1, <2>2, <2>3, SameFollow, RunsStay, Writes, NobodyHolds
<1>4. ASSUME NEW k \in Cases, Librarian!HumanCase(k)
      PROVE  LibrarianInv'
  BY <1>4, Aside DEF Librarian!HumanCase
<1> QED BY <1>1, <1>2, <1>3, <1>4 DEF Librarian!People

\* Sessions that are at work, and what they have counted as they take, ask and fail.
LEMMA AtWork ==
    ASSUME LibrarianInv, NEW l \in Librarians, run[l] # Librarian!Idle
    PROVE  /\ {"at", "run", "stage", "todo", "item", "tries", "done"} \subseteq DOMAIN run[l]
           /\ \A x : RunOK(Librarian!Took(run[l], x))
                 /\ Owed(Librarian!Took(run[l], x)) \in {{}, Owed(run[l])}
           /\ \A x : RunOK(Librarian!Asking(run[l], x))
                 /\ Owed(Librarian!Asking(run[l], x)) \in {{}, Owed(run[l])}
           /\ RunOK(Librarian!Failed(run[l]))
                 /\ Owed(Librarian!Failed(run[l])) \in {{}, Owed(run[l])}
<1>1. {"at", "run", "stage", "todo", "item", "tries", "done"} \subseteq DOMAIN run[l]
  BY DEF LibrarianInv, Typed, RunOK
<1>2. \A x : /\ {"at", "run", "stage", "todo", "item", "tries", "done"}
                    \subseteq DOMAIN Librarian!Took(run[l], x)
             /\ Librarian!Took(run[l], x).stage = run[l].stage
                   /\ Librarian!Took(run[l], x).done = run[l].done
  BY <1>1 DEF Librarian!Took
<1>3. \A x : /\ {"at", "run", "stage", "todo", "item", "tries", "done"}
                    \subseteq DOMAIN Librarian!Asking(run[l], x)
             /\ Librarian!Asking(run[l], x).stage = run[l].stage
                   /\ Librarian!Asking(run[l], x).done = run[l].done
  BY <1>2 DEF Librarian!Asking
<1>4. /\ {"at", "run", "stage", "todo", "item", "tries", "done"}
                    \subseteq DOMAIN Librarian!Failed(run[l])
      /\ Librarian!Failed(run[l]).stage = run[l].stage
            /\ Librarian!Failed(run[l]).done = run[l].done
  BY <1>1 DEF Librarian!Failed
<1> QED BY <1>1, <1>2, <1>3, <1>4 DEF RunOK, Owed

LEMMA Entered ==
    ASSUME NEW command, NEW stage
    PROVE  RunOK(Librarian!Enter(command, stage)) /\ Owed(Librarian!Enter(command, stage)) = {}
BY DEF RunOK, Librarian!Enter, Owed

\* A stage that raises loses what it has counted, and reports none of it.
LEMMA StageErrors ==
    ASSUME LibrarianInv, NEW l \in Librarians, Librarian!StageError(l)
    PROVE  LibrarianInv'
<1>1. Librarian!Goto(l, Librarian!NextJob(run[l]))
         /\ (UNCHANGED Librarian!txn \/ Librarian!Rollback(l)) /\ UNCHANGED <<rows, texts, reports>>
  BY DEF Librarian!StageError, Librarian!ledger
<1> QED BY <1>1, NextJobs, Ends

\* Steps that change nothing but where a session is.
LEMMA GoingStep ==
    ASSUME LibrarianInv, NEW l \in Librarians, NEW j, Librarian!Goto(l, j),
           UNCHANGED <<Librarian!ledger, Librarian!txn, reports>>,
           RunOK(j), Owed(j) \in {{}, Owed(run[l])}
    PROVE  LibrarianInv'
BY Goes DEF Librarian!ledger, Librarian!txn

LEMMA BeginStep ==
    ASSUME LibrarianInv, NEW l \in Librarians, NEW command, Librarian!Begin(l, command)
    PROVE  LibrarianInv'
BY Entered, GoingStep DEF Librarian!Begin

LEMMA ReadWorkStep ==
    ASSUME LibrarianInv, NEW l \in Librarians, Librarian!ReadWork(l)
    PROVE  LibrarianInv'
<1> DEFINE todo == CASE run[l].stage = "catch_up" -> Librarian!New
                     [] run[l].stage = "triage" -> Librarian!Untriaged(Librarian!View(l))
                     [] run[l].stage = "adjudicate" -> Librarian!Unproposed(Librarian!View(l))
           j == [run[l] EXCEPT !.at = "work", !.todo = todo]
<1>1. run[l] # Librarian!Idle /\ Librarian!Goto(l, j)
  <2>1. Librarian!Goto(l, j)
    BY Zenon DEF Librarian!ReadWork
  <2>2. run[l] # Librarian!Idle
    BY DEF Librarian!ReadWork, Librarian!At, Librarian!Idle
  <2> QED BY <2>1, <2>2
<1> HIDE DEF todo
<1>2. RunOK(j) /\ Owed(j) \in {{}, Owed(run[l])}
  BY <1>1, AtWork DEF RunOK, Owed
<1> HIDE DEF j
<1> QED BY <1>1, <1>2, GoingStep DEF Librarian!ReadWork

LEMMA AskSteps ==
    ASSUME LibrarianInv, NEW l \in Librarians,
           Librarian!AskFails(l) \/ Librarian!AskInvalid(l) \/ (\E x : Librarian!AskValid(l, x))
    PROVE  LibrarianInv'
<1>1. run[l] # Librarian!Idle /\ UNCHANGED <<Librarian!ledger, Librarian!txn, reports>>
  BY DEF Librarian!AskFails, Librarian!AskInvalid, Librarian!AskValid, Librarian!At, Librarian!Idle
<1>2. CASE Librarian!Goto(l, Librarian!Failed(run[l]))
  BY <1>1, <1>2, AtWork, GoingStep
<1>3. CASE Librarian!Goto(l, [run[l] EXCEPT !.tries = run[l].tries - 1])
  <2> DEFINE j == [run[l] EXCEPT !.tries = run[l].tries - 1]
  <2>1. RunOK(j) /\ Owed(j) \in {{}, Owed(run[l])}
    BY <1>1, AtWork DEF RunOK, Owed
  <2> HIDE DEF j
  <2> QED BY <1>1, <1>3, <2>1, GoingStep DEF j
<1>4. CASE Librarian!Goto(l, [run[l] EXCEPT !.at = "write"])
  <2> DEFINE j == [run[l] EXCEPT !.at = "write"]
  <2>1. RunOK(j) /\ Owed(j) \in {{}, Owed(run[l])}
    BY <1>1, AtWork DEF RunOK, Owed
  <2> HIDE DEF j
  <2> QED BY <1>1, <1>4, <2>1, GoingStep DEF j
<1> QED BY <1>2, <1>3, <1>4 DEF Librarian!AskFails, Librarian!AskInvalid, Librarian!AskValid

LEMMA ExtractStep ==
    ASSUME LibrarianInv, NEW l \in Librarians, Librarian!Extract(l)
    PROVE  LibrarianInv'
<1>1. run[l] # Librarian!Idle /\ UNCHANGED <<Librarian!ledger, Librarian!txn, reports>>
  BY DEF Librarian!Extract, Librarian!Working, Librarian!At, Librarian!Idle
<1>2. \E x : Librarian!Goto(l, Librarian!Asking(run[l], x))
         \/ Librarian!Goto(l, Librarian!Took(run[l], x))
  BY DEF Librarian!Extract
<1> QED BY <1>1, <1>2, AtWork, GoingStep

LEMMA FileRefusedStep ==
    ASSUME LibrarianInv, NEW l \in Librarians, Librarian!FileRefused(l)
    PROVE  LibrarianInv'
<1>1. run[l] # Librarian!Idle /\ Librarian!Goto(l, Librarian!Failed(run[l]))
      /\ UNCHANGED <<Librarian!ledger, Librarian!txn, reports>>
  BY DEF Librarian!FileRefused, Librarian!MayFile, Librarian!At, Librarian!Idle
<1> QED BY <1>1, AtWork, GoingStep

\* The lock is taken, and only the artifact is moved.
LEMMA FileMoveStep ==
    ASSUME LibrarianInv, NEW l \in Librarians, Librarian!FileMove(l)
    PROVE  LibrarianInv'
<1> DEFINE j == [run[l] EXCEPT !.at = "filed"]
<1>1. /\ run[l] # Librarian!Idle /\ run[l].stage = "catch_up"
      /\ held \in {NoSession, l} /\ held' = l /\ Librarian!Goto(l, j)
      /\ UNCHANGED <<rows, texts, torn, advice, reports>>
  BY DEF Librarian!FileMove, Librarian!MayFile, Librarian!At, Librarian!Idle, Librarian!MayWrite,
         Librarian!ledger
<1>2. RunOK(j) /\ Owed(j) = {}
  BY <1>1, AtWork DEF RunOK, Owed
<1> HIDE DEF j
<1>3. torn # Librarian!Whole => Follow(torn.rows, torn.texts)'
  BY <1>1 DEF LibrarianInv, Typed, Follow, ClaimsOK
<1> QED BY <1>1, <1>2, <1>3, Gone, SameClaims, Writes, NobodyHolds

LEMMA FileCommitStep ==
    ASSUME LibrarianInv, NEW l \in Librarians, Librarian!FileCommit(l)
    PROVE  LibrarianInv'
<1> DEFINE s == run[l].item
           j == [run[l] EXCEPT !.at = "work", !.done = run[l].done \cup {s}]
<1>1. /\ run[l] # Librarian!Idle /\ run[l].stage = "catch_up"
      /\ held \in {NoSession, l} /\ Librarian!Goto(l, j) /\ Librarian!Filed(s) /\ UNCHANGED reports
  BY DEF Librarian!FileCommit, Librarian!MayFile, Librarian!At, Librarian!Idle, Librarian!MayWrite
<1>2. RunOK(j) /\ Owed(j) = {}
  BY <1>1, AtWork DEF RunOK, Owed
<1> HIDE DEF s, j
<1> QED BY <1>1, <1>2, Gone, Files

\* What is left of the filing is in the transaction the session keeps.
LEMMA MisfiledStep ==
    ASSUME LibrarianInv, NEW l \in Librarians, Librarian!Misfiled(l)
    PROVE  LibrarianInv'
<1>1. CASE Librarian!StageError(l)
  BY <1>1, StageErrors
<1>2. CASE /\ \E id \in Librarian!Free(run[l].item) : \E opened :
                 torn' = Librarian!Filing(run[l].item, id, opened)
           /\ held' = l /\ Librarian!Goto(l, Librarian!NextJob(run[l]))
           /\ UNCHANGED <<Librarian!ledger, advice, reports>>
  <2>1. held \in {NoSession, l} /\ UNCHANGED <<rows, texts>>
    BY <1>2 DEF Librarian!Misfiled, Librarian!MayWrite, Librarian!ledger
  <2>2. Follow(torn'.rows, torn'.texts)
    BY <1>2, FilingFollows
  <2>3. Follow(torn.rows, torn.texts)'
    BY <2>1, <2>2 DEF Follow, ClaimsOK
  <2> QED BY <1>2, <2>1, <2>3, NextJobs, Gone, SameClaims, Writes, NobodyHolds
<1> QED BY <1>1, <1>2 DEF Librarian!Misfiled

LEMMA FinishStep ==
    ASSUME LibrarianInv, NEW l \in Librarians, Librarian!Finish(l)
    PROVE  LibrarianInv'
<1>1. Librarian!Goto(l, Librarian!NextJob(run[l])) /\ UNCHANGED reports
  BY DEF Librarian!Finish
<1>2. CASE UNCHANGED <<Librarian!ledger, Librarian!txn>>
  BY <1>1, <1>2, NextJobs, Ends DEF Librarian!ledger
<1> DEFINE v == [Librarian!Committed EXCEPT !.rows = Librarian!Gated]
<1>3. CASE Librarian!MayWrite(l) /\ Librarian!Commit(l, v)
  <2>1. v.rows = Librarian!Gated /\ v.texts = texts
    BY DEF Librarian!Committed
  <2>2. /\ DOMAIN Librarian!Gated = DOMAIN rows
        /\ \A id \in DOMAIN rows :
              {"source", "text", "status"} \subseteq DOMAIN Librarian!Gated[id]
              /\ Librarian!Gated[id].text = rows[id].text
    BY DEF Librarian!Gated, LibrarianInv, Typed, ClaimsOK
  <2>3. Follow(v.rows, v.texts)
    BY <2>1, <2>2 DEF LibrarianInv, Typed, Follow, ClaimsOK
  <2> HIDE DEF v
  <2> QED BY <1>1, <1>3, <2>3, NextJobs, Commits DEF Librarian!MayWrite
<1> QED BY <1>2, <1>3 DEF Librarian!Finish

-----------------------------------------------------------------------------
(* triage *)

\* The recommendation and its count are one step of the session that holds the lock.
LEMMA RecordStep ==
    ASSUME LibrarianInv, NEW l \in Librarians, run[l] # Librarian!Idle, NEW id \in DOMAIN Reads(l),
           Librarian!Record(l, id)
    PROVE  LibrarianInv'
<1> DEFINE d0 == <<id, Reads(l)[id].text>>
           j == [run[l] EXCEPT !.at = "work", !.todo = run[l].todo \ {id},
                               !.done = run[l].done \cup {d0}]
<1>1. RunOK(j) /\ Owed(j) \subseteq Owed(run[l]) \cup {d0}
  BY AtWork DEF RunOK, Owed
<1>2. Librarian!Goto(l, j) /\ held' = l /\ written' = written \cup {id} /\ held \in {NoSession, l}
      /\ UNCHANGED <<rows, texts, torn, advice, reports>>
  BY ViewRead DEF Librarian!Record, Librarian!MayWrite, Librarian!ledger
<1> HIDE DEF j
<1>3. \A k \in Librarians : run'[k] = IF k = l THEN j ELSE run[k]
  BY <1>1, <1>2, Gone
<1>4. Typed'
  BY <1>1, <1>2, Gone, NobodyHolds DEF LibrarianInv, Typed, ClaimsOK, Follow
<1>5. Reported'
  BY <1>2 DEF LibrarianInv, Reported, Stored
<1>6. \A k \in Librarians : k # l => Owed(run'[k]) = {}
  BY <1>2, <1>3, NobodyCounts
<1>7. Reads(l)' = Reads(l) /\ Counts(l)' = Counts(l)
  BY <1>2, NobodyHolds DEF LibrarianInv, Typed, Reads, Counts
<1>8. ASSUME NEW d \in Owed(run'[l])
      PROVE  d[2] \in 1..Counts(l)' /\ Stored(Reads(l), d, written \cup advice)'
  <2>1. CASE d \in Owed(run[l])
    BY <1>2, <1>7, <2>1 DEF LibrarianInv, Counted, Stored
  <2>2. CASE d = d0
    <3>1. Reads(l)[id].text \in 1..Counts(l)
      BY ReadsFollow DEF Follow, ClaimsOK
    <3> QED BY <1>2, <1>7, <2>2, <3>1 DEF Stored
  <2> QED BY <1>1, <1>3, <2>1, <2>2
<1>9. Counted'
  BY <1>2, <1>6, <1>8 DEF Counted
<1> QED BY <1>4, <1>5, <1>9 DEF LibrarianInv

LEMMA TriageStep ==
    ASSUME LibrarianInv, NEW l \in Librarians, Librarian!Triage(l)
    PROVE  LibrarianInv'
<1>1. run[l] # Librarian!Idle
  BY DEF Librarian!Triage, Librarian!Working, Librarian!At, Librarian!Idle
<1>2. \/ Librarian!StageError(l)
      \/ \E id \in DOMAIN Reads(l) : Librarian!Record(l, id)
      \/ /\ \E x : Librarian!Goto(l, Librarian!Asking(run[l], x))
            \/ Librarian!Goto(l, Librarian!Took(run[l], x))
         /\ UNCHANGED <<Librarian!ledger, Librarian!txn, reports>>
  BY ViewRead DEF Librarian!Triage
<1> QED BY <1>1, <1>2, StageErrors, RecordStep, AtWork, GoingStep

LEMMA RecommendStep ==
    ASSUME LibrarianInv, NEW l \in Librarians, Librarian!Recommend(l)
    PROVE  LibrarianInv'
BY ViewRead, StageErrors, RecordStep DEF Librarian!Recommend, Librarian!At, Librarian!Idle

\* What is reported is committed, and with it the claims as the session reads them.
LEMMA TriageEndStep ==
    ASSUME LibrarianInv, NEW l \in Librarians, Librarian!TriageEnd(l)
    PROVE  LibrarianInv'
<1>1. /\ Librarian!Goto(l, Librarian!NextJob(run[l]))
      /\ run[l] # Librarian!Idle /\ run[l].stage = "triage" /\ reports' = reports \cup run[l].done
  BY DEF Librarian!TriageEnd, Librarian!At, Librarian!Idle
<1>2. Owed(run[l]) = run[l].done
  BY <1>1 DEF Owed
<1>3. CASE run[l].done = {}
  <2>1. (UNCHANGED Librarian!txn \/ Librarian!Rollback(l)) /\ UNCHANGED <<rows, texts>>
    BY <1>3 DEF Librarian!TriageEnd, Librarian!TriageCommit, Librarian!ledger
  <2> QED BY <1>1, <1>3, <2>1, NextJobs, Ends
<1>4. CASE run[l].done # {}
  <2>1. held = l /\ Librarian!Commit(l, Librarian!View(l))
    BY <1>2, <1>4 DEF Librarian!TriageEnd, Librarian!TriageCommit, LibrarianInv, Counted
  <2>2. /\ advice' = written \cup advice /\ torn' = Librarian!Whole
        /\ rows' = Reads(l) /\ texts' = Counts(l)
    BY <2>1, ViewRead DEF Librarian!Commit, Librarian!Released
  <2>3. Follow(rows', texts')
    BY <2>2, ReadsFollow
  <2>4. \A k \in Librarians : Owed(run'[k]) = {}
    BY <1>1, <2>1, NextJobs, Gone, NobodyCounts
  <2>5. Typed'
    BY <1>1, <2>2, <2>3, NextJobs, Gone DEF Typed, Follow
  <2>6. Reported'
    <3> SUFFICES ASSUME NEW r \in reports'
                 PROVE  r[2] \in 1..texts' /\ Stored(rows, r, advice)'
      BY DEF Reported
    <3>1. CASE r \in reports
      <4>1. r[2] \in 1..texts /\ Stored(rows, r, advice)
        BY <3>1 DEF LibrarianInv, Reported
      <4>2. texts \in Nat /\ texts' \in Nat /\ texts <= texts'
        BY <2>3 DEF LibrarianInv, Typed, Follow, ClaimsOK
      <4>3. ASSUME r[1] \in DOMAIN rows', rows'[r[1]].text = r[2]
            PROVE  r[1] \in advice'
        BY <2>2, <2>3, <4>1, <4>2, <4>3 DEF Stored, Follow
      <4> QED BY <4>1, <4>2, <4>3 DEF Stored
    <3>2. CASE r \in Owed(run[l])
      BY <2>2, <3>2 DEF LibrarianInv, Counted, Stored
    <3> QED BY <1>1, <1>2, <3>1, <3>2
  <2> QED BY <2>4, <2>5, <2>6 DEF LibrarianInv, Counted
<1> QED BY <1>3, <1>4

-----------------------------------------------------------------------------
(* adjudicate, the housekeeping, and what ends a session *)

LEMMA ProposedStep ==
    ASSUME LibrarianInv, NEW l \in Librarians, run[l] # Librarian!Idle,
           run[l].stage = "adjudicate", NEW k, Librarian!Proposed(l, k)
    PROVE  LibrarianInv'
<1> DEFINE j == [Librarian!Took(run[l], k) EXCEPT !.at = "work"]
           v == [Librarian!View(l) EXCEPT !.case[k].proposed = TRUE]
<1>1. RunOK(j) /\ Owed(j) = {}
  BY AtWork DEF RunOK, Owed, Librarian!Took
<1>2. Librarian!Goto(l, j) /\ held \in {NoSession, l} /\ Librarian!Commit(l, v) /\ UNCHANGED reports
  BY DEF Librarian!Proposed, Librarian!MayWrite
<1>3. v.rows = Reads(l) /\ v.texts = Counts(l)
  BY ViewRead
<1> HIDE DEF j, v
<1> QED BY <1>1, <1>2, <1>3, ReadsFollow, Commits

LEMMA AdjudicateStep ==
    ASSUME LibrarianInv, NEW l \in Librarians, Librarian!Adjudicate(l)
    PROVE  LibrarianInv'
<1>1. run[l] # Librarian!Idle /\ run[l].stage = "adjudicate"
  BY DEF Librarian!Adjudicate, Librarian!Working, Librarian!At, Librarian!Idle
<1>2. \/ Librarian!StageError(l)
      \/ \E k : Librarian!Proposed(l, k)
      \/ /\ \E x : Librarian!Goto(l, Librarian!Asking(run[l], x))
            \/ Librarian!Goto(l, Librarian!Took(run[l], x))
         /\ UNCHANGED <<Librarian!ledger, Librarian!txn, reports>>
  BY DEF Librarian!Adjudicate
<1> QED BY <1>1, <1>2, StageErrors, ProposedStep, AtWork, GoingStep

LEMMA IdleEnds == RunOK(Librarian!Idle) /\ Owed(Librarian!Idle) = {}
BY DEF RunOK, Owed

LEMMA ProposeStep ==
    ASSUME LibrarianInv, NEW l \in Librarians, Librarian!Propose(l)
    PROVE  LibrarianInv'
<1>1. run[l] # Librarian!Idle /\ run[l].stage = "adjudicate"
  BY DEF Librarian!Propose, Librarian!At, Librarian!Idle
<1>2. CASE Librarian!Goto(l, Librarian!Idle) /\ Librarian!Rollback(l)
         /\ UNCHANGED <<Librarian!ledger, reports>>
  BY <1>2, IdleEnds, Ends DEF Librarian!ledger
<1> QED BY <1>1, <1>2, ProposedStep DEF Librarian!Propose

LEMMA HousekeepStep ==
    ASSUME LibrarianInv, NEW l \in Librarians, Librarian!Housekeep(l)
    PROVE  LibrarianInv'
BY IdleEnds, ViewRead, ReadsFollow, Commits DEF Librarian!Housekeep, Librarian!MayWrite

LEMMA CrashStep ==
    ASSUME LibrarianInv, NEW l \in Librarians, Librarian!Crash(l)
    PROVE  LibrarianInv'
BY IdleEnds, Ends DEF Librarian!Crash, Librarian!ledger

LEMMA StepLibrarian ==
    ASSUME LibrarianInv, [Librarian!Next]_(Librarian!vars)
    PROVE  LibrarianInv'
<1>1. ASSUME NEW l \in Librarians, Librarian!Step(l)
      PROVE  LibrarianInv'
  BY <1>1, ReadWorkStep, AskSteps, ExtractStep, FileRefusedStep, FileMoveStep, FileCommitStep,
     MisfiledStep, FinishStep, TriageStep, RecommendStep, TriageEndStep, AdjudicateStep,
     ProposeStep, HousekeepStep, StageErrors
     DEF Librarian!Step, Librarian!AdjudicateEnd, Librarian!Locked
<1>2. CASE UNCHANGED Librarian!vars
  BY <1>2, Aside DEF Librarian!vars, Librarian!ledger
<1> QED BY <1>1, <1>2, PeopleStep, BeginStep, CrashStep DEF Librarian!Next

-----------------------------------------------------------------------------
(***************************************************************************)
(* The parts beside each other                                             *)
(***************************************************************************)
LEMMA TheLibrarian == BackgroundSpec => []LibrarianInv
<1>1. BackgroundInit => LibrarianInv
  BY InitLibrarian DEF BackgroundInit
<1>2. LibrarianInv /\ [BackgroundNext]_backgroundVars => LibrarianInv'
  <2> SUFFICES ASSUME LibrarianInv, [BackgroundNext]_backgroundVars PROVE LibrarianInv'
    OBVIOUS
  <2>1. [Librarian!Next]_(Librarian!vars)
    BY DEF BackgroundNext, backgroundVars, librarianVars, GatheringAlone, OrchestrationAlone,
           StorageAlone, Librarian!vars, Librarian!inputs, Librarian!ledger, Librarian!txn
  <2> QED BY <2>1, StepLibrarian
<1> QED BY <1>1, <1>2, PTL DEF BackgroundSpec

\* Whatever sessions and people do and wherever a session ends, what triage has reported
\* as triaged has its recommendation in the database, or the claim is gone
\* (triage.py:190-194).
THEOREM ReportsAreTrue == BackgroundSpec => []ReportedIsStored
<1>1. LibrarianInv => ReportedIsStored
  BY DEF LibrarianInv, Reported, Stored, ReportedIsStored, Librarian!ReportedIsStored
<1> QED BY <1>1, TheLibrarian, PTL

\* A step of the background is one of the orchestration or leaves it alone; so is it one of
\* the storage.
LEMMA OrchestrationRuns == BackgroundSpec => Orchestration!Spec
<1>1. BackgroundInit => Orchestration!Init
  BY DEF BackgroundInit
<1>2. [BackgroundNext]_backgroundVars => [Orchestration!Next]_(Orchestration!vars)
  BY DEF BackgroundNext, backgroundVars, orchestrationVars, GatheringAlone, LibrarianAlone,
         StorageAlone, Orchestration!vars
<1> QED BY <1>1, <1>2, PTL DEF BackgroundSpec, Orchestration!Spec

LEMMA StorageRuns == BackgroundSpec => Storage!Spec
<1>1. BackgroundInit => Storage!Init
  BY DEF BackgroundInit
<1>2. [BackgroundNext]_backgroundVars => [Storage!Next]_(Storage!vars)
  BY DEF BackgroundNext, backgroundVars, storageVars, GatheringAlone, LibrarianAlone,
         OrchestrationAlone, Storage!vars
<1> QED BY <1>1, <1>2, PTL DEF BackgroundSpec, Storage!Spec

\* Seeds and captures that race, fail and are repeated file a fact at most once per process
\* that can (registry.py, perfcapture.py), beside whatever else runs.
THEOREM FactsAreFiledOnce == BackgroundSpec => []FiledOncePerRacer
<1>1. Orchestration!OrchestrationAssumption
  BY BackgroundAssumption
<1>2. Orchestration!FiledOncePerRacer => FiledOncePerRacer
  BY DEF FiledOncePerRacer
<1> QED BY <1>1, <1>2, OrchestrationRuns, Orchestration!FactsAreFiledOnce, PTL

\* A delegation pins a model only if a human promoted the fact of its role, and is never
\* placed where the workload may not go (delegate.py:398-489), beside whatever else runs.
THEOREM PinsAndPlacesByRight == BackgroundSpec => []DelegatesWithinItsRights
<1>1. Orchestration!OrchestrationAssumption
  BY BackgroundAssumption
<1>2. Orchestration!DelegatesWithinItsRights => DelegatesWithinItsRights
  BY DEF DelegatesWithinItsRights
<1> QED BY <1>1, <1>2, OrchestrationRuns, Orchestration!PinsAndPlacesByRight, PTL

\* Whoever opens the database between two statements, or after a crash, finds all of a
\* migration or none of it (migrate.py), beside whatever else runs.
THEOREM NobodySeesHalf == BackgroundSpec => []NoHalfMigration
<1>1. Storage!StorageAssumption
  BY BackgroundAssumption
<1>2. Storage!NoHalfMigration => NoHalfMigration
  BY DEF NoHalfMigration
<1> QED BY <1>1, <1>2, StorageRuns, Storage!NobodySeesHalf, PTL

\* A restore has on disk what it replaces, if it keeps that, and what it restores, at each
\* of its steps (backup.py:109-178), beside whatever else runs.
THEOREM RestoreKeepsBoth == BackgroundSpec => []RestoreDestroysNothing
<1>1. Storage!StorageAssumption
  BY BackgroundAssumption
<1>2. Storage!RestoreDestroysNothing => RestoreDestroysNothing
  BY DEF RestoreDestroysNothing
<1> QED BY <1>1, <1>2, StorageRuns, Storage!RestoreKeepsBoth, PTL

\* What a backup puts at its destination is one state the database had while the backup
\* ran, as long as no other writes to the same destination meanwhile (backup.py:61-106),
\* beside whatever else runs.
THEOREM BackupsAreWhole == BackgroundSpec /\ []Storage!OneForEach => BackupIsCommitted
<1>1. Storage!StorageAssumption
  BY BackgroundAssumption
<1>2. Storage!BackupIsCommitted => BackupIsCommitted
  BY DEF BackupIsCommitted
<1> QED BY <1>1, <1>2, StorageRuns, Storage!BackupsAreWhole, PTL
=============================================================================
