----------------------------- MODULE Gathering ------------------------------
(***************************************************************************)
(* The research queue (queue.py), the budgeted search and fetch that serve *)
(* its questions and the bookmark sync (gather.py, fetch.py), and the      *)
(* linter's questions (lint.py), in several sessions on one database.      *)
(*                                                                         *)
(* A budget, a known URL, a hash or a queue row is read in autocommit and  *)
(* acted on after network calls of seconds.  A session that has written    *)
(* and not yet committed holds SQLite's write lock; who waits for it       *)
(* longer than busy_timeout is refused, and any session may die.           *)
(***************************************************************************)
EXTENDS Naturals, Sequences, FiniteSets, TLC

CONSTANTS
    Workers, NoWorker,
    Questions, LintQuestions,   \* asked by people; raised by the linter
    Urls, Bookmarks,            \* pages, and those that are bookmarked
    Page,                       \* [Urls -> [backend -> content]]
    Backend, Engine,            \* the configured fetch backend and search engine
    QueriesPerQuestion, FetchesPerQuestion, FetchesPerNight,
    MaxEntries, MaxAttempts, MaxEvents, Nights      \* bounds

ASSUME GatheringAssumption ==
    /\ IsFiniteSet(Workers) /\ NoWorker \notin Workers /\ Bookmarks \subseteq Urls
    /\ {QueriesPerQuestion, FetchesPerQuestion, FetchesPerNight} \subseteq Nat \ {0}
    /\ Backend \in {"jina", "trafilatura"} /\ Engine \in {"ddg", "searxng"}

VARIABLES
    queue,      \* research_queue: its rows in id order
    events,     \* gather_events: [n, night, kind, id], n the row's number
    sources,    \* rows: [url, content, origin, status]
    night,      \* today_local()
    lock,       \* the session that holds the write lock
    stubs,      \* the rows its open transaction has inserted
    job         \* what each session is doing

store == <<queue, events, sources>>
txn == <<lock, stubs>>
vars == <<store, night, txn, job>>

ParkAfter == 3
NoId == 0
Idle == [at |-> "idle"]

Init ==
    /\ queue = <<>> /\ events = {} /\ sources = {}
    /\ night = 1 /\ lock = NoWorker /\ stubs = {}
    /\ job = [w \in Workers |-> Idle]

Goto(w, step) == job' = [job EXCEPT ![w] = step]
At(w, step) == job[w].at = step
Free == lock = NoWorker

(***************************************************************************)
(* The queue                                                               *)
(***************************************************************************)
Entry(q) == [question |-> q, status |-> "open", attempts |-> 0]

Add(w, q) ==
    /\ At(w, "idle") /\ Free /\ Len(queue) < MaxEntries
    /\ queue' = Append(queue, Entry(q))
    /\ UNCHANGED <<events, sources, night, txn, job>>

Done(w, id) ==
    /\ At(w, "idle") /\ Free
    /\ queue' = [queue EXCEPT ![id].status = "done"]
    /\ UNCHANGED <<events, sources, night, txn, job>>

\* attempt reads the row, counts in Python, and writes both columns back.
AttemptRead(w, id) ==
    /\ At(w, "idle") /\ queue[id].attempts < MaxAttempts
    /\ Goto(w, [at |-> "attempt", id |-> id, row |-> queue[id]])
    /\ UNCHANGED <<store, night, txn>>

\* Mutant of Attempted: SET attempts = attempts + 1, the status from the row read.
AttemptedInSql(row, now) ==
    [now EXCEPT !.attempts = now.attempts + 1,
                !.status = IF row.attempts + 1 >= ParkAfter THEN "parked" ELSE row.status]

Attempted(row, now) ==
    LET n == row.attempts + 1
    IN  [now EXCEPT !.attempts = n,
                    !.status = IF n >= ParkAfter THEN "parked" ELSE row.status]

AttemptWrite(w) ==
    /\ At(w, "attempt") /\ Free
    /\ queue' = [queue EXCEPT ![job[w].id] = Attempted(job[w].row, queue[job[w].id])]
    /\ Goto(w, Idle)
    /\ UNCHANGED <<events, sources, night, txn>>

\* lint asks only what no open entry asks; the check and the insert are apart.
Asked(q) == \E id \in DOMAIN queue : queue[id].question = q /\ queue[id].status = "open"

Lint(w, q) ==
    /\ At(w, "idle") /\ ~ Asked(q)
    /\ Goto(w, [at |-> "lint", question |-> q])
    /\ UNCHANGED <<store, night, txn>>

LintQueue(w) ==
    /\ At(w, "lint") /\ Free /\ Len(queue) < MaxEntries
    /\ queue' = Append(queue, Entry(job[w].question))
    /\ Goto(w, Idle)
    /\ UNCHANGED <<events, sources, night, txn>>

(***************************************************************************)
(* Budgets: read in autocommit, recorded with the result                   *)
(***************************************************************************)
Tonight(kind, ids) == Cardinality({e \in events : e.night = night /\ e.kind = kind /\ e.id \in ids})

Recorded(kind, id) ==
    events \cup {[n |-> Cardinality(events) + 1, night |-> night, kind |-> kind, id |-> id]}

\* A search for no question is recorded and never refused.
QueryAllowed(id) == id = NoId \/ Tonight("query", {id}) < QueriesPerQuestion

\* Mutant of FetchAllowed: > where the code has >=.
FetchAllowedOneMore(id) ==
    /\ Tonight("fetch", DOMAIN queue) <= FetchesPerNight
    /\ Tonight("fetch", {id}) <= FetchesPerQuestion

FetchAllowed(id) ==
    /\ Tonight("fetch", DOMAIN queue) < FetchesPerNight
    /\ Tonight("fetch", {id}) < FetchesPerQuestion

(***************************************************************************)
(* Search                                                                  *)
(***************************************************************************)
\* The services an engine asks in turn: ddgs falls back to the HTML page.
Services == IF Engine = "searxng" THEN {"searxng"} ELSE {"ddgs", "scrape"}

Search(w, id) ==
    /\ At(w, "idle") /\ QueryAllowed(id) /\ Cardinality(events) < MaxEvents
    /\ \E up \in SUBSET {"searxng", "ddgs", "scrape"} :
        \* a search that raises is not charged
        IF up \cap Services = {} THEN UNCHANGED job
        ELSE Goto(w, [at |-> "answered", id |-> id])
    /\ UNCHANGED <<store, night, txn>>

Charge(w) ==
    /\ At(w, "answered") /\ Free
    /\ events' = Recorded("query", job[w].id)
    /\ Goto(w, Idle)
    /\ UNCHANGED <<queue, sources, night, txn>>

(***************************************************************************)
(* Fetch for a question, and the bookmark sync: a page is registered as a  *)
(* source (what becomes of its file is module Evidence's)                  *)
(***************************************************************************)
\* Only a fetch for a question honours the configured backend; the sync leaves it at "jina".
Chain(id) ==
    IF id # NoId /\ Backend = "trafilatura" THEN <<"trafilatura", "jina">>
    ELSE <<"jina", "trafilatura">>

\* fetch_url: the page as the first backend that works has it.
Fetched(url, id, up) ==
    Page[url][IF Chain(id)[1] \in up THEN Chain(id)[1] ELSE Chain(id)[2]]

Fetch(w, url, id) ==
    /\ At(w, "idle") /\ FetchAllowed(id)
    /\ Goto(w, [at |-> "get", url |-> url, id |-> id, todo |-> {}])
    /\ UNCHANGED <<store, night, txn>>

\* The known URLs are read once; a stub of a page that failed counts.
Sync(w) ==
    LET new == Bookmarks \ {s.url : s \in sources}
    IN  /\ At(w, "idle")
        /\ \E url \in new :
            Goto(w, [at |-> "get", url |-> url, id |-> NoId, todo |-> new \ {url}])
        /\ UNCHANGED <<store, night, txn>>

\* The fetch is over, the sync goes on with its next bookmark or its last commit.
Proceed(w) ==
    LET j == job[w]
    IN  \/ j.id # NoId /\ Goto(w, Idle)
        \/ j.id = NoId /\ j.todo = {} /\ Goto(w, [j EXCEPT !.at = "finalize"])
        \/ /\ j.id = NoId
           /\ \E url \in j.todo :
                Goto(w, [at |-> "get", url |-> url, id |-> NoId, todo |-> j.todo \ {url}])

Get(w) ==
    /\ At(w, "get")
    /\ \E up \in SUBSET {"jina", "trafilatura"} :
        IF up = {}
        THEN Goto(w, IF job[w].id = NoId THEN [job[w] EXCEPT !.at = "stub"] ELSE Idle)
        ELSE Goto(w, [at |-> "register", url |-> job[w].url, id |-> job[w].id, todo |-> job[w].todo,
                      content |-> Fetched(job[w].url, job[w].id, up)])
    /\ UNCHANGED <<store, night, txn>>

\* _register_failed, in the transaction the next commit of the sync ends.
StubRow(url) == [url |-> url, content |-> url, origin |-> "bookmark", status |-> "failed"]

Stub(w) ==
    LET row == StubRow(job[w].url)
    IN  /\ At(w, "stub")
        /\ IF row \in sources THEN UNCHANGED txn
           ELSE lock \in {NoWorker, w} /\ lock' = w /\ stubs' = stubs \cup {row}
        /\ Proceed(w)
        /\ UNCHANGED <<store, night>>

HashTaken(c) == \E s \in sources : s.content = c

\* An exact duplicate is refused.
Register(w) ==
    /\ At(w, "register")
    /\ IF HashTaken(job[w].content)
       THEN Proceed(w)
       ELSE Goto(w, [job[w] EXCEPT !.at = "insert"])
    /\ UNCHANGED <<store, night, txn>>

\* Mutant of Charged: the charge follows in a transaction of its own, which is lost.
ChargedLater(id) == events

Charged(id) == IF id = NoId THEN events ELSE Recorded("fetch", id)

\* The source, the fetch's charge and what the sync has written are one commit.
Insert(w) ==
    LET j == job[w]
    IN  /\ At(w, "insert") /\ lock \in {NoWorker, w} /\ ~ HashTaken(j.content)
        /\ sources' = sources \cup stubs \cup
             {[url |-> j.url, content |-> j.content, status |-> "new",
               origin |-> IF j.id = NoId THEN "bookmark" ELSE "autoresearch"]}
        /\ events' = Charged(j.id)
        /\ lock' = NoWorker /\ stubs' = {}
        /\ Proceed(w)
        /\ UNCHANGED <<queue, night>>

Finalize(w) ==
    /\ At(w, "finalize")
    /\ IF lock = w THEN sources' = sources \cup stubs /\ lock' = NoWorker /\ stubs' = {}
       ELSE UNCHANGED <<sources, txn>>
    /\ Goto(w, Idle)
    /\ UNCHANGED <<queue, events, night>>

\* The session ends with what it has not committed: it dies, waits too long for
\* the lock, or inserts a hash that was registered since it looked.
Abort(w) ==
    /\ job[w] # Idle
    /\ Goto(w, Idle)
    /\ IF lock = w THEN lock' = NoWorker /\ stubs' = {} ELSE UNCHANGED txn
    /\ UNCHANGED <<store, night>>

NewDay ==
    /\ night < Nights
    /\ night' = night + 1
    /\ UNCHANGED <<store, txn, job>>

QueueStep ==
    \E w \in Workers :
        \/ \E q \in Questions : Add(w, q)
        \/ \E q \in LintQuestions : Lint(w, q)
        \/ \E id \in DOMAIN queue : Done(w, id) \/ AttemptRead(w, id)
        \/ AttemptWrite(w) \/ LintQueue(w) \/ Abort(w)

GatherStep ==
    \/ \E w \in Workers :
        \/ \E q \in Questions : Add(w, q)
        \/ \E id \in DOMAIN queue \cup {NoId} : Search(w, id)
        \/ \E id \in DOMAIN queue, url \in Urls : Fetch(w, url, id)
        \/ Charge(w) \/ Sync(w) \/ Get(w) \/ Stub(w) \/ Register(w) \/ Insert(w)
        \/ Finalize(w) \/ Abort(w)
    \/ NewDay

Next == QueueStep \/ GatherStep

Spec == Init /\ [][Next]_vars
-----------------------------------------------------------------------------
\* Sessions that all looked before any recorded exceed a budget, by one each at
\* most: no night charges more fetches, in all or for a question, than that
\* (gather.py:58-62 and 149; one session alone stays within the budget).
Overrun == Cardinality(Workers) - 1
BudgetsHold ==
    \A n \in 1..Nights :
        LET charged(ids) == Cardinality({e \in events : e.night = n /\ e.kind = "fetch" /\ e.id \in ids})
        IN  /\ charged(DOMAIN queue) <= FetchesPerNight + Overrun
            /\ \A id \in DOMAIN queue : charged({id}) <= FetchesPerQuestion + Overrun

\* Every page fetched for a question was charged, and every charge bought a page:
\* whatever a session dies of, gather_events and sources agree (gather.py:139-150).
ChargesMatchSources ==
    Cardinality({e \in events : e.kind = "fetch"})
      = Cardinality({s \in sources : s.origin = "autoresearch"})

\* However attempts race with each other and with done, a question is open only
\* below the limit and parked only at it: status and count are one row's (queue.py:48-58).
ParkedAtTheLimit ==
    \A id \in DOMAIN queue :
        /\ queue[id].status = "open" => queue[id].attempts < ParkAfter
        /\ queue[id].status = "parked" => queue[id].attempts >= ParkAfter
=============================================================================
