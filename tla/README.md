# A verification project for the internal support agent

TLA+ models of the support agent in `src/`, the TLC configurations that check
them, and TLAPS proofs of what matters most. Everything is translated from the
Python source and the SQL in it; line numbers are in the `map` of
`PROJECT.json`.

## The system

An employee sends one message (`POST /chat`). A LangGraph graph classifies it,
lets a model call tools in a loop, checks the citations of the draft answer and
saves a Decision Record. Tools that would change something only add a row to
`pending_actions`; an approver decides on it later (`POST /approvals/{id}`),
and only that writes leave requests, tickets and leave balances. Handlers run in
threads of one process, and several processes may share the database; Postgres
is the only shared state between requests.

| Part | State it keeps | Operations | What makes it correct |
|---|---|---|---|
| Gated write tools (`tools/hr_it.py`) | rows of `pending_actions` | `submit_leave_request`, `create_ticket` | days are reserved once, nothing is proposed twice, an answer was true at one moment of the call |
| Approvals (`guardrails/approval.py`) | status of an action, `leave_balances`, `leave_requests`, `tickets`, audit events | `decide`, two lists | one decision, by the right person, all of it or nothing; no account is overbooked |
| Agent graph (`nodes.py`, `graph.py`, `state.py`) | the state of one request and its evidence | eight nodes and their routing | the tool limit, citations that were found, an outcome that fits the evidence, an end |
| Citation verifier (`guardrails/verifier.py`) | none | `verify_citations` | see the graph |
| Decision Records (`decision_record.py`) | `decision_records` | save, read one, list | one record explains all that a request did; reads of others' records are audited first |
| Orphan check (`reconciliation.py`) | `orphan_flagged` audit events | `flag_orphaned_actions` | each orphan is flagged, once; a request that still runs only after it outlasted the grace period |
| Model client (`llm.py`) | audit events and evidence of model calls | `LLMClient.create` | bounded tries, an honest fallback, evidence that is audited |
| Policy search (`tools/policy_search.py`) | reads `policy_chunks`, `seed_meta` | `search_policies`, `get_policy_version` | the evidence names what was searched |
| Seed (`data/generate.py`) | all seeded tables, the rendered script, an embedding cache | `load_seed_data` | all or nothing; safe to repeat; each chunk has the vector of its own text |
| Chunking (`chunking/structural.py`) | none | `chunk` | no word of a section is lost, ids are unique |
| Feedback (`feedback.py`) | `feedback` | `create_feedback` | only on one's own recorded request |
| Snapshots (`data/snapshot.py`, `prompts.py`) | checksum files | compare, rewrite | a changed text should have a changed version |
| Database access (`db.py`, `init.sql`), audit (`audit.py`), request context | pool, tables, context variable | `transaction`, `record`, `bind_request_context` | commit or rollback; who acts is bound once; threads never wait in a circle |
| API (`api.py`) | none of its own | a handler per path | what an answer says was saved is saved |
| User interface (`ui/app.py`) | the session: user, history, fetched records, a pending message | a rerun per event, HTTP calls with timeouts | a decision is on what was shown; what it says was saved was saved |
| Evaluation (`eval/run_eval.py`) | the results of a run | post, read the record and the log, compare | a scenario is judged by its own request; the header names what was measured |
| Costs, settings | none | sums, constants | |

What is hard here is not any single function. Threads and processes interleave
between SQL statements at READ COMMITTED; a check in one transaction is used in
another; a proposal and an approval use different locks; a request can die
between any two steps while its committed rows stay; the model can answer
anything, in any order, with several tools at once; timeouts, retries and a
fallback model add up to a time that another part depends on. Clients give a call
up while it runs on, a page is drawn from an old answer, a seed empties the
tables under all of them, and two files are emptied before they are written
again. `hazards` in
`PROJECT.json` lists these places line by line, with the properties that watch
them.

## Modules

| Module | Models | Uses |
|---|---|---|
| `LeavePayloads` | what a gated write asks for, and the arithmetic of days | |
| `ApprovalGate` | **abstract**: every proposal and decision is one atomic step | `LeavePayloads` |
| `WriteGate` | tools and approvals, one action per SQL statement that matters | `LeavePayloads`, implements `ApprovalGate` |
| `RequestLife` | **abstract**: a request adds rows and ends with a record that explains them, or is lost | |
| `AgentGraph` | one request through the graph, one action per node | implements `RequestLife` |
| `Reconciliation` | orphan checks, clocks, running and dying requests | |
| `ModelClient` | one `LLMClient.create` | |
| `PolicyIndex` | the searches of a request, statement by statement, beside loads of a new seed | |
| `RankFusion` | the fusion of the two rankings of a search, as operators | used by `PolicyIndex` |
| `Chunking` | how a policy is cut into chunks | |
| `ApiCalls` | the handlers of the API, statement by statement, for clients that may give up, and a seed | |
| `ReviewPage` | one browser session beside other clients | `ApiCalls` |
| `SeedFiles` | `load_seed_data` in several processes, its two files, and the author of a policy | |
| `RequestThreads` | tool calls as threads: pool, lock, audit log, evidence; seeds, restarts | |
| `EvalRun` | one run of the evaluation | `RequestThreads` |
| `MC...` | the values TLC needs for the constants | the module of that name |
| `..._proofs` | theorems and lemmas; `Seeding_proofs` those of `Chunking` and `SeedFiles` | the module of that name, `TLAPS` |

### WriteGate: tools and approvers against the database

Each call of a tool (`Calls`) and each decision (`Deciders`) is a thread with a
program counter. A transaction's reads are steps of their own and its writes
become visible in its commit step, which is what READ COMMITTED gives. A lock is
held from the statement that takes it to the end of its transaction, so who
holds a lock is read off the program counters (`HoldsRequester` is the advisory
lock, `HoldsAction` and `HoldsBalance` are the `FOR UPDATE` row locks). An abort
at any point stands for an exception as well as for a dead process.

`asks` and `decision` are chosen at the start: who asks for what, and who
decides what. `status`, `decidedBy`, `trail`, `written`, `approvedDays` and
`limit` are the columns. `limit` is `entitlement_days - taken_days`, which the
program never changes; `CorrectBalance` and `RemoveBalance` let somebody change
it outside the program, as the repository's tests do. The sum over waiting
requests is a cardinality of day tokens (`TotalDays`), which both TLC and the
provers can work with. The status `approved` is never visible to another
transaction and has no step. A collision of two employees in the 32-bit hash of
the advisory lock only makes one wait for the other and is left out; so is that
two overlapping, unequal leave ranges may both be proposed, which the code
allows.

What a call answers is part of what `ApprovalGate` promises: `Told` reads it off the
program counter from the statement that settles it on, and `ApprovalGate` lets a call
say "proposed" only with its own new row, "already sent" only while an equal row of
the same employee waits, and "not proposed" only for its arguments or for days that
the account lacks then, never because of a request that waits already. That is what
the locks give. It is less than what the tool's description says of "already sent":
the earlier request "is still waiting for approval" (`tools/hr_it.py:200`) when it is
looked up, and an approver, who takes no advisory lock, may decide on it before the
answer is committed and read.

### AgentGraph: one request

A step runs a node with its routing function. What the model answers
(`Replies`) and what the tools leave as evidence (`ItemsOf`) is chosen freely:
any subset of ids as citations, tools whose arguments do not fit and that leave
no evidence, several tools in one reply in any order. The evidence is kept as a
sequence of the items that decide something or prove something: tool results,
verdicts, retries, escalations. Evidence of model calls, classifications and the
tool limit's numbers is left out, the order of parallel tool results is
arbitrary, and the slices that each node cuts out of the request context
(`_evidence_since`) are appended to one sequence. `Earlier` are the employee's rows that
waited before: a gated write may answer with one of those ("already sent").
`Fail` is an exception in any node, or a dead process; in the tools node some
of the writes may have been committed by then.

### Reconciliation: the orphan check

Time passes in minutes. Each request waits for the model again and again; no
wait is longer than `CallTime`, and it makes at most `MaxCalls` waits after the
start. A checker's `now()` is taken when its transaction begins, before it may
have to wait for the advisory lock; its `SELECT` and its inserts are steps of
their own. Whether an action was approved meanwhile does not matter to the
`SELECT` and is left out.

### ModelClient: one call of the model

Every try may succeed, fail in a way worth a retry, or fail for good. Each item
is written to the audit log in a transaction of its own and then appended to
the evidence, so a crash can come between. Time is counted in base delays of
half a second; a try costs `Timeout`, so `spent` is the longest the
call can have taken. That is an assumption: the thirty seconds of `llm.py:38` are a
timeout of each phase of an HTTP call (connect, read, write, pool), and the
writes to the audit log are not counted.

### PolicyIndex and RankFusion: search beside a seed

A corpus is a function from chunk ids to policy versions; the sequence `corpora`
has every corpus that was loaded, the last one is in the database. The four
reads of a search and the read of the policy version at the end of the request
are steps of their own, since each is a transaction of its own. A seed commits
in one step, between any two of them. The index build id is a hash and the
policy version a text of the same set of policies and versions, and `BuildOf`
is that set. `since` and `until` in an evidence item are not in the code; they
let properties say which corpora were current during a search. What the two
rankings find is any two sequences of ids of the corpus that is current then;
`Fuse` of `RankFusion` is `fuse`, with exact fractions where Python has floats; the
stable order of a Python sort is the place of an id behind all that come before it
(`Before`, `Place`). `Fusions` is what `fuse` makes of every two rankings.

### Chunking: the windows of a section

A section is its number of words and the slug of its heading. A step is one
turn of the loop in `_windows`; the step that ends a section is also the one
that starts the next. The text before the first heading of a policy is in no section
and not modelled; `MCSeeding` runs the chunking beside `SeedFiles`, in behaviours of its
own.

### ApiCalls and ReviewPage: a page beside other clients

A call is a record in a slot: who calls, what about, and the statement that its
handler runs next. A handler answers only if its client still listens
(`heard`); a client that gives up leaves the call to run on. `Seed` empties every
table that refers to employees, as `TRUNCATE ... CASCADE` does, keeps the audit
log and, since it says nothing of the sequences, the next id.

Streamlit runs the page's script from the top on each event. `Run` is an event:
it posts the first call of the run and drops what was drawn. The script then
waits for one call at a time (`waits`), for at most its timeout (`ShowError`,
`GiveUpDecision`), and an event that comes while it waits ends it (`Interrupt`):
the answer is lost, the call runs on. What survives a run is what the code keeps
in `session_state`: the message, the history and the fetched records. The button
that was clicked carries the id of an action; `shown` in a row and `subject` and
`payload` in a call are not in the code and say what stood beside the button.

### SeedFiles: two files, one database, one author

A file is written by a step that empties it and a step that writes. A process
may die or raise between any two steps (`Die`), and another may have written to
the open file meanwhile (`fresh`), in which case its end may stay. The content of
a chunk stands for its hash and for its vector, so a cache entry is right when
it maps a content to itself. `alone`, `began`, `saved`, `resent`, `overlapped` and
`crashed` are not in the code; the properties need them. The author may edit the
text, bump the version, rewrite the two snapshot files at any time, as
`python -m data.snapshot` does without a look at what changed, and commit when the
tests pass. One policy stands for all; the checksums of the prompts follow the same
rules. The author's records are read by no seed; in `seed_files` they come after the
last one (`RecordsComeLast`).

### RequestThreads and EvalRun: threads of requests that outlive their client

The tool calls of a reply are threads. One that writes holds a connection of the
pool while it waits for the advisory lock of the employee, and saves its
event in its own transaction; one that reads gives its connection back and takes
another for its event. The runner posts one scenario after the other, and gives
a request up by its timeout while the threads go on beside the next scenario of
the same employee. `since` and `seeded` are not in the code and say whether a seed
was loaded during a scenario; `restarted` whether the API was.

## Runs

| Run | What it asks | Bounds, and why they are enough |
|---|---|---|
| `gate_writes` | do racing proposals, two decisions and a correction keep the account, the duplicates check, one decision by the right person, the audit trail and the refinement? | two calls and two deciders; ranges of one and two days on an account of two: a second call is refused for the days that the first reserves, or is its duplicate; one approver who is also an employee. More calls, and years, are covered by the proofs |
| `gate_liveness` | does everybody get an answer, and does what is booked fit when two approvals and a correction meet on one account? | two calls of one employee, for ranges of one and two days that fit together on an account of three, and two decisions: both may hold the row of their action and want the row of one balance; a correction down to two days lets only one of them through |
| `graph_request` | every course of one request | three tool calls allow a round of two and one more, a reply over the limit, and a retry; one known chunk, one unknown and one the pattern does not match; one new and one earlier row |
| `orphans_checks` | two checks, two requests, three rows | one request has two rows saved at different times; a grace period of one minute, which one answer of the model fits in and two do not; the clock runs long enough for both |
| `orphans_grace` | *violation*: is a running request never flagged? | the program's own numbers, see below |
| `client_create` | one call, every outcome of every try | the program's own numbers of tries and models |
| `index_searches` | does fusion keep what the rankings say, and what may the evidence and the record say of the index? | two parallel searches, two seeds: one before and one during a search; two corpora that differ in a version and in an id; rankings of up to three ids (`Candidates`), and `K = 2` is the smallest `k` for which agreement wins there |
| `index_traceable` | *violation*: does the build id name the index of the passages? | one search, one seed |
| `review_page` | does the page decide what it showed and say only what was saved? | three events: two looks at the queue and a click, or a question, a vote and a look; two calls underway, so that one can be given up; two proposals and a seed between them, so that an id could come back |
| `seed_files` | is every word of a section in a chunk? what do seeds beside each other, and failed ones, leave behind? | sections of 0 to 15 words with windows of five: one window, an exact fit, a short last one; two sections with one slug or two. Two processes and three runs: two overlap, or one follows a failed one; two edits, so that one can be undone, of a policy that moves a text to another heading and adds one |
| `seed_versions` | *violation*: does every committed change of a text have a new version? | one policy, one edit |
| `eval_run` | does a request that was given up spoil the next scenario? does every request end? | two scenarios; one write and one read each, so that four threads compete for a pool of two connections and one lock; one seed, one edit of the prompts |

Deadlock is not checked where a run's actors all come to an end.

**The findings.** `reconciliation.py:20` says that a request that still runs is
never flagged because only actions older than the grace period are looked at.
The code bounds no request's time. After its first write a request may ask the
model nine more times (eight tool calls, one retry), each call may take
2 models x 3 tries x 30 s plus 3 s of delays (`WaitIsBounded` of `ModelClient`,
if no try takes longer than 30 s; taken as `CallTime = 3` minutes), which makes 27
minutes against a default grace of ten. `orphans_grace` shows the flag on a running
request. What does hold for every grace period is `OnlyDeadOrSlowAreFlagged`: a
request that did not die is flagged only after it asked for more answers of the model
than fit in the grace period (more than three with the defaults). `orphans_checks` has
requests on both sides of that line.

`data/snapshot.py:5` says that "Editing a policy's text without bumping its
`policy_version` fails a test", and line 46 that an empty list of problems "means
every text change has a version bump". The list compares the text with
`checksums.json`, and the command that the message recommends writes that file
whatever the version is (`data/snapshot.py:108`). `seed_versions` shows the edit, the
command and the commit that passes the checks, with no bump. Where the author bumps
first, as the message asks, the claim is true; nothing but the author sees to it.

`docs/architecture.md:98` says that a search can be traced to its index by the
build id in its evidence. The build id is read after the passages, in another
statement, and a seed may commit between them (`index_traceable`). That the
record's policy version is only exact without a seed at that moment is one of
the known limits in `docs/architecture.md`. `index_searches` shows what does
hold: without a seed in between, both are exact, and passages of two corpora are
never mixed.

**Fairness.** `WriteGate`: each thread keeps taking its next enabled step, and
Postgres grants a lock that is free. Weak fairness per thread is enough because
a lock's holder never waits for a lock that its waiter holds. Aborts are not
fair. `AgentGraph`: LangGraph runs the next node as long as there is one.
`ModelClient`: the thread keeps running; a try ends by its timeout. `EvalRun`:
each thread of the API keeps taking its next enabled step, and a request whose
threads have ended is finalized or fails; the pool's timeout of thirty seconds,
errors, seeds and restarts are not fair, so `EveryRequestEnds` does not rest on any
of them. Weak fairness is enough because a thread that holds a connection waits
at most for the lock, and the lock's holder waits for nothing. The other modules
state safety only and assume no fairness.

## Proofs

| Theorem | For every ... | By |
|---|---|---|
| `GateInvariantHolds` and its consequences `ReservationHolds`, `OneOpenHolds`, `SeparationHolds`, `BookedMatchesHolds`, `AuditHolds` | set of employees, calls (finite), deciders, payloads, balances | induction |
| `BookingFitsHolds`, `DecisionsAreFinalHolds` (action properties) | same | from the invariant |
| `GateSpecHolds`: `WriteGate` implements `ApprovalGate`, its answers included | same | from the invariant, step by step |
| `GraphInvariantHolds` and `ToolLimitNeverPassed`, `StepsBoundHolds`, `CitationsHold`, `OutcomeTellsHolds` | tool limit, set of tool calls, chunks, actions | induction |
| `EscalationEndsWorkHolds`, `LifeSpecHolds`: `AgentGraph` implements `RequestLife` | same | from the invariant |
| `ReconciliationInvariantHolds` and `FlaggedOnceHolds`, `NoOrphanIsMissedHolds` | set of checks, requests and actions, grace period, length and number of waits | induction |
| `OnlyDeadOrSlowHolds` | same | from the invariant |
| `SeedInvariantHolds` and `UndisturbedSeedHolds`, `TextIsEmbeddedOnceHolds`, `CacheBreaksHolds` | set of processes, texts with their chunks, number of runs, edits and versions | induction |
| `EvalInvariantHolds` and `RecordCheckHolds`, `HeaderHolds` | number of scenarios, set of read and write tools, size of the pool, number of seeds and edits | induction |
| `ClientInvariantHolds` and `NoModelIsPassedOverHolds`, `EvidenceIsAuditedHolds`, `WaitIsBoundedHolds` | set of models, number of retries, timeout | induction |
| `FusionKeepsRanks` | pair of rankings of up to `K + 1` ids, `K` | arithmetic of fractions, counting |
| `IndexInvariantHolds` and `RanksAreRespectedHolds`, `PassagesOfOneCorpusHolds`, `UndisturbedSearchIsExactHolds`, `UndisturbedRecordIsExactHolds` | set of searches, set of corpora, number of seeds, `K`, `TopK` | induction |
| `PageInvariantHolds` and `DecidesWhatWasShownHolds`, `PageTellsTruthHolds`, `NoUnauditedViewHolds` | set of employees, slots for calls, payloads, number of proposals, requests, seeds and events | induction |
| `ChunkingInvariantHolds` and `NoWordIsLostHolds`, `WindowsOverlapHolds`, `IdsAreUniqueHolds`, `EachWindowAdvancesHolds` | window, overlap, number and length of sections | induction |

The gate's safety properties are not inductive. That days fit an account when
they are committed follows only from what the committing thread still knows
from its earlier reads: `CallsKnow` and `ProposedDaysFit` say what a call knows
under the advisory lock, `DecidersKnow` and `BookedDaysFit` what a decider
knows under its row locks, and `LocksExclude` that each lock has one holder.
The central step is that an approval moves days from waiting to booked and so
disturbs no proposal that is under way, although it takes no advisory lock;
the first part of `WriteGate_proofs` has the arithmetic of `TotalDays` for that.
For the refinement each step of a call also has to say no more than the rows show:
the look-up that finds a waiting request is the moment of "already sent"
(`FindingRefines`), the sum that leaves too few days the moment of "not proposed"
(`ReadingRefines`; the advisory lock is why no equal request waits then), and an abort
takes back only what nobody heard (`AbortRefines`).

The graph's invariant relates the lists in the state to the evidence
(`StateMatchesEvidence`), says what outcome each node may find
(`OutcomeFitsNode`, which is where the reset of the outcome before a retry is
needed) and that a verdict that passed is the last one (`VerdictIsLast`).
`StepsBounded` is proved with a measure, `Left`, that every node but the last
decreases; it makes termination a matter of fairness alone.

Chunking is proved by the loop invariant of `_windows`: the words before
`start` are in a chunk (`CoveredSoFar`), and the chunks of this section are
numbered below the next one and end `Overlap` words after its start
(`ChunksAreBehind`).

The orphan check is proved by what a check holds in its hands: the rows it has
found stay unflagged until it commits (`FoundIsOld`), and every old row without
a record is among them or flagged (`NothingOldLeft`); both need the exclusive
lock (`ChecksExclude`). A running request has only so much waiting left since
its first row (`RunningIsRecent`), so one with a row that is too old has used up
more answers than fit in the grace period (`OldAndRunningIsSlow`). That stays true, and
so does a death (`OutlastedForGood`), until the row is flagged (`FoundIsDeadOrSlow`).

The seeds are proved by what a process that is alone has in its hands and in the
files (`AloneHasThePolicy`), and by what a process that overlaps no other knows of
the cache: it has everything that was ever saved (`SavedIsCached`), and it is half
written only while somebody writes it or after a death (`HalfHasAReason`). Every
cache maps each content to its own vector (`Caches`), also one that two processes
wrote in turn.

The evaluation is proved by what each thread has added to the evidence and to the
log (`ThreadsCount`): once all threads of a request have ended, both count each
call once, which is what the record that `Finalize` saves shows
(`RecordsAreComplete`), and nothing changes an answered request's rows
(`AnswerIsRecorded`). Every name in a result is one that the API had loaded, and a
build of the run or an earlier one (`PromptsAreLoaded`, `NamesAreOfTheRun`).

The model client is proved by what each item that it records says of the model
that is tried (`ItemIsCurrent`) and of those before it: an error that ends a model is
in the evidence before the next model begins (`TriedInOrder`). Audit log and
evidence differ at most by that item (`WritesAgree`). `SpentFits` adds up the time of
the models that were used up and of the tries of this one; the delays of a model
double, so they sum up to a power of two, and that `2 ^ (n + 1)` is twice `2 ^ n`
comes from counting the subsets of `1..n`.

Fusion is proved without induction over the rankings. `Before` is a strict total
order of the ids, so each id has a place of its own, and as many places as ids means
that each place has its id: an injection between finite sets of one size is a
surjection. That agreement comes first needs the assumption that no ranking is
longer than `K + 1` (20 and 60 in the code): only then are two shares of the lowest
rank more than one of the first.

The searches are proved by what a search has in its hands: from its one read of
the rows on, they are of one corpus that was current since it began
(`FoundIsOfOneCorpus`); a build id is that of the last corpus (`ItemsFit`), and a policy
version is read after every search has ended (`VersionFits`). Seeds only append to
`corpora`, so none of this changes.

The page is proved by what is true of a call at any moment, whatever happens beside
it (`CallFits`): the row that it carries, or that its answer brings, is what the table
has under this id, if it still has the id at all (`RowFits`). That needs ids below
the sequence and a seed that leaves the sequence alone (`ActionsFit`), since a seed
may come while a page shows the old rows. An answer is true because it is given in
the step that commits, or after it (`AnswerFits`), the audit log only grows, and
the script waits for a call of the selected employee, whom only an event changes
that ends the waiting (`WaitFits`). A vote is noted for the
employee who asked because no two employees have a record of one request
(`RecordsFit`).

The assumptions are the ASSUMEs of the modules: approvers are employees, a leave
range that is not refused has at least one working day, the seed overdraws no
account, the overlap is smaller than the window, calls are finite in
number, `Corpus` and `Earlier` are subsets of what they are drawn from, a half
written file is neither a script nor a cache that loads, rankings have at most `K + 1`
ids, the chunks of one policy in one corpus have one version, HR partners are
approvers, no fallback is a model's name and what a client sees of a row is not
`Unseen`.

Only model-checked: liveness (`EveryCallAnswers`, `EveryDecisionAnswers`,
`Termination` of the graph and of the model client, `EveryRequestEnds`), because
fairness is out of the prover's reach. Every safety property that a passing run checks,
and each refinement, is a theorem. The bounds of the runs (events, seeds,
proposals, requests) are constants of the theorems, too, and hold for every value.

## Known limits that the models show or leave out

These are hazards that no property covers, most of them because the code does
not promise otherwise:

* A seed that dies while it writes the cache leaves a file on which every later
  seed raises, until someone deletes it; `CacheBreaksOnlyInACrash` says that nothing
  else does. Two seeds side by side may leave such a file, too, or drop entries.
* "Already sent" may be late: the request was waiting when it was looked up, and an
  approver may have decided on it when the answer is read (`tools/hr_it.py:253`).
* The role of an approver and the requester of an action are constants of the models;
  a role that changes between the check and the lock (`guardrails/approval.py:171`)
  is left out; only a seed changes one, and it empties the actions, too.
* A search that loses a chunk to a seed fails with a `KeyError`, and so does its
  request; a record names the policy version at its end. Both stay possible, the
  properties only say what is exact when no seed comes in between.
* Two headings of one policy with one slug get chunks with one id, and the seed fails
  on the primary key; `IdsAreUnique` is for slugs that differ.
* The vote of a call that timed out may be saved, and the form stays open: a second
  vote for the same reply is another row.
* The records tab keeps the index of a selected row, not its request id; that a
  new list does not keep the old selection is left to Streamlit's widget identity
  (`ui/app.py:496`).
* Sections of a policy that a page has fetched are cached for ten minutes
  (`ui/app.py:124`) and outlive a seed.
* Two threads may open the pool at the same time (`db.py:24`).
* Result files of two evaluation runs in one second have one name, and publishing
  checks for a file before it copies.

## Not modelled

The texts of answers, prompts and summaries; costs; the header that names the
employee, which the code trusts; settings; generating fictional employees; the
checks of the evaluation that only compare texts of one run, loading its
scenarios and publishing a result; the reads that nothing follows (own requests,
one policy section, one leave balance). That a seed also empties the tables of the
write gate is modelled in `ApiCalls` and left out of `WriteGate`, where it would
only remove rows. The numbers of the model client's clients (two answers of the
classifier and of the agent) are not composed with `AgentGraph`: there, a call of
the model is one step that may fail.

## Plan

1. Done: the write gate and its refinement, the agent graph, the orphan check,
   the model client, search beside a seed with rank fusion, chunking, the API and
   its page, the seed's files and the snapshots, the threads of requests and the
   evaluation; proofs of the write gate, the agent graph, the orphan check,
   chunking, the seed's files, the evaluation, the model client, the searches with
   rank fusion, and the page.
2. Proofs: that `CallTime` covers one call of the model, from `WaitIsBounded` to the
   time of a request.
3. Composition: several requests with `RequestLife` behaviour over the write gate and
   the orphan check.
