# A verification project for seo-optimizer

This directory holds TLA+ models of the program under `src/`, TLC
configurations that check them on small instances, and theorems about them
that the TLAPS proof system checks for every value of the constants.

The program audits web sites: an audit is submitted through an HTTP API or a
desktop application, queued, run by a worker process (crawl, probe, grade) and
its results are stored. The part whose correctness is hardest to see by reading
and hardest to reach with a test is the one that keeps work alive across
processes: the job queue (`packages/queue`), its durable table
(`packages/job-store`) and the scheduler that uses both. The project starts
there and goes on along the path of an audit: the crawl and what it leaves in
the database, the detectors, the grade, the sign-offs and the release.

## The system and its parts

| Part | State | Operations | Talks to |
| --- | --- | --- | --- |
| job queue, `packages/queue/src` | per process: `#byId`, `#queued`, `#starting`, `#active`, `#deciding`, `#busyLanes`, each entry's `storeChain`, the heartbeat and wake timers, `#paused`, `#closed` | `enqueue`, `cancel`, `pause`, `resume`, `recover`, `drain`, `close`; the pump, the heartbeat, the continuations of store calls, handlers and retry policies | the store; a handler and a retry policy (callbacks); listeners |
| job store, `packages/job-store/src` | the `jobs` table, shared by all processes of a namespace | `save`, `acquire`, `remove`, `load`, `adopt`, `renew`, `outstanding`, one transaction each | PostgreSQL |
| scheduler, `packages/scheduler/src` | one audit row per job, a deadline and progress | `submit`, `cancel`, `recover`, `reconcile`, the run of an audit, `#adopted`, `#decideRetry` | queue, database, crawler, grader, persistence |
| persistence, `packages/persistence/src` | pages, links and statuses of one crawl | the crawl sink (one transaction a page, then link resolution), the crawl source | database, blob store |
| crawler, `packages/crawler/src` | the frontier of one crawl: queues, seen set, budgets | `crawl`, sitemap loading, robots, redirects, rendering | network, sink |
| grader, `packages/grader/src` | check states, exceptions and attestations of an audit | `grade`, `recordGrade`, `recordAttestation` | database |
| scoring core, `packages/core/src` | none (pure) | readiness, cutover, review, parsers of supplied files | - |
| probes, `packages/probes/src` | none (pure) | 134 detectors over a crawl result and its inputs, the run of them all, the coverage matrix, the deploy guard, the snapshot for the next audit | core |
| corpus, db, storage | read-only data; table declarations; object store wrapper | load, connect, put and get | files, PostgreSQL, S3 |
| api, `apps/api/src` | a server and its start-up and shut-down order | start, recover, close; HTTP handlers | scheduler |
| desktop, `apps/desktop/src` | update phase, settings, database connection | check, download, hand over, relaunch | api in process, installer |
| dashboard, test kit, scripts | none that outlives a request | - | api, files |

Non-test code is about 35 000 lines, a third of it probes: domain rules without
interleaving.

### How they interact

A worker process is one JavaScript event loop. A handler runs to its next
`await` without interruption, so two handlers of one process interleave only at
awaits; processes interleave everywhere, and their queues meet only in the `jobs` table.
The queue has three modes, by how it is constructed:

- *memory*: no store. The API's own `main` uses this.
- *owned*: a store, no lease. One process owns every row of its namespace and
  takes them all back at start-up. The desktop application uses this.
- *leased*: a store and `leaseMs`. Several processes share a namespace; a row
  belongs to the worker that stamped it until its lease runs out, heartbeats
  renew it and adopt what others have abandoned, and a job's lane (its site) is
  asked of the store, because `#busyLanes` sees only one process.

The other meeting places are tables too. The `audits` row is written by the
process that submits, the one that runs, the one that recovers or adopts, and
the sweep of any that starts. `check_states` is written by grades and by people.
A crawl's tables are written by one process, which may die at any statement.

### What is hard

Store calls of one job are chained and run long after they were queued; their
answers arrive when the job may have been cancelled, lost or closed meanwhile. A
lease may lapse under a worker that is merely slow. A call may fail having been
executed. A process may die between any two steps. The retry policy is awaited
while the job is in no collection but a counter. The heartbeat, the wake-up and
the idle signal are each re-armed by hand on many paths. `PROJECT.json` lists
these hazards with the line where each bites and the properties that cover it.
Four are without one, each with the reason there: the updater's, which is not
modelled; a lease renewed late (`postgres.ts:444`) and the wait for a retry policy
(`queue.ts:976`), which are what the leased queue gives up and the exclusion and
work properties leave out; and a staging environment that does not answer
(`indexability.ts:583`), which the code passes.

### What makes each part correct

- *Queue and store*: no job runs twice at once, no two jobs of a lane run at
  once across processes, nothing acknowledged is lost by a crash, a settled job
  stays settled, slots and lanes are not leaked, what can start is started, every
  wait for idleness is answered, and a recorded job is eventually brought to an
  end by someone.
- *Scheduler*: what the queue settled a job as is what its audit's row says; an
  open row has an unfinished job, a running one a run; no sweep overwrites a
  verdict; a run that lost its lease begins no further word about the row (what it
  was writing when it was told, `complete` included, still lands).
- *Persistence*: a crawl marked complete has every page it counted, its bodies,
  and its links resolved; a page's parent is there before it.
- *Crawler*: every URL the crawl came to know is fetched once, kept out by
  robots.txt or reported as not reached, and the last only for a budget; a lane
  that runs dry gives its share to the other; fetches are paced, and a crawl that is
  called off begins no other and makes at most the rest of one chain of redirects;
  the crawl ends, whatever the site answers.
- *Grader and scoring*: a person's sign-off outlives the machine's verdict, but
  on an exception-proof gate that measurably fails; the readiness that is frozen
  is that of the rows that are stored; GO is vouched for gate by gate; a final
  GO is for the release it names.
- *Probes*: no pass rests on evidence that could not be read; a failure is not
  cleared by reading more; a record's age holds a pass and changes nothing else.
- *Updater*: the application never quits without the installer having the
  update, and never stays half-quit (not modelled).

## The modules

| Module | What it is |
| --- | --- |
| `LeaseStore` | the `jobs` table and the transactions on it, as operators from a table to a table (`job-store/src/postgres.ts`) |
| `JobQueue` | the queue of every worker process over that table: state, one action per handler step, fairness, properties (`queue/src/queue.ts`) |
| `JobLifecycle` | the abstract specification: what all the queues and the table promise together about a job |
| `JobQueueRefinement` | the refinement mapping from `JobQueue` to `JobLifecycle` |
| `JobQueueInv` | the inductive invariant of the leased mode, stated of one worker's memory and the table |
| `JobQueueTypes` | the proofs that every step keeps the type invariant, and that the helpers handlers are composed of keep `JobQueueInv`'s |
| `JobQueueSafety` | the proof that every action keeps it, and the theorems that follow |
| `JobQueueTidy` | the inductive invariant of one process's memory, in every mode |
| `JobQueueOutcomes` | the proof that helpers and actions keep it, and the theorems that follow |
| `JobQueueImplements` | the proofs that the queues implement `JobLifecycle`, and that an idle queue leaves nothing in the table |
| `AuditInv` | what a process's runs and decisions have to do with its queue, and what the rows of the audits table have to do with both |
| `AuditSafety` | the proofs about `AuditScheduler` that hold whatever fails, and what each step of a queue does to a job |
| `AuditRows` | the proof that the rows stay true, and the theorems that follow |
| `AuditScheduler` | `JobQueue` with the `audits` row of each job and what every process's scheduler is in the middle of (`scheduler.ts`, `run-audit.ts`, `api/src/start.ts`) |
| `CrawlWalk` | one crawl of one site up to its return or cancellation (`crawler/src/crawl.ts`, `fetch.ts`) |
| `CrawlSink` | `CrawlWalk` writing to the database and the blob store (`persistence/src`) |
| `CrawlInv` | where the walk keeps each URL, and what the database has of each page |
| `CrawlSafety` | the proofs about `CrawlSink` |
| `Scoring` | readiness, review histories and cutover as functions (`core/src`) |
| `Grading` | from observations to a verdict on each check (`grader/src/grade.ts`, `scope.ts`) |
| `ReleaseDesk` | the grades of an audit and the people who sign, edit the release and log reviews (`grader/src/record.ts`, `attestation.ts`, `release.ts`, `release-file.ts`) |
| `ReleaseDeskSafety` | the proofs of `ReleaseDesk`'s properties and the invariants they rest on |
| `Probing` | what a detector may say, and the judgements they share |
| `ProbesMarkedUp`, `ProbesContent`, `ProbesDelivery`, `ProbesIndexing`, `ProbesCommerce`, `ProbesMarkup`, `ProbesQa`, `ProbesSite`, `ProbesRecords` | the detectors, an operator each, by the file of `probes/src/probes` (`ProbesMarkedUp`: metadata, accessibility, media, video, news, paywall; `ProbesSite` and `ProbesRecords`: the two halves of `site.ts`) |
| `ProbeRun` | the registry, `runProbes`, the coverage matrix, the audit snapshot |
| `ProbeAudits` | audits of one site that differ in what they could read |
| `MCJobQueue`, `MCAudit`, `MCDesk`, `MCCrawl`, `MCProbes` (with `MCProbePages`, `MCProbeSites`) | constants for the model checker |

### How `JobQueue` corresponds to the code

`row` is the table. `mem[w]` is everything worker `w`'s queue object holds, a
record whose fields are the object's private fields:

| Field | Code |
| --- | --- |
| `ent[j]` | the `Entry` in `#byId` (`state = "absent"` when there is none): `state`, `attempt`, `cancelRequested`, `durability`; `backoff` is `notBefore !== null` and `waiting` is `dueAt > now` |
| `queue`, `ahead` | `#queued`, as a set and the order within it |
| `starting`, `active`, `deciding`, `busy` | `#starting`, `#active`, the jobs `#deciding` counts, `#busyLanes` |
| `chain[j]` | the job's `storeChain`: the calls queued, each with the snapshot `#stored` took when it was queued, the first with its answer once it has one |
| `loading`, `loaded` | `recover` awaiting `load`, and the rows it brought |
| `timer`, `beats` | `#heartbeatTimer`, and the `#beat` calls in flight with what they hold |
| `drain`, `close` | one caller of each, waiting or resolved |

Everything a handler does between two awaits is one action. The private methods
are operators from a memory to a memory (`Persist`, `Settle`, `Requeue`, `Lose`,
`Pump`, `RestoreAll`, `CheckIdle`, `ScheduleHeartbeat`), composed in the order
the methods call each other, so that an action reads like the handler it stands
for. `Pump` is the whole loop of `#pump`: `Taken` says which jobs the loop over
`#take` starts (by priority, then queue order, one per lane, while there are
slots), and `Start` starts them all.

A call to the store takes three steps: the handler appends it to the chain;
`StoreExecutes` is the transaction (or `StoreFails`, with the transaction done or
not); and `CreateSettles`, `WriteSettles` or `AcquireSettles` is the code after
the await. A heartbeat is five: `BeatStarts`, `RenewExecutes`, `Renewed`,
`AdoptExecutes`, `Adopted`, with `BeatFails`. A process is lost by `Crash`, which
keeps nothing but the table, and comes back by `Boot`, `LoadExecutes`,
`Recovered` and `Resume`, the order `AuditScheduler.recover` follows.

Time is a bit per row: `live` until the lease ages. A row nobody is there to
renew ages at any moment (`LeaseAges`). A row whose worker is up and knows of it
ages only by `LeaseLapses`, the environment being slow, and that worker is then
in `lapsed`: the code promises nothing about exclusion for a worker that let its
lease run out (it is told at its next beat), so the exclusion properties exempt
it until it restarts.

`load` and `adopt` select `for update skip locked`. `LoadBatches` and
`AdoptionBatches` are the sets of rows they may come back with: a load may miss rows
of others, and an adoption take fewer than there are, because a rival is claiming them
at that moment. `drain` and `close` look at idleness for their own caller only
(`Awaited`); other callers are told by the handlers that call `#checkIdle`.

### What the model leaves out of the code it covers

- Delays, clocks and retry arithmetic: only whether a wait is over. A backoff
  that was already over when a row was restored costs one extra `Wake` step.
- The order of rows by `enqueued_at`: an adoption batch and the age order of a
  restored batch are left open, which includes every order the column can give.
- Error texts, events, the bound on remembered history (500) and the lane that
  `#reviveLane` parses.
- Calls in flight when a process dies are lost or already executed. A statement
  the database executes after its client is gone is not modelled.
- A namespace starts with an empty table and its processes recovered from it.
  Recovery from a table with rows in it is reached by crashing.
- Two processes of one namespace that take over the same expired row at the very same
  instant: the one that finds it locked has, in the model, come before or after. So a
  load does not pass over an expired row of the worker's own that a rival is just
  claiming in a transaction that is then rolled back.
- Rows with a null owner: the queue always stamps one in the modes modelled.
- `MemoryJobStore` (`queue/src/store.ts:203-344`), the in-process store of the
  tests. Its `renew` differs from PostgreSQL's (it lets an expired row of
  another owner be renewed), and no program uses it.

### How `AuditScheduler` corresponds to the code

Every step of the queue is a step of `JobQueue`, taken by the action of the
handler that causes it: `SubmitEnqueues` is `Enqueue`, `RunThrew` is
`HandlerThrows`, `Restores` is `Recovered`. `audit[j]` is the row: its status and
whether its error column holds something. `duty[w]` is what the process's own
code is between two awaits of: `submit`, and the stage of a run (`starting` to
`returned` or `threw`, then the retry policy's `asked`, `reopening`, `reopened`),
the abort reason of its signal, the writes `cancel` and `#adopted` have under way,
the rows `recover` is putting back, and `reconcile`'s cutoff, live set and
orphans. Every update of the row is a step of its own and may fail before or
after its effect (`Breaks`).

A race the code leaves open is named, not hidden: a step that runs into it puts
the audit in `raced`, and the properties speak of the others. There are four ways
into it, and the run shows each is needed:

- A cancellation while `#decideRetry` is reopening the row (or has just done so):
  the queue calls the job running, so `cancel` leaves the row to a run that will
  not come, and it stays `pending`. `scheduler.ts:43` says every row eventually
  reaches a state that is true.
- `#adopted` resets the row without being awaited, so the reset may land after the
  adopted run has written `running` or its verdict. An adopted audit whose reset lands
  while its job is still queued, or its run has not begun, is not in `raced`.
- `recover` listens to clients: an audit cancelled between the load and the reset
  is put back to `pending`, and the sweep then fails it.
- `reconcile` asks for live jobs when an older audit's row is in and its job's
  first write is not: the audit is taken for an orphan and failed while it runs.

`close` leaves the rows of the jobs it cancels `pending` for the next process,
which is what its comment intends; the properties speak of processes that are up
and not closed.

A run looks at its signal between its awaits (`Begins`, `Attend`); told that its lease
is gone it stands down. It does not look between `recordGrade` and the write of
`complete`, so `RunGraded` goes on to that write whatever the signal says.

### How `CrawlWalk` and `CrawlSink` correspond to the code

A site is chosen once and answers the same URL alike all along: pages (HTML with
links and icons, something else, a redirect, no answer), sitemap documents, what
robots.txt disallows, and the options. `step` is the await the crawl is at. A
step begins one fetch, after the pause before it, and has what the code does with the
answer: `LoadRobots`, `ReadSitemap`, `Aside`, `Visit`, `Render`, then `StoreBodies`
and `WritePage` (the blobs, the transaction, and the links followed). `Fetch` is
`fetchPage`'s loop over redirects; `Enqueue` is `enqueue` on the two lanes and
the sets `queued`, `beyond` and `blocked`; `Takes` is `nextEntry`. `Abort` may come at
any moment and `Cancels` is where the code looks, before robots.txt too. `Resolve` and `CloseCrawl` are
`finish` and `fail`, with the error paths between them; `Dies` is the process.

A fetch is one request and one more for each redirect it follows. `hop` is the number of the one
that is out, 0 when there is none: `Requests` sends the first, `Redirected` the next,
at once and without a look at the signal, as `fetchPage`'s loop does, and `Answered`
ends the fetch; the walk's own steps wait for that (`Walks`), an abort and a death do
not (`Besides`). `late` counts the requests sent after the signal. Of a page the site says how long
the chain is; robots.txt, a sitemap document or an aside is redirected any number of
times up to `MaxRedirects` (the protocol handshake, which follows none, is taken
with them). Where robots.txt keeps nothing out it may also not have been asked for
(`respectRobots` off).

Links marked nofollow, canonical and hreflang URLs are not walked; they are edges of
the page (`EdgesOf`), and `External` asks about the nofollow ones as about the others.

`declared` keeps a URL as often as the sitemaps declare it, in the order read;
the code's set keeps the first, and `enqueue` does nothing with the others.

Left out: how bodies are parsed and cut, the concurrency of requests a page makes
while it renders, delays' lengths, and normalization (a URL is its normal form).

### How `Scoring`, `Grading` and `ReleaseDesk` correspond to the code

`Scoring` and `Grading` are functions of a state of every check, the release, the
log and an instant. What the code counts, the model keeps as the set counted.
`BasisOf` is the order of `gradeCheck`'s returns. `Reading` is `readReview`'s
order of precedence, `Cutover` the assessment.

In `ReleaseDesk`, `recordGrade` runs at read committed: `GradeReads` is the grade
and the select, `GradeWrites` the delete and the inserts (which lock the rows
written) with the first statement of `loadRelease`, `GradeCommits` the second and the
commit. The other writers make what they read and write visible in one step: `Attest`,
`ImportRelease`, `ImportRun`. `late` remembers which checks were attested since
the select, the race `record.ts:78-106` leaves open. `shown` remembers every READY
FOR CUTOVER, for `FinalWasReady`. A run logged after the grade's instant and
before its log is read counts as an input error, and the readiness is HOLD, which
is conservative.

### How the probe modules correspond to the code

A detector is an operator on a record of the facts its source tells apart. Most
are a `Ladder`: the code's early returns in their order. A field that is a set
holds the kinds of page, link, node or row the detector walks over. Each field is
named and commented where its meaning is not plain; the strings and limits that
decide it in the code are in the lines `map` names.

`ProbeAudits` is about what tests of single fixtures do not reach: how a verdict
moves when the same site is audited with more, or with less, of it read. A
behaviour starts from what an audit holds and each step reads one thing more,
misses one thing more, loses something read, or falls due for review.

Four lists name what a property does not hold of, with the reason:

- `SettledByWhatIsRead` (for `PassIsEarned`): one reading settles the question,
  whatever the rest would have said.
- `JudgeTheRest` (for `PassIsEarned`): the detector drops what it could not read.
  This is what the code does and may surprise: `batch-page-quality`,
  `author-date-signals` and `news-article-policy` drop truncated pages,
  `manual-a11y-evaluation` and `a11y-regression-sampling` failed runs of axe,
  `raw-rendered-crawl-diff` failed renders, `analytics-consent-matrix` and
  `live-analytics-smoke` a request list that was cut, `indexation-review` the
  reported pages the crawl did not reach (it passes with none compared), and
  `staging-protection` environments that did not answer.
- `Curable` (for `FailuresStick`): <<detector, field>> pairs where the failure is
  an absence or a share, so that one more element may be what was missing.
- `ReviewedOtherwise` (for `OverdueOnlyHolds`): `merchant-feed-parity` holds an
  overdue feed before it compares it, and `backlink-monitor` has nothing to review
  without a submission.

`MCProbes`' `ASSUME`s say of every small input that `runProbes` asks each detector
once of each page (or of the site) whatever throws, and gives the ones that judge
the others exactly the others' runs; that a deploy the guard blocks is not let
through by more runs; that implementing one more detector covers no check less;
and that a snapshot can be read by the audit that follows.

## The runs

| Run | Instance | What it shows |
| --- | --- | --- |
| `queue_leased` | 2 workers, 2 jobs of one lane, leased, one slot each, one attempt; one disturbance out of crash, lapse, store error, cancel | `LanesExcluded`, `SingleRunner`, `AcknowledgedIsStored`, `AttemptRecorded`, `HeldIsRenewed`, `Accounted`, `LostWritesNothing`, the inductive invariant `ClaimsHold`, and that the system never deadlocks (716 thousand states) |
| `queue_owned` | 1 worker, 2 jobs of one lane and different priorities, two slots, two attempts, owned; up to three of crash, error, cancel, pause, drain, close | `TypeOK`, `SlotsAccounted`, `WorkConserving`, `IdleIsReported`, `DrainedIsClean`, `TerminalIsFinal`, `CancelWins` (1.1 million states) |
| `queue_live` | `queue_leased`'s workers with one crash and no lapse, under `FairSpec` | `ImplementsLifecycle`: every behaviour is one of `JobLifecycle`, and every recorded job reaches its end although a worker may die and stay dead (210 thousand states) |
| `audit` | 1 audit, 2 leased workers, two attempts; a crash, a cancellation, a lapse, a close, a failed statement, one at a time or a crash with one of the others | `VerdictTold`, `OpenIsQueued`, `RunningIsRun`, `SweepSparesVerdicts`, `SupersededStops` (525 thousand states) |
| `desk` | 2 gates (one measured and exception-proof, one live and signed), 2 grades, 1 attestation, 2 review runs, 2 instants, 2 scopes | `AttestationSurvives`, `FrozenMatches`, `GoIsVouchedFor`, `FinalWasReady`, `ReopenedHolds`, `LogIsHistory` (715 thousand states) |
| `crawl` | every site of 3 pages and one elsewhere with the pages listed in `MCCrawl`, 3 sitemaps of which one is an index, 2 or 3 pages of budget, depth 0 or 1; an abort, in the middle of a chain of redirects too, and one failed statement or upload or a death, anywhere | `Accounted`, `SharesBudget`, `SitemapsShare`, `ParentWritten`, `WholeWhenComplete`, `MindsTheSite`, and `Ends` under fairness (540 thousand states) |
| `probes` | all 134 detectors, each from a sound audit with up to two facts changed, and up to three more things read, missed or fallen due | `PassIsEarned`, `FailuresStick`, `OverdueOnlyHolds`, and the four `ASSUME`s of `MCProbes` (248 thousand states) |
| `desk_lapsed` | `desk`'s | the finding below |
| `queue_lost_retry`, `queue_stranded`, `queue_close`, `queue_poison` | one job, the smallest instance that shows it | the findings below |

### Bounds and why they are enough

`Limit` bounds how often the environment does each kind of thing and `Budget`
how many it does in all; both are constants, and the proofs hold for every
value. Two jobs are enough to contend for a slot, a lane, a place in the queue
and an adoption batch; two workers for every cross-process race, because a
transaction involves one worker and the row's owner. One crash or lapse is
enough for a row to change hands with calls of its former owner still on their
way. `queue_leased` disturbs each behaviour once: two disturbances multiply the
states past what can be checked exhaustively. The theorems about the leased mode
have no such bound. `MaxAttempts` is 2 where a retry matters. `Beats` is the number of
`#beat` calls in flight; the code does not prevent two (see the hazard at
`queue.ts:712`).

`audit` has one job: the queue's runs have two, and what the scheduler adds is
per audit (the sweep's two reads are sets, but each audit is decided alone).
`MCTogether` bounds what the environment does in one behaviour. `desk` has two
gates because a readiness is a conjunction over gates of a few kinds: one is
measured, pre-cutover and exception-proof, the other live and a person's; and two
instants because every comparison of times is of a pair. `MCBounded` bounds how
much people write, `MCCalm` how much of it while a grade is running. `crawl`'s
sites have redirects, loops of them, cycles of links, pages off the site, pages
that are no HTML or do not answer (with `MaxRedirects` 1, chains within the limit and
beyond it), an index that names itself, a sitemap named
twice and one that is missing; budgets are small enough to run out on each.
`probes` takes at most three steps: where a detector compares elements of a set,
it compares two (pages, locales, rows), and the base holds one already. Every
outcome of every detector is reached.

`queue_owned`, `queue_close`, `audit` and `crawl` do not check deadlock: a closed
queue whose handlers have returned, and a crawl that has ended, really have
stopped. Nor do `desk` and `probes`, whose bounds run out.

### Fairness

`Fairness` says that each of a worker's continuations is taken in the long run
once it can be: the database answers, promises continue, handlers and policies
return, timers fire, a recovery that paused the queue resumes it. A JavaScript
event loop gives no less, and handlers are bounded by the scheduler's deadline.
A lease nobody renews ages (`WF(LeaseAges)`). Nothing is assumed of clients,
crashes, failures and restarts. The formulas are written with the explicit
conditions `CanRecover`, `CanProceed` and `CanBeat` in place of `ENABLED`, for
the model checker's sake.

`CrawlSpec` is weakly fair to `CrawlStep`, the crawl's own next step: a request,
a navigation and axe have time-outs, a pause has a timer, a statement answers or
fails. Opening a context and reading the page (`newContext`, `page.evaluate`,
`page.content`: `render.ts:258`, `304-313`) have no time-out of their own, and only an
abort ends one that hangs; so `Ends` takes it that the browser answers.
Nothing is assumed of the signal or of faults. `AuditSpec`, `DeskSpec` and
`AuditsSpec` state safety only.

## Findings

- `queue_lost_retry`. `#run` tests `leaseLost` before it asks the retry policy
  and not after: a lease found lost while the policy decides does not stop the
  retry, although `types.ts:110-112` says a lost job is not retried here.
- `queue_stranded`. A worker that lost a job, remembers it as failed and adopts
  it back claims the row and schedules nothing: `#restore` returns early for an
  id it still knows. Nobody runs the job until another worker finds the lease
  aged or this one restarts.
- `queue_close`. `close` does not see a job whose policy is deciding; when the
  policy then says to retry, the job is queued on a queue that will never run
  it, and `close` waits for ever.
- `queue_poison`. The limit on attempts is consulted only when a handler throws
  in a live process. A job that takes its process down is started again without
  limit, although `store.ts:33-37` says the limit counts a crash as an attempt.

- `desk_lapsed`. `effectiveState` takes back a lapsed attestation's status and
  coverage and leaves its applicability: a signature that took a gate out of
  scope keeps it out for good, and readiness may be GO, although
  `readiness.ts:74-76` says the check of a lapsed attestation goes back to
  needing one.

### Observed, and not made a run

- `run-audit.ts:54-58` says a run that lost its lease "says nothing at all about the
  row". Its last look at the signal is before it computes and records the grade: a
  lease found lost after it does not stop `recordGrade` nor the write of `complete`
  (`run-audit.ts:199-215`), which has no condition on the row and may land on an audit
  another worker is running. `SupersededStops` says what does hold.
- `crawl.ts:116-124` says the signal is "checked between requests", with the guarantee
  "no further requests", and `216-217` that every request waits out the delay.
  `fetchPage` follows redirects at once and is not given the crawl's signal
  (`fetch.ts:282-316`): a chain's requests have no pause between them, and a crawl
  called off in one still makes the rest, up to `maxRedirects` of them.
  `MindsTheSite` bounds them by just that.
- `staging-protection` counts an environment that did not answer as protected, although
  the comment at `indexability.ts:585` says no answer is not a refusal: a mistyped
  origin passes. `PassIsEarned` excepts it (`JudgeTheRest`).
- `crawl.ts:216-217` says the pause applies "between these and every other
  request"; `robots.txt` and the sitemap documents are requested without one.
- A disallowed URL seen only below the depth budget is neither reported as not
  reached nor as blocked (`Accounted` excepts it).
- A URL first queued at some depth keeps it when a shorter path is found later,
  so links below it may be held beyond the depth budget.
- A redirect may lead the fetch to a URL robots.txt disallows, or off the site.
- A statement of `CrawlSink.fail` that fails leaves the crawl's row `running` and
  replaces the cause of the failure; so does a process that dies.
- `instance.newContext` is outside the `try` of a render (`render.ts:258`).
- `url-inspection` and `indexation-review` pass with nothing compared,
  `digital-pr-tracking` fails a plan without an owner where the other detectors
  of records hold it, and some detectors hold an audit that has no date while most
  do not. Most page detectors do not look at whether the body was cut.
- An audit that is cancelled and then loses its lease still writes `cancelled`.
- A heartbeat whose renewal settles the last job the queue had makes it idle without
  telling `drain` or `close`: `#lose` does not call `#checkIdle`, and the pump that
  does comes after the adoption it goes on to ask for (`queue.ts:742-749`, `1087`).
  If that call hangs, so does the caller. The proof of `IdleIsReported` found it.
- A drained queue may leave a row in its own name behind once leases have lapsed under
  workers that were up: a write of the first owner, executed after the adopter finished
  the job and removed its row, inserts it again; adopted once more by a queue that has
  settled that job, it is skipped (`queue.ts:400`) and never removed. This is
  `queue_stranded` seen from `drain`. The proof of `DrainedIsClean` found it, and the
  property says so.

## Proofs

TLAPS checks every step. The constants' assumptions are the named `ASSUME`s of
`LeaseStore` and `JobQueue` (a slot count of at least one, a finite set of
jobs, `NoWorker` is no worker, and so on); nothing bounds the numbers of
workers, jobs, beats in flight, attempts or disturbances.

| Theorem | States | Assumes |
| --- | --- | --- |
| `TypeCorrect` (`JobQueueTypes`) | `Spec => []TypeOK` | - |
| `ClaimsAlwaysHold` (`JobQueueSafety`) | `Spec => []ClaimsHold` | `Mode = "leased"` |
| `OneCrawlerPerSite` | `Spec => []LanesExcluded` | `Mode = "leased"` |
| `JobRunsOnce` | `Spec => []SingleRunner` | `Mode = "leased"` |
| `NothingAcknowledgedIsLost` | `Spec => []AcknowledgedIsStored` | `Mode = "leased"` |
| `CrashUsesAnAttempt` | `Spec => []AttemptRecorded` | `Mode = "leased"` |
| `TidyAlways` (`JobQueueOutcomes`) | `Spec => []AllTidy` | - |
| `NoneForgotten` | `Spec => []Accounted` | - |
| `SlotsBalance` | `Spec => []SlotsAccounted` | - |
| `NothingWaitsForNothing` | `Spec => []WorkConserving` | - |
| `ClaimsAreRenewed` | `Spec => []HeldIsRenewed` | - |
| `IdleIsTold` | `Spec => []IdleIsReported` | - |
| `SettledForGood` | `Spec => TerminalIsFinal` | - |
| `CancelledForGood` | `Spec => CancelWins` | - |
| `LostIsLeftAlone` | `Spec => LostWritesNothing` | - |
| `NothingComesBack` (`JobQueueImplements`) | `Spec /\ [](lapsed = {}) => []Founded` | `Mode = "leased"` |
| `QueuesImplementLifecycle` | `Spec /\ [](lapsed = {}) => Lifecycle!Spec` | `Mode = "leased"` |
| `DrainLeavesNothing` | `Spec => []DrainedIsClean` | `Mode = "leased"` |
| `AuditTypeCorrect` (`AuditSafety`) | `AuditSpec => []AuditTypeOK` | - |
| `RunsAreAttended` | `AuditSpec => []Attended` | - |
| `SupersededStandsDown` | `AuditSpec => SupersededStops` | - |
| `ClaimsBeneath` | `AuditSpec => []ClaimsHold` | `Mode = "leased"` |
| `RowsStayTrue` (`AuditRows`) | `AuditSpec => []RowsTrue` | `Mode = "leased"` |
| `VerdictsAreTold` | `AuditSpec => []VerdictTold` | `Mode = "leased"` |
| `OpenRowsAreQueued` | `AuditSpec => []OpenIsQueued` | `Mode = "leased"` |
| `RunningRowsAreRun` | `AuditSpec => []RunningIsRun` | `Mode = "leased"` |
| `SweepsSpareVerdicts` | `AuditSpec => SweepSparesVerdicts` | `Mode = "leased"` |
| `DeskTypesCorrect` (`ReleaseDeskSafety`) | `DeskSpec => []DeskTypeOK` | - |
| `SignOffsSurvive` | `DeskSpec => AttestationSurvives` | - |
| `FrozenIsTheTable` | `DeskSpec => FrozenMatches` | - |
| `RunsAreAppended` | `DeskSpec => LogIsHistory` | - |
| `GoIsAnsweredFor` | `DeskSpec => []GoIsVouchedFor` | - |
| `FinalGoWasReady` | `DeskSpec => FinalWasReady` | - |
| `RegressionsHold` | `DeskSpec => ReopenedHolds` | - |
| `CrawlTypeCorrect` (`CrawlSafety`) | `CrawlSpec => []CrawlTypeOK` | - |
| `CrawlAccounts` | `CrawlSpec => []Accounted` | - |
| `ListsHaveTheirShare` | `CrawlSpec => []SharesBudget` | - |
| `SitemapsTakeTurns` | `CrawlSpec => []SitemapsShare` | - |
| `ParentsAreWritten` | `CrawlSpec => []ParentWritten` | - |
| `CompleteIsWhole` | `CrawlSpec => []WholeWhenComplete` | - |
| `SiteIsMinded` | `CrawlSpec => []MindsTheSite` | - |

The theorems about `ReleaseDesk` assume the named `ASSUME`s of `Scoring`,
`Grading` and `ReleaseDesk`: what kinds of thing the corpus's tables hold, and
that a signature's words are no engine verdict. Those about `CrawlSink` assume
the `ASSUME`s of `CrawlWalk`: there is at least one seed, and sites, options and
limits are of their kinds. They hold for every site of any number of URLs and
sitemaps, with links, redirects and children as it likes, and every budget.

`Mode = "leased"` is the mode in which processes share a namespace; in the other
two the queue does not claim exclusion across processes. What a queue promises
about its own process is proved in all three. `[](lapsed = {})` says that no
lease runs out under a worker that is up and knows of the claim; a worker that
is slower than its lease may find its job run by another, and then nothing of
`JobLifecycle` is left to promise. Crashes, restarts, adoptions, failed calls,
cancellations, pauses and closes are all allowed.

### The queues and the table: the inductive invariant

None of the four properties that are about several processes is inductive. That a lane is not run twice
follows from the check in `acquire`, but the check is made against the table at
one moment and the handler starts at another, after the answer has come back;
so the invariant must say what an answer under way stands for. `IInv` is `TypeOK`
and `ClaimsHold`, and `ClaimsHold` says, for every worker that has not let a
lease lapse and for each job (`JobInv`):

- `Placed`: the job is in the collection its state says, and a job that has not
  ended was never found lost.
- `Chained`: what may stand in its `storeChain`. A removal or an answer *lost*
  means the job has ended here; a create comes first and the job is pending
  while it is there; there is at most one acquire, it belongs to a job that is
  starting, and it is the last call of a job that has not ended. This is what
  makes it safe that calls execute long after they were queued.
- `Backed`: a claim the worker holds stands in the table under its name; a laned
  job that runs is there as running with its attempt; and so is one whose
  acquire has been answered yes and whose handler has not started yet.
- `Attempted`: an acquire under way carries the attempt its handler will be.
- `Pending`: what a renewal in flight asked for is held or has ended, what it
  came back to refuse has ended, and rows handed over by a load or an adoption
  that is not yet handled are this worker's.

Over pairs of workers, `LaneInv` says that no two are *granted* one lane, where
granted is running or having the yes of an acquire under way.

### The queues and the table: the argument

`JobQueueInv` states all this of a memory and a table instead of the variables,
so that `JobQueueTypes` can carry it through the helpers: each lemma there says
that from a memory that fits the table (`Good`) a helper makes one that does, and
grants no lane (`NoNewLanes`). `JobQueueSafety` composes them action by action. A
step that stays in one process's memory (`MemoryKeeps`) leaves everybody else's
invariant alone. A step that changes the table (`StepKeeps`, `RowStepKeeps`) has
to show that a row somebody holds on a standing lease is not written: that is
`Claimable`'s guard, used for `save`, `acquire`, `remove`, `load` and `adopt` in
turn (`ExecutedElsewhere`, `ClaimedElsewhere`). The only step that grants a lane
is an acquire answered yes, and there `LaneHeldElsewhere` being false meets
`GrantedRow`: whoever had been granted the lane has a live running row in it. A
crash, a restart and a lapse only shrink what has to be shown.

Two facts the proof rests on are worth knowing when the code is changed: the
answer *lost* to a save, remove or acquire can only reach a job that has ended,
for a worker whose leases stand (so `#lose` does nothing there that matters);
and a laned job that runs has an empty chain, so no later call can overwrite the
attempt its row records.

### One process: the inductive invariant

The properties of one process (`Accounted` to `LostWritesNothing`) rest on
`AllTidy` (`JobQueueTidy`), which says of every memory `m`, in every mode:

- `Sound`, job by job: a job is only in collections its state allows; an unknown
  job has no calls, flags or claims; a cancelled one is neither queued nor
  complete; a create is the first call and its job pending, and an acquire is of
  a job that is starting, and the only one.
- `Housed`: an unfinished job is in one of its collections.
- `Slotted`: the queue is a line, the lanes in use are those of the jobs starting
  or running, no two of them share one, and they fit in `Concurrency`.
- `Conserving`, `Renewing`, `Reported`: nothing startable is left waiting, the
  heartbeat is armed or in flight while a claim is held, and nobody waits on an
  idle queue unless an adoption is about to tell them.

No part of it reads the table, so no other process can disturb it, and it holds
whatever the store answers. What makes it hard is the middle of a handler: `Pull`,
`Settle`, `Requeue`, `Lose` and the release of a slot each leave a memory that is
not tidy. The proof carries `Fit(m, loose)` through them: `Sound` and `Slotted`
hold, and `Housed` of every job but those the handler has in hand. `Conserving`,
`Renewing` and `Reported` are not carried at all: every handler ends by `#pump`
or `#checkIdle`, and `PumpTidies` shows that `Pump` restores them from whatever
fits. That needs the loop itself: `FirstOfLine` and `TakenFills` say that while
there is a slot and an eligible job whose lane is free, the first such job in the
line is taken: the ranks of the jobs in a line of *n* are an injection into the
first *n* numbers, so somebody has rank 0, and what `#take` has taken is counted
against the slots.

The three action properties follow from `Kept`, a relation between the memory
before a handler and after it that each helper satisfies and that composes: a
settled job keeps its state, a cancelled one its flag, and a job whose lease was
lost gets no further call. A crash is the only step that breaks it.

### The queues implement `JobLifecycle`

The refinement maps a job's phase to what the table and the chains say of it: it
is `recorded` while its row is there, `submitted` while some process has its create
on the way. Runs are exclusive by the theorems above. What is left to show is that
no job goes back: that nothing writes the row of a job that is over. Calls execute
long after they were queued, and a `save` or an `acquire` on an absent row inserts
it, so this is a statement about what may still stand in the chains. `Founded` says
it: a removal is the last call of its chain, a save or an acquire is of a row
this worker holds as long as it waits (`Grounded`), and a create is by one process
and of a job the table has never had. `Calls` is what a handler may do to a chain,
composed through the helpers like `Kept`: it appends, never a create, a removal
only of a job that has ended, a save or an acquire only under a claim that is held
before or after. A claim that is held stands in the table (`Backed` again), which
is why a save never inserts. `StepFounds` turns this into the two facts each action
needs, that `Founded` holds after it and that every phase stays or advances
(`PhasesAdvance`), and `WorkerTurns` makes it a step of the abstract queue.

### What `drain` leaves behind

An idle queue has no row in its name. That is the longest argument here, because it
is about every way a row can come to a worker and every way a job can end, over the
whole history: rows come by `create`, by `load` and by `adopt`, and go by a `remove`
that may stand behind any number of other calls. `Possessed` says what holds all along
while no call fails and no lease lapses under a worker that is up (`RowsInHand`):

- a job a process knows has its row under that process's standing claim, or no row;
- a job that has ended, whose row stands or is being created, has a removal as the
  last call of its chain, not yet answered (`Closing`);
- a job not yet stored has its create at the head of its chain, and nobody else knows
  a job that is being created;
- a row in a worker's name is of a job it knows, or is on its way to it: in the answer
  of a load or an adoption not yet handled (`Coming`), or of a load not yet executed.

`Calls` carries two more facts through the helpers for it: `Expects`, that no row on its
way is dropped, and `Keeps`, that a job which ends while its row may stand gets its
removal. `MemoryPossesses` makes of them the step of any handler, and of the
heartbeat's and the load's statements; `StepPossesses` serves the steps that write a
job's row. When the queue is idle no chain has a removal in it, and by `Housed` no job
is unfinished: so no row is left (`InHandIsClean`). Crashes, adoptions, cancellations,
pauses and closes are all allowed. A failed call is not: a removal that fails is not
tried again.

`AllTidy`, `Founded` and `Possessed` were checked with TLC, on instances like those of
`queue_leased` and `queue_owned` with failed calls, crashes, cancellations and a
close among the disturbances, before they were proved.

### The scheduler above its queue

`AuditScheduler` adds to each step of `JobQueue` what the code above makes of it,
and steps of its own that leave the queue alone. `Beneath` says exactly that: seen
from the queue, every step of the scheduler is a step of `JobQueue`, a stutter, or
one failed write. So everything proved of the queue by induction holds under the
scheduler too (`QueueBeneath`, `ClaimsBeneath`), and none of it is proved again.

`Attended` (`AuditInv`) ties the two layers together: `runAudit` is between two of
its awaits exactly for the jobs in `#active`, `#decideRetry` exactly for the jobs
the policy is being asked about, a signal that says *cancel* is of a job the queue
was told to cancel, and a run whose lease is gone and that nobody cancelled has
been told so. It is not inductive by itself: that a run ends when its handler
returns, that no job is both run and decided about, and that a cancelled job is
never forgotten, come from `AllTidy` and `Kept`. `Undecided` says of each handler of
the queue that it decides about nothing new, which leaves two steps (a handler that
throws and a policy that answers) to look at closely; the rest are `Elsewhere`.
`SupersededStops` follows: when a lease is lost, the signal's reason is *lost*
before the run takes another step; no stage after it begins a grade, and `Catch` then
neither fails nor cancels the row.

### The rows of the audits table

A row is written by whoever submits the audit, by each of its runs, by a
cancellation, by a recovery or an adoption that puts it back, and by the sweep of
every process that starts. None of them reads what the others are about to write.
`VerdictTold`, `OpenIsQueued`, `RunningIsRun` and `SweepSparesVerdicts` say that
the last word is the right one all the same, and one invariant is behind the four:
`RowsTrue` (`AuditInv`), in parts that each say of a process and a job what is
still to be written and what is there already.

- `KnownOnce`, `SubmittedOnce`: one process at most has the job in its memory, and
  one is submitting it. `Submits`: the row is there before the job, it is not
  running yet, and the create that the submission waits for will not be refused.
- `Owes`: what a process has yet to close, reset or put back is of a job its queue
  knows, in the state that write is about.
- `Reports`: at each stage of a run or of a retry, what the row says so far.
  `Tells`: of a job that has ended, the row says so, unless that write is still owed.
- `Minded`: a row that says *running* and whose job is in the store has a process
  that runs it, is about to put it back, or has the job's row and will look.
- `Swept`, `SweepOwes`: where a process is between its boot and its sweep's end.
- `SweepsForsaken`: what a sweep has read and not found in the store, and what it is
  about to close, has no job and nobody submitting it (`Forsaken`). It stays so, as
  an id is submitted once: so a sweep that read long ago closes nothing that has
  come alive since. `Closable`: an open row nobody answers for is one that some
  process is about to close, or will sweep, if need be after it is restarted.

`RowsTrue` has the same premise as the properties, `Undisturbed`: no write to the
database or the store has failed, and no lease has run out under a worker that is up. A failed
write is logged by the code and not repeated; the row it leaves behind is the
next sweep's to close. An audit in `raced` was cancelled
too late for its run: of it the parts about verdicts say nothing. Crashes at
every step, restarts, adoptions, cancellations, pauses, retries and closes are all allowed.

The proof needs from the queue beneath all that is proved of it: `IInv`, `AllTidy`,
`Founded`, `Possessed`, and from above `AuditTypeOK` and `Attended`. Together they
are `Sane`; `AllSure` draws from them, once, what a step asks of one process and one
job. `AuditSafety` ends with what each step of a queue does to a job it is about and
that it leaves the others alone. `StillAt`, `QuietFollowed` and `QuietCleared`
then settle every job a step is not about, in whatever process; `TurnFollowed`,
`HeldCleared` and `ClosedCleared` the one it is about, which leaves to the lemma of
each action what the code of that action does. `RowsHoldOn` puts the actions together and
`RowsTrueOn` takes away the premises that are themselves invariants
(`BeneathInHand`, `QueueBeneath`). `FailedByWhom` says who can turn *complete* to
*failed* (a refused submission, a run, a sweep), and `RowsTrue` rules out the first
and the last.

The adoption is the step that shows why the parts are as they are. Between the
transaction that gives a row to a worker and the moment its queue takes the job up,
nobody runs it and nobody knows it, while the audit says *running*: `Minded` then
rests on the owner in the table, `KnownOnce` on nobody else's having kept it, and
the sweep of a third process on having found the job there. TLC checked `RowsTrue`
with crashes, restarts, cancellations and a close, on an instance like that of
`audit`, before it was proved.

### The release desk

Each of `ReleaseDesk`'s properties compares what a grade froze with rows other
transactions wrote before it, so each needs to know what a grade under way still
owes to what it read. Five invariants say it, each inductive beside `DeskTypeOK`:

- `SignedAreKept` and `MergeIsCurrent` (for `AttestationSurvives`, `FrozenMatches`):
  while a grade is at work, an attested row is honoured, or was attested since the
  select, or fails an exception-proof gate; and until somebody attests, the merge
  in memory is what the commit will leave.
- `LogInv` (for `LogIsHistory`, `ReopenedHolds`): unique ids, finitely many, each run
  in an environment its gate's class allows. Finiteness is what makes two latest
  runs *ambiguous*, so that a test of the very moment of a regression clears nothing.
- `VouchInv` (for `GoIsVouchedFor`): an attested row, in the table or in a merge,
  has the attestation it was written with; a row that is not honoured is the
  engine's verdict on that grade's own evidence.
- `BindingInv` (for `FinalWasReady`): an authorization that says *ready* copied a
  readiness that had been frozen by then, through every later edit of the record
  and in the copy a grade at work has read.

`LaunchGo`, `ReadyIsEvidenced`, `FinalIsEvidenced` and `CurrentReading` are what
`Scoring`'s functions give those invariants to work on.

### The crawl and its sink

The crawl is one process, but a long one whose parts run far from each other: a
URL that a sitemap declares is enqueued once, taken many pages later, written
after its renders, and named as a parent or as the end of an edge later still.
`CrawlInv` says what holds all along, each part inductive beside `Typed`:

- `TakesTurns`: there is a round *r* such that the lanes up to `laneTurn` have been
  served *r + 1* times and the rest *r*, if they have a document left, and no more
  than that if they have not. `NextLaneInTurn` and `InTurn` say that the lanes the
  code passes over on its way round are empty, which is what makes it so.
- `InOnePlace`: a URL in `queued` is in the walk's lane, in the lists', kept out by
  robots.txt, or fetched, and in one of them once. `EnqueuePlaces` and
  `VisitPlaces` move it from one to the next.
- `FollowedAll`: what is queued or beyond the depth is what seeds, sitemaps and the
  pages followed so far lead to, on this site; and what is within the depth is
  queued. `WalkedOut`: the walk ends with the budget or with the lanes. The two
  and `InOnePlace` are `Accounted`.
- `ListsShare`: in the lists' lane is what no seed had led to, and of the pages so
  far it has had half, to within the turn. That no link refills that lane is what
  keeps it so.
- `Lineage`: whatever waits in a lane was found on a page whose row and id are there,
  at most a step above; and a row is of a page. The id is what `ParentOf` looks up.
- `WrittenInOrder` and `Resolving`: every page but the one at work is written, its
  bodies first; an edge says resolved only of a written page; and from the last
  resolution to the row's *complete*, nothing is written that it did not see. A
  failed `finish` may leave *complete* behind and go on to `fail`, so the invariant
  goes on through the failing steps.
- `Paced`: the first fetch has not been made or at most one did not wait; before the
  signal no request is late, and while a fetch is out at most all but the first of its
  requests are. A fetch begins only while the signal is not set (`BeginsInTime`), so
  the late ones are of one fetch, and `FurtherType` bounds that (`PacedStep`). This is
  `MindsTheSite`.

`Enqueue` over a whole list is a recursive function, and the provers have no
induction over an operator. `EnqueueAllUnfolds` gets it from the library's recursion on the naturals
(`Recursion`), and `EnqueueAllHolds` is the induction, stated of sets of queues
instead of formulas: if every step from a queue in `Good[n - 1]` is in `Good[n]`, the
last is in `Good[L]`. `EnqueueAllGrows` is what the steps need of it. The redirects
of `Fetch` are done alike (`HopType`). TLC checked every part on the instance of `crawl`
before it was proved.

## What is only model-checked, and what is not modelled

Liveness (`ImplementsLifecycle`'s `Ends`, `CloseResolves`) is model-checked: the
prover does not reason about fairness, nor about `ENABLED`. `DrainedIsClean` is proved
where rows are leased; `queue_owned` checks it where they are not.

What `AuditScheduler` says of the database's rows is proved where the store's rows are
leased, the mode several processes can share; it rests on `IInv` and `Founded`, which are
of that mode. Of an owned namespace nothing is proved here: with `audit.cfg`'s limits, one
worker and `Mode = "owned"`, TLC finds all six properties of the run to hold there too.

The probes are only model-checked (`PassIsEarned`, `FailuresStick`,
`OverdueOnlyHolds`). The detectors keep no state: what the three properties say is said
of 134 functions one by one, over the audits `Case` lists for each. What counts as a
thing that could not be read is part of that list, so a theorem for every `Case` would
have to assume, for each detector, what the property says of it. TLC goes through the
cases instead.
`CrawlSink`'s `Ends` is liveness. How many links off the site are asked about is a sum over
a set of hosts, a fold whose value the provers cannot give; no proof depends on it.

Not modelled:

- The parsers of supplied inputs and of the release file, the corpus loader, HTML
  extraction, robots.txt and sitemap parsing: they keep no state, and what could
  be wrong with them is text.
- Storage and the database client: thin wrappers over a library.
- The dashboard, the test kit and the scripts: no state that outlives a call.
- The desktop's updater and connect sequence: a few guarded transitions between
  Electron's updater and an installer, neither of which is in the repository, so
  a model would mostly be of its environment.
- The HTTP handlers around `submit`, `cancel` and the attestations: validation
  and queries.
- In the scheduler, the mode without a store, in which nothing outlives the
  process, and `reconcile` fails every audit of an earlier one.
- `computeProgress` and `launchDecision`: counts and a comparison for display.

## Plan

What is worth adding next, in order:

1. Runs of `JobQueue` with two beats in flight (the hazard at `queue.ts:712`) and
   three jobs in two lanes.
2. `ReleaseDesk` with several audits of one release.
