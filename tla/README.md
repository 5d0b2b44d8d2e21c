# DevSignal: a TLA+ verification project

DevSignal collects job postings from public boards, moves each posting through a
staged pipeline kept in PostgreSQL, merges duplicates and serves the result. This
directory models the parts in which several processes act on shared rows, checks the
models with TLC and proves the central results with TLAPS.

## 1. Inventory of the system

| component | state | operations | interaction |
|---|---|---|---|
| pipeline queue (`internal/pipeline/queue.go`, `state.go`, `store/query/pipeline.sql`) | queue columns of `opportunity`: `pipeline_state`, `version`, `attempts`, `lease_until`, `next_attempt_at`, `state_entered_at`, `swept_at`, `merged_into` | Claim, Advance, Fail, Release, Sweep | single SQL statements, several processes at once, no coordinator |
| workers, sweeper (`internal/pipeline/worker.go`) | claimed items in memory, `inFlight` | Run, process, handleOne, releaseOutstanding, Sweeper.Run | goroutines per batch, shutdown by context, crash at any time |
| stage handlers (`internal/stages`) | none | normalize, dedupe, enrich | read the row, work, then a version-guarded write or a merge transaction |
| dedupe (`internal/dedupe`, `stages/dedupe.go`) | `block_key`, `merged_into`, `opportunity_source`, `opportunity_merge`, `merge_candidate` | Decide, merge, SweepBlocks | merges rows that workers may hold, under an advisory lock per block |
| ingestion (`internal/ingest`) | `source_schedule` (lease, cursor), source rows, liveness columns | tick/RunOnce, RunSource, upsert, BumpMisses, CloseMissed | puts rows back to `parsed` while workers hold them |
| source health (`ingest/health.go`, `internal/sourcehealth`) | daily counters, `consecutive_degraded`, source status | recordHealth, Compare, quarantine | takes a source out of the schedule |
| enrichment (`internal/enrich`) | extraction cache, skill rows | Extract, ApplySkills | paid external model; cache keyed by content |
| authentication (`internal/auth`) | sessions, refresh-token families, audit chain | Register, Login, Refresh, Logout | concurrent requests of one user |
| profile, erasure (`internal/profile`, `pkg/blob`) | profile rows, objects, erasure requests and steps | Upload, Erase | database and object store without a common transaction |
| feed (`internal/opportunity`) | none; the client keeps a cursor | List, Get | reads rows that all of the above write |
| ghost risk (`internal/ghostrisk`) | `repost_count`, `source_posted_at_at_last_change` | Assess | computed when read, from what polls recorded |
| normalization (`internal/normalize`) | pure | parse titles and places | - |

The hard behaviours are: statements of different processes in any order between two
statements of one handler; leases that run out while the holder is alive; replies lost
after a commit; crashes and shutdowns in the middle of a batch; late failures recorded
by id; a sweeper and an ingester that write the same rows; backlog larger than a batch.
`PROJECT.json` lists them as hazards, each at its line.

What makes each component correct:

* queue and workers: a late worker never overwrites newer work; a posting moves one
  stage at a time; nothing strands; the bookkeeping matches what goroutines do;
* dedupe: merges form a forest into canonical rows, source rows follow, duplicates meet;
* ingestion: a posting that was closed was absent from enough successful polls, a cursor
  vouches for what is stored, a failed upsert is made good by later polls, one source is
  polled by one runner at a time (section 3 says where the code does not keep these);
* source health: quarantine needs sustained degradation;
* enrichment: published skills belong to the published content, or none could be had in the
  attempts there are; a worker pays once for a content;
* authentication: a live session has a refresh token that is neither used nor revoked, wrong
  passwords are all counted, the audit log is one chain;
* erasure: complete means nothing is left;
* feed: a client that walks the list gets each row that stays exactly once;
* ghost risk: the reasons given are what was observed.

## 2. Modules

| module | models |
|---|---|
| `PipelineStates` | the states, the happy path, terminal and degradable states (`state.go`) |
| `Lifecycle` | the abstract promise: what may happen to one posting |
| `Pipeline` | the queue, the workers, the sweeper and the other writers of the same rows |
| `MCPipeline` | the deployments TLC checks (which worker serves which state) |
| `PipelineProofs` | type correctness, the inductive invariant, the safety theorems, the proof that `Pipeline` implements `Lifecycle` |
| `Ingest` | source polling: leases, conditional fetches, upserts, misses and closing, merges meanwhile |
| `MCIngest` | the boards and duplicates TLC checks |
| `IngestProofs` | type correctness, one runner per source, what a saved cursor vouches for, where source rows point, what a closing was earned by |
| `SourceHealth`, `MCSourceHealth` | daily counters, the verdict against the days before, quarantine |
| `SourceHealthProofs` | type correctness, what a degraded verdict needs, that rot is caught |
| `Decide` | the cascade that finds two postings the same (pure) |
| `Dedupe`, `MCDedupe` | workers and the block sweeper merging rows |
| `DedupeProofs` | merges form a forest and source rows stay canonical, from the block lock |
| `Enrich`, `MCEnrich` | the extraction cache, the skills of a row, workers whose leases ran out |
| `EnrichProofs` | its safety properties, for any rows, contents, models and workers |
| `Sessions` | accounts, token families, lockout and the audit chain under concurrent requests |
| `Erasure` | an erasure over tables and object storage beside the user's uploads |
| `AccountProofs` | of `Sessions`: the audit chain, the live session of a token, the lockout; of `Erasure`: what a deleted user, a completed request and a count of zero mean |
| `Feed` | keyset pagination while the rows change |
| `FeedProofs` | that no page repeats or skips a row |
| `GhostRisk` | the refresh count, the company's pace and the assessment |
| `GhostRiskProofs` | what is counted as a refresh, and that an ordinary opening is normal |

How they fit together. `Pipeline` implements `Lifecycle`. The other modules look at the
same row from another side and take the rest as an environment: `IngestUpdate` of
`Pipeline` is what `UpsertExisting` of `Ingest` does to the queue; a merge is an event in
`Pipeline` and `Ingest`, and a transaction with its decision in `Dedupe`, which `EXTENDS`
`Decide`; `RecordHealth` of `Ingest` may quarantine, and `SourceHealth` says when;
`HandleWrite` of an enricher in `Pipeline` is the whole of `Enrich`; `Feed` and `GhostRisk`
have one action for each statement of the others that changes what they read.

### Pipeline and the code

A row is a record with the queue's columns. Each SQL statement is an operator on a row
(`ClaimBatch`, `AdvanceState`, `FailAttempt`, ...) and one atomic step; the trigger that
restarts the stranding clock is part of every write (`Write`). The three guarded
statements (`AdvanceState`, `ApplyNormalization`, `AttachExtractionToOpportunity`) have
the same guard and the same effect on these columns and share an operator.

Time is abstracted to what the statements compare with `now()`: a lease is `none`,
`live` or `expired`, `due` says whether `next_attempt_at` has come, `aged` whether the
row has been in its state longer than `SweepAfter`, and `swept` is the order of
`swept_at`. `LeaseLapse`, `BackoffElapse` and `Age` may happen at any moment.

A worker holds items with the version and attempts it read, and the phase says where
`handleOne` is. `edition` is history: how many content changes the row had when it was claimed. A handler is modelled by its effect on the queue: pass-through stages
return nil; the normalizer and the enricher reach a guarded write, a conflict or an
error; the deduper reads a candidate, and merges in a second step that rechecks both
sides. Panics and failing statements are `HandleErr`. A write whose reply is lost is an
action of its own. `Cancel`, `Exit`, `Crash` and `Restart` are per worker, which
includes every behaviour of processes that hold several workers. Statements of a
draining worker may still succeed (they were under way) or fail (`SettleLost`).

Writers outside the queue: `IngestUpdate` (new content puts the row back to `parsed` and
leaves the lease alone) and `DedupeSweep` (merges a row whatever its state).

### Ingest and the code

`sched` is `source_schedule` (cursor, `next_run_at` and `lease_until` against `now()`),
`active` the source's status, `opp` the liveness columns and text of `opportunity`,
`link` the rows of `opportunity_source` with their content hash, and `poll` what a
runner or an operator has in memory: which source it is at, where in `execute`, and the
cursor, document and `seen` ids it carries. Opportunities are named by the posting that
created them, so a merge makes a row name another posting.

A board is a document, the version of each job's text or 0; a posting without an id or a
title, which `RunSource` skips, is as good as not listed. A page is the document with
its revision and stands for the ETag: a conditional GET is a 304 exactly when the board
is at the page of the cursor. Boards outside `Conditional` send no ETag. `ETagsRecur`
says whether a board that returns to an old document returns to its ETag.

A poll is one step per statement. An upsert's transaction takes two steps, the read of
the source row and everything that depends on it, because a merge may commit in between
and the transaction locks nothing by reading. `InsertRefused` is the two unique keys of
`opportunity_source`; the ATS pair is unique across sources, so `FindCanonicalByATS`
succeeds only where the insert after it must fail, and linking by ATS pair
(`ingest.go:210`) is never the outcome of an upsert. Failing statements are actions of
their own: in an upsert they skip the posting, in the liveness statements they abandon
the poll, in `SaveSourceCursor` they are only logged. `Crash` drops all polls of a
process, and stands for its shutdown too. `RecordHealth` judges a poll that fetched a
board; the verdict is abstracted to "may quarantine". `Merge` is the deduper's, as far as
source rows go. `unseen` is a history variable: how many fetches in a row did not list
a stored posting, against which closing is judged.

### SourceHealth and the code

`daily` is `source_health_daily`; the statements of `evaluateHealth` are separate steps, so
that another poll of the source (a runner's or an operator's) and midnight can come in
between. Rates are compared by cross-multiplication. `log` and `judged` are history: how often
each report was counted on each day, against which the verdict over the sums is judged, and
how many verdicts of a day came on that day. A poll's counts come from the finite set
`Reports`; no part of a report exceeds its postings.

### Decide, Dedupe and the code

`Decide` is the cascade over a title's tokens, the bits of a SimHash, and countries;
`Derived` and `Body` give what the normalizer and ingestion store for each text. `Dedupe`
has a `job` for each handler and sweep (what it read, and the pairs still to act on) and a
`tx` while its merge is open. `BeginMerge` is the advisory lock with the two checks under
it, `CommitMerge` moves the source rows and marks the row, `RollBackMerge` is the refused
`RecordMerge`. `Joined` is the LEFT JOIN with the source rows: a row that has absorbed another
is several lines of a block, and one that was merged away is a line without a source row.
A handler keeps the line it read first (`View`) and decides with it, however old it is by the
time the candidates are read. `Reword` changes the row that the posting's source row is at by
then; `said` is the hash of that source row. `moved` is history: the rows that a normalization
has taken to another block. `UndoMerge` is called by no code and has no action.

### Enrich and the code

One step per statement: claim, read, cache lookup, the model call, `PutExtraction`, the
delete of the skills, the commit of the new ones, the guarded attach. A skill is known by
the extraction it comes from. The transaction of `ApplySkills` deletes the rows it sees;
rows that another transaction inserted meanwhile stay. `Overlapping` names the rows whose
leases may run out under a handler; `Unreadable` is what an earlier release cached.
When a handler returns an error (`Err`, `Refuse`), `handleOne` answers it: with the attempts of
the claim spent, `Degrade` advances the row under the version guard, with whatever hash and
skills it has; otherwise `Fail` is `FailAttempt`, which parks by the attempts of the row. The
code records nothing that tells a degraded row from another, so `degraded` is history, and
so is `tries`, the claims of the present content. `ReleaseClaim` and backoff are `Pipeline`'s.

### Sessions and the code

A request reads, then opens a transaction whose rows (`UserRows`, `TokenRows`) others wait
for, then waits for the audit lock and commits all at once. The chain hash is the list it
is computed from, since SHA-256 is taken not to collide. Session `n` and token `n` are
issued together. `misses` is history for the lockout.

### Erasure and the code

One user. Every call is a step that may fail; recording a step's outcome may fail as well
and is only logged. An upload puts the file, creates the row, puts the text and sets its
key. Deleting by prefix lists, then deletes object by object. Tables refer to the user with
ON DELETE CASCADE, so no row is inserted once the user is gone. `late` and `after` are
history: uploads that were not over when an erasure listed or counted the objects.

### Feed and the code

`row` has the columns that the list's WHERE and ORDER BY look at; `reader` is a client with
its filter, size and cursor, and the history of what it was given. `ListOpportunities` is
the statement, `GivePage` the whole of `List` (clamp, decode, query, next cursor). The
cursor has nanoseconds and the column microseconds. `Insert` gives a row any time, since
`now()` is when the transaction began, which may be before the cursor of a client.

### GhostRisk and the code

`opp` has the columns of the assessment and `link` the source rows; `Poll` is `upsert` for a
posting that is new, unchanged or reworded. `CompanyMedianDaysToClose` is the percentile
with its conversion to an integer. `Reasons`, `Score` and `Band` are `Assess`;
`Medians` are the values its two callers pass: the list always 0, the detail the company's (or
0, for a failed query). `moved` is history: how often a source really moved its date.

## 3. Runs

Only the ingest runs check deadlock. In the others there is a state in which nothing is left
to do: all rows are settled, or all bounded events have happened.

| run | instance | shows |
|---|---|---|
| `pipeline_race` | 1 row of old or new content; normalizer, deduper, 2 enrichers, the last stage; 1 content change, 1 fault | `ItemCurrent`, `ParkedSpent`, the refinement, `AdvanceEarned`, `EveryRowMovesOn` |
| `pipeline_backlog` | 2 rows of one block, batch 1, one deduper, 1 fault | the refinement with merges from two sides; `SweepReachesAll` |
| `ingest_poll` | 1 board with ETags that do not recur, 2 jobs that may be merged, 2 runners, 2 board changes, 1 fault (fetch, statement or crash, no failing upsert) | `NoDoubleFiring`, `NotModifiedMeansStored`, `ClosedAfterMisses`, `EverySourcePolled` |
| `ingest_rough` | 1 board without ETags, 2 jobs that may be merged, 1 runner and 1 operator, 1 board change, 1 failed upsert | `LinksAreCanonical`, `EveryListingStored`, `UnlistedCloses` |
| `health` | 3 days, 4 polls of four kinds, 1 runner, 1 operator, 1 fault | type invariant, `RotIsCaught`, `DegradedNeedsABadPoll` |
| `dedupe` | 3 rows, 2 blocks, 3 texts, 1 worker, 1 sweeper, 1 event (rewording, closing, crash or failed statement) | `MergesAreAForest`, `ProvenanceIsCanonical`, `DuplicatesMeet` |
| `dedupe_sweep` | 3 rows of one block and text, 1 worker and 1 sweeper that poll for ever, the oldest row may be closed and reopened, 2 events | violated: `DedupeIsEventuallyConsistent` |
| `enrich` | 2 rows, one with leases that run out, 2 contents, 2 workers, 1 answer, an unreadable cache row, 2 attempts, 2 events | `NoWorkerPaysTwice`, `AttachedIsCurrent`, `SkillsFollowContent` |
| `sessions` | 1 account, 2 requests at a time, 6 events, threshold 2 | type invariant, `AuditVerifies`, `LiveSessionIsCurrent`, `LockoutCounts`, `RequestsEnd` |
| `erasure` | 1 upload, 2 erasures, a profile update, 2 faults | type invariant, `GoneStaysGone`, `NothingStranded`, `CompleteMeansErased`, `VerifiedMeansErased` |
| `feed_pages` | 3 rows, 2 times, 1 client, pages of 1 (default) and 2 (clamped from 3), 2 changes | `NoRowTwice`, `NoRowSkipped`, `WalksEnd` |
| `ghost_risk` | 2 postings of a company, 5 days, 5 polls, 2 refreshes, rewordings or merges | type invariant, `NeverRefreshedNeverCounted`, `OrdinaryIsNormal` |

The type invariants of `Pipeline`, `Ingest`, `Dedupe`, `Enrich` and `Feed`, and `ReadyClean`,
`TrackedIsHeld` and `CacheIsPermanent`, are proved for every instance (section 4) and are
not checked a second time by a run.

Bounds. `MaxAttempts` is 2: the first attempt fails and backs off, the second is the
last, which is every case of the count. Two workers of one stage are enough for a stolen
lease and a late settlement; a third repeats the second. One fault per behaviour
(crash, shutdown, lost reply or failed statement) may hit at any step. One content
change brings a row back to a state where an old item waits for it. Two rows with batch
size one make a backlog larger than the batch and the smallest block with a duplicate.
In `Ingest`, two runners are the smallest number that can fire twice; two jobs and two
texts let one posting be reworded or dropped while the other stays, and be the smallest
merge; `MaxMisses` is the code's 2; two board changes let a posting go and return.
In `Dedupe`, three rows are the smallest chain of merges and the smallest cycle that two
actors could close behind each other's back; two blocks let a row move from one to the other
while merges of both are open, and compete for a sweep of one block. One event is a single
rewording, after which a source row can be left on a row that moved; a cycle through such rows
needs two, and the proofs say that it needs such a row, whatever the bound. In `Enrich`, two
workers miss the cache together and overlap on a row; two events are the two failures after which
a row is published without its extraction, or a rewording and a failure. Its instance has no
stub and one answer, since stubs keep what they have and a second answer changes nothing but
which skills a content gets; the theorems have any.
In `SourceHealth`, thresholds are those of the code in percent, with smaller samples and
two degraded evaluations instead of three; three days are a baseline, a day
and the one after. In `Sessions`, six events are a registration, a login, two refreshes of
one token, a replay and an expiry. In `Erasure`, two faults let a step and its recording
fail, and two erasures overlap or follow each other. In `Feed`, three rows with two times
have ties, a full page that is the last, and a page after it; two changes are a row that
leaves and returns. In `GhostRisk` the day thresholds are scaled down and keep their order;
four days reach the highest of them, and five polls its refresh count.

Fairness. Weak fairness on claiming, starting, handling and settling (goroutines run and
the poll loop repeats), on the sweeper's two statements (a ticker), on the passing of
time, and on the end and the restart of a stopped process (a deployment brings workers
back). No fairness on faults, content changes, shutdowns or merges. The handlers return:
the extraction provider has a timeout, and statements run under a context.
In `Ingest`: weak fairness on the steps of a poll that has begun (the HTTP client has
timeouts) and on the clock (a source falls due, a lease runs out); strong fairness, source
by source, on being claimed by some runner's tick, because `ClaimDueSources` takes the
longest-waiting sources first, so a due source is not passed over for ever. None on
faults, board changes, merges, manual polls or `addSource`.
In `Dedupe`: weak fairness on the end of a merge and on the sweeper (a ticker); none on
taking up a row, so that `DuplicatesMeet` rests on the sweep alone. The violated run has all that
`runWorkers` provides (`Polling`): rows are normalized, strong fairness row by row on being
claimed, as `ClaimBatch` takes the longest-waiting row first, and strong fairness on the steps of
a worker, which waits for the block lock in a queue. In `Sessions`: weak
fairness on each request, which the database's lock queue justifies: a lock that is free is
granted in the order of waiting. In `Feed`: weak fairness on the next page, an assumption on
the client, who wants to see the end of the list.

What the violated run shows. `dedupe_sweep`: after one merge the canonical row has two source
rows and is two lines of its block. The sweep compares them, tries to merge the row into
itself, is refused by `opp_merge_not_self`, and gives up on the block before it reaches any
other pair, in every sweep. Handlers often make up for that, as each new row is compared with
its block; they do not if the third duplicate is handled while the canonical row is closed (not
listed for `MaxMisses` polls) and therefore no candidate. Row 2 is merged into row 1, row 1 is
closed, row 3 is handled and finds nobody, row 1 is listed again and reopens: rows 1 and 3 stay
duplicates, although workers and sweeper go on for ever.

What modelling showed besides, and where a property makes room for it:

* `handleOne` degrades by the attempts of the item, `FailAttempt` parks by the attempts of the
  row. Worker 1 claims (attempt 1) and its lease lapses; worker 2 claims (attempt 2); worker
  1's failure then parks a row of a degradable stage, which the comments at `worker.go:135`
  and `state.go:61` rule out.
* The verdict on a source is over the sums of the day: one poll whose postings could not be
  stored keeps the sums below the baseline for the good polls after it, and the third degraded
  evaluation quarantines the source.
* A refresh is told by a date later than that of the last change of content, which a refresh
  leaves as it is: each further poll that fetches the board counts the same refresh again,
  though `ghostrisk.go:32` calls the count the number of refreshes.
* Without a median `Assess` judges by absolute age. An opening of a slow company is flagged in
  the list and not in its detail; at a fast company it is the other way round. So neither
  reading of "conservative" (`opportunity/service.go:179`) holds, nor does "age contributes
  nothing" (`ghostrisk.go:39`).
* A clean shutdown releases nothing: every id is untracked before `releaseOutstanding` runs
  (`TrackedWhileStarted` is the reason), so rows of a cancelled batch wait out their lease.
* `RequeueStranded` clears leases by id after a separate select; a claim between the two
  loses its lease and the row is worked twice. The version guard keeps the result right.
* On a board with ETags a posting that disappears gets one counted miss; the later polls
  are 304s and count none, so it stays open until the board changes again. `UnlistedCloses`
  is checked on a board without ETags.
* A failed upsert is logged and the poll goes on; its next ETag is saved all the same
  (`ingest.go:122`, `:155`), and on a board with ETags the 304s that follow hide the posting until
  the board changes. `EveryListingStored` is checked on a board without ETags, where the next
  poll stores what failed; its mutant gives that board an ETag and has this behaviour as its
  counterexample. A manual poll with an older page may also put an older text back until the
  board is fetched again.
* Two boards of one ATS cannot both store a posting: the link that `FindCanonicalByATS` leads to
  is refused by the unique index, and the posting is skipped in every poll of the second.
* Two refreshes of one token that overlap both read it unused and both rotate it: the family
  has two live sessions. `LiveSessionIsCurrent` says only that each has a current token.
* `RunOnce` takes no lease but clears the one a runner holds when it ends (`NoDoubleFiring`
  is checked without operators). A posting whose upsert fails counts as missed
  (`ClosedAfterMisses` is checked without failing upserts).
* A server whose ETags are digests of the body, with a crash before the cursor is saved and a
  board that reverts, hides a stale text behind 304s. A merge between the two halves of an
  upsert leaves the new text on the row that was merged away. A posting merged from two
  boards is missed by the one and seen by the other, and the order of their polls decides.
* A storage error counts as an unusable posting in the health of the source.
* Two workers that miss the cache together both pay; the loser's skills come from its own
  answer and not from the cached one, though both are of the same content. A stub keeps the
  skills of the content before it. Handlers that overlap on a row can leave both sets of
  skills, which is why `SkillsFollowContent` excepts `Overlapping`.
* An upload that is not over when an erasure lists the prefix can leave an object after the
  user is gone; `late` and `after` mark exactly these.
* `merge` takes the lock of the block key its caller read. Once a row has been reworded into
  another block, a merge of it there and one decided on the old key take different locks, and
  both pass the rechecks: A is merged into B under the one while B is merged into C under the
  other, and A's source row ends up on B. Two such rewordings can close a cycle A->B->A, which
  the comment at `stages/dedupe.go:121` is about. Rewordings of titles and countries do move rows
  between blocks, so `MergesAreAForest` and `ProvenanceIsCanonical` except the rows in `moved`, and
  only them: without the exception TLC violates the second after one event and the first
  after two.
* The handler merges into the first candidate the query returns, which may be the younger row;
  only the sweep keeps the older one.
* A row published without its extraction keeps the hash and the skills of earlier content, if it
  had any; no column says so. `AttachedIsCurrent` and `SkillsFollowContent` except it, and the
  first says when that may happen.
* A merge into a row that is published behind a client's cursor takes the job out of that
  client's walk: neither of the two rows stayed listable. `Get` of a merged id is not found.
* After a merge the dates of the absorbed posting are compared with the baseline of the
  canonical row, hence `Absorbed` in the properties of `GhostRisk`. What they added stays with
  that row when it is merged away itself, so `NeverRefreshedNeverCounted` is about canonical
  rows. A single closing already counts as the company's pace.
* The baseline is that of the moment it is read. An evaluation that is judged after midnight
  compares its day with a window that has moved on and may hold that very day, so a rotten day
  can look healthy beside itself; `RotIsCaught` counts only the verdicts that come on the day
  they are of, and starts over when a healthy verdict of another day resets the count.

## 4. Proofs

For every set of rows and workers, stage assignment, attempt limit, batch size and
bounds (assumptions: stages and entry states are work states, limits are positive):

* `Typed`: `Spec => []TypeOK`;
* `TrackedWhileStarted`: `Spec => []TrackedIsHeld`;
* `PublishedIsClean`, `ParkedIsSpent`: `Spec => []ReadyClean`, `Spec => []ParkedSpent`;
* `ItemsStayCurrent`: `Spec => []ItemCurrent`;
* `AdvancesAreEarned`: `Spec => AdvanceEarned`;
* `QueueImplementsLifecycle`: `Spec => ImplementsLifecycle`.

The argument. Every statement either bumps a row's version, or keeps version and
`merged_into`, takes no attempt away and leaves the state alone or parks the row
(`RowStep`). So an item that still has the row's version describes the row. Two things
could break this. `ReleaseClaim` lowers the count: `TrackedIsHeld` shows it is never
applied to a row. `FailAttempt` changes the state without a new version: on a published
row it would park it, which is excluded because a published row has no attempts
(`ReadyClean`). Hence the inductive invariant `ItemInv`: types, `TrackedIsHeld`,
`ReadyClean`, `ParkedSpent` and `ItemCurrent` together; `ItemCurrent` alone is not
inductive. New content begins an edition and is a new version (`EditionStep`), so an item of
the row's version is also of its content, and whoever advances a row has claimed the content it
publishes in the state it leaves: `AdvancesAreEarned`. The refinement adds `MergeTarget` (a deduper about to merge has chosen
another row) and maps each action to a step of `Lifecycle` or to a stutter.

For ingestion (`IngestProofs`), for finite sets of boards and jobs and any runners and operators:

* `Typed`: `Spec => []TypeOK`;
* `OneRunnerPerSource`: `Spec => []NoDoubleFiring`, assuming `Scheduled`: no operator polls
  by hand and no lease runs out under its runner. A manual poll clears the lease of the
  runner, and a lease of ten minutes for five boards polled in turn is why the second is
  an assumption;
* `CursorVouchesForStored`: `Spec => []NotModifiedMeansStored`, assuming `Orderly`: also no
  failing upsert, no recurring ETag and no job id shared by two boards;
* `ClosingIsEarned`: `Spec => ClosedAfterMisses`, assuming `Scheduled` and no failing upsert (a
  posting whose upsert fails is counted as missed, section 3). ETags may recur, boards may share
  jobs, and merges may come anywhere;
* `LinksStayCanonical`: `Spec => []LinksAreCanonical`, with none of these assumptions.

The inductive invariant is `IngestInv`. `Exclusive` is the lease argument: whoever polls a
source holds its live lease, so no second tick finds it due. `OwnJobs` confines boards and stored
rows to the board's own jobs, so that an insert is refused only where this very posting is
stored. `PollsOK` says of each poll that the cursor it read vouches for what is stored,
that the page it fetched is no older than the saved cursor, and that everything the page
lists is stored except what the poll has still to do. `CursorsVouched` says of the saved
page that everything it lists is stored as long as the board is at its revision.
`NotModifiedMeansStored` alone
is not inductive: saving a cursor establishes it only from what the poll knows, and that
stays true only because nobody else writes the rows of this source meanwhile.

`LinksInv` is the invariant of `LinksStayCanonical`. It adds that an opportunity has the source row
it was created with (`Sourced`) and what a poll's open transaction may still rely on
(`PollKnows`): the row it found may have been moved by a merge since, but it is still there, so
the second half of the upsert updates it and never puts the old opportunity back.

`MissInv`, on top of `Exclusive` and `LinksInv`, is the invariant of `ClosingIsEarned`, and keeps an
account: the misses of an opportunity are at most the fetches without each of its rows, summed,
less one for each row whose fetch is not counted yet (`Counts`; `Pending` is a poll between its
fetch and its `BumpMissesForAbsent` whose page has none of the opportunity's rows). A fetch adds
one to `unseen` and makes it pending, the bump settles it. Two things could spoil the account. A
bump could charge an opportunity that is listed: `SeenKnown` says that what a poll lists and has no
more to do was recorded as seen or has no row. And a merge between the two halves of an upsert
lets the second half reset the counter of the opportunity it read and not of the one that has the
row by now: such a row (`Stale`) is left out of the account until it is recorded
(`FoundKnown`), so that the counter never rests on it. `unseen` stops at `MaxMisses`, hence the
second way out in `Counts`. The sums need what TLAPS cannot take from its library, induction
over finite sets, which `SumSplits` and `SumGrows` get from the least element of a set of naturals.

For enrichment (`EnrichProofs`), for any rows, contents, models, workers and events:

* `Typed`: `Spec => []TypeOK`, with at most one cached extraction for a key;
* `StoredForGood`: `Spec => CacheIsPermanent`;
* `MarkedForContent`: `Spec => []AttachedIsCurrent`;
* `PaidAtMostOnce`: `Spec => []NoWorkerPaysTwice`;
* `SkillsAreOfContent`: `Spec => []SkillsFollowContent`.

The types come with `OneJob`: a handler is at one row and has read one content of it. The
version guard is the argument of `MarkedForContent`: an item of the row's version has read the
row's content (`Versions`), since a rewording takes a new version, so the guarded statement
marks the content the row has. The same guard is on the statement that publishes a row without
its extraction: an item of the row's version has no more attempts than the row has claims of
its present content (`Counted`, `Versions`). `PaidInv` adds that a worker about to pay for, or to store, an
answer has none stored for that key that it can read. `SkillInv` adds, for a row whose leases
do not run out, that there is one handler at most, that the transaction under way sees all
the skills there are, and that between its commit and the attach the skills are those of the
content it read.

For the list (`FeedProofs`), for any rows, times, clients, filters and page sizes:

* `Typed`: `Spec => []TypeOK`;
* `PagesDoNotRepeat`: `Spec => []NoRowTwice`;
* `PagesDoNotSkip`: `Spec => []NoRowSkipped`.

First, the statement: (first_seen_at, id) is a total order of the rows, a page is a prefix of
what is left in that order (`PageIsPrefix`), has one last row (`PageHasLast`), and is full if
it leaves anything out (`PageIsFull`); a cursor decodes to the key it was made of. Then the
invariant `PageInv`: what a client was given is not behind its cursor, and what stayed
listable and was not given is. One more page keeps this (`TurnedWalk`), and so does any
change of a row, because a row's place is fixed when it is inserted (`Kept`). Neither property
is inductive alone: both need to know on which side of the cursor a row is.

For erasure (`AccountProofs`), for any uploads, erasures, tables and faults:

* `ErasureTyped`: `ErasureSpec => []ErasureTypeOK`;
* `NoRowComesBack`: `ErasureSpec => []GoneStaysGone`;
* `NoObjectStranded`: `ErasureSpec => []NothingStranded`;
* `CompletionIsEarned`: `ErasureSpec => []CompleteMeansErased`;
* `CountsAreRight`: `ErasureSpec => []VerifiedMeansErased`.

`ErasureInv` says what an erasure knows at each step: while it deletes objects, what is left is
on its list or of an upload that was not over (`ObjectsKnown`); a recorded `user_row` means the
user is gone, and unless a record was lost it is there before the request can be completed
(`RecordsKnown`); counts are taken after the deletes (`CountsKnown`). All of it lasts, because
no step takes up an upload that is over, adds an object for it, or brings the user back. The
properties themselves are not inductive: they speak of the end of an erasure, and hold there
only because of what was known on the way. `lost` in `CompleteMeansErased` and the counts in
`VerifiedMeansErased` are the two ways the code knows that a delete really happened.

For authentication (`AccountProofs`), for any accounts, requests in progress and threshold:

* `SessionsTyped`: `SessionsSpec => []SessionsTypeOK`;
* `AuditIsOneChain`: `SessionsSpec => []AuditVerifies`;
* `SessionsAreCurrent`: `SessionsSpec => []LiveSessionIsCurrent`;
* `FailuresLock`: `SessionsSpec => []LockoutCounts`.

`SessionsInv` adds `Exclusive` (one request at a time has the audit lock, and no two hold the same
user row), what a request still knows after it waited (`ReqKnown`: the hash it is to follow is
the last one, the token it rotates exists, the rows it found are of the family it revokes), and
`Accounts` (no failure since the last login is missing from the counter, and the counter
locks). The chain is extended by an entry over its last hash, which is the one that was read,
as nobody else could append under the lock.

For dedupe (`DedupeProofs`), for any rows, texts, blocks, workers, sweepers and thresholds:

* `Typed`: `Spec => []TypeOK`;
* `MergesStayAForest`: `Spec => []MergesAreAForest`;
* `ProvenanceStaysCanonical`: `Spec => []ProvenanceIsCanonical`.

Rewordings may take rows to other blocks at any moment; the properties except the rows that were
taken (`moved`), and no other. `DedupeInv` has every job's key and pairs at home in the block of
their rows, or of a row that moved (`JobsAtHome`, `Keeps`), and `MergesExclude`: of the merges
under way no two have the same key, and both rows of each are of that block and not merged, or
have moved. Hence two merges under way have no row in common but one that moved, and a commit
hangs one tree, root and all its source rows, on the root of another. `Signed` says that a row
is normalized with one text, so that it has one block at a time.

For source health (`SourceHealthProofs`), for any fields, limits, windows, finite sets of pollers and
reports, and bounds:

* `Typed`: `Spec => []TypeOK`, with at most one row for a day;
* `DegradedIsEarned`: `Spec => DegradedNeedsABadPoll`;
* `RotGoesOffline`: `Spec => []RotIsCaught`.

`HealthInv` has the row of a day, and the row an evaluation holds, as a mixture of the polls of that
day (`Mixed`): a share that no poll exceeds is not exceeded by the sum, one that every poll
exceeds is exceeded by it, and it is a large enough sample if each poll is. A drop against a
fixed baseline is such a share (`DropIsLinear`), so the sums neither make a drop up nor hide one.
`RotCounted` is the account of a rotten day: nobody finds it healthy, its verdicts are in
`consecutive` or about to be, and once the count reached the limit someone is about to read it
back, also when two polls add to it before either reads. The days before a day are not written
any more once it has begun, so a day that is rotten now was rotten at each of its verdicts
(`RottenBefore`). Products of variables are beyond the SMT solver, so the shares rest on a few
lemmas of arithmetic (`Distribute`, `DropArithmetic`).

For ghost risk (`GhostRiskProofs`), for any openings, thresholds in the order of the code's, and
bounds:

* `Typed`: `Spec => []TypeOK`;
* `OnlyRefreshesCount`: `Spec => []NeverRefreshedNeverCounted`;
* `OrdinaryStaysNormal`: `Spec => []OrdinaryIsNormal`.

`GhostInv` has `Rows` (a row that is not merged has its own source row), `Dated` (with the text of
the board, a row has the date of the board or a later one, until the source moves the date; so
`MarkOpportunitySeen` adds nothing) and `Past` (a row closed after it was seen). The last theorem
is also about the operators: the rank that defines the median has its day (`NthDay`, by the least
day that enough closings reach), the median is not before the first closing
(`MedianNotBefore`), so the age is below the multiples that are flagged, no signal is given,
and the sum over none of them is in the lowest band.

Every inductive invariant was checked with TLC as well (`Mixed` for a few factors). Two properties turned out
to be too strong on larger instances than the runs' and were corrected (end of section 3),
and `Merge` of `Ingest` got the guard that a row is not merged into itself.

Only model-checked: the liveness properties (`EveryRowMovesOn`, `SweepReachesAll`,
`EverySourcePolled`, `EveryListingStored`, `UnlistedCloses`, `DuplicatesMeet`, `RequestsEnd`,
`WalksEnd`), since TLAPS does not handle fairness and ENABLED here; and the violated property of
`Dedupe`. Every invariant and action property of a passing run is proved. What the theorems
assume beyond the runs' instances is said with each: `Scheduled`, `Orderly` and the absence of
failing upserts.

## 5. Plan

1. done: `Lifecycle`, `Pipeline`, their runs and proofs.
2. done: `Ingest`, its runs and first theorems.
3. done: `SourceHealth`, `Decide`, `Dedupe`, `Enrich`, `Sessions`, `Erasure`, `Feed`,
   `GhostRisk` and their runs; the theorems of `Enrich` and `Feed`.
4. done: the theorems of `Erasure`, `Sessions`, `Dedupe` and `GhostRisk`, and
   `LinksAreCanonical` of `Ingest`.
5. done: `ClosedAfterMisses` of `Ingest`, from what each poll has seen and has still to bump;
   the theorems of `SourceHealth`.
6. next: `Ingest` composed with the queue, so that a re-ingested posting goes round the
   pipeline in the same model; which text a canonical posting should have, and a property that
   says so of `Ingest` and `Dedupe` together.

## 6. Not modelled

* Text processing: `normalize`, resume parsing, skill slugs and aliases, SimHash and block
  keys of a text. Pure functions over strings; what they derive is an input of the models.
* HTTP handlers and clients beyond what an answer means, configuration, logging, telemetry,
  flags and reports, and the generated store code as such; the statements it holds are
  modelled where they are used.
* The layout of answers (money, seniority, wording of reasons), password hashing and secrets.
* The backoff duration, only that it elapses: the attempts it grows with are bounded.
* `DeleteResume`, which sets `deleted_at` on a row that erasure counts and deletes like any
  other, and `UndoMerge`, which no code calls.
* Rows are never deleted in the model (the code deletes them only in tests and when a company
  is purged), and the status of a user never changes, as no code does that.
