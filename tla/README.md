# Klai, verified: syncs, crawls, the knowledge base, the transcription queue and tenants

TLA+ models of the parts of Klai where several processes write one row, one
collection or one file, with TLC configurations that check them and TLAPS proofs
of what matters most. All paths are relative to the repository root (`src/`).

## 1. Inventory

Klai is a set of Python services around a portal. Postgres holds rows, Qdrant holds
the searchable points, Redis holds sessions and nonces; the services call each other
over HTTP and queue work as Procrastinate jobs or as asyncio tasks.

| Part | State | Operations | What is hard | What makes it correct |
|---|---|---|---|---|
| **klai-connector, sync runs** (`klai-connector/app`) | `connector.sync_runs` (status, cursor_state, started_at); in memory: a lock per connector, a semaphore of 3, the resolver's 30 s cache | trigger route, schedules, `SyncEngine.run_sync`, `SyncRunResolver`, `SyncRunReaper`, startup sweep, callback to the portal | five writers of one row; check-then-insert; cached remote status; a POST whose answer is lost; restart at any point | a row is closed once and for good, with its own crawl's verdict; the portal is told at most once; every admitted run ends |
| **klai-connector, documents of a sync** (`sync_engine.py`, `adapters/`) | `cursor_state`: synced_refs, last_synced_at, ingested_refs, tree_sha | discover, ingest with a checkpoint every ten documents, resume, retire what vanished | interrupted runs, stale checkpoints, early returns, refused and failed retirements | what a run passes over is stored as it is; what is stored is known to the next retirement |
| **Portal, sync status** (`api/connectors.py`, `api/internal.py`) | `portal_connectors.last_sync_status`, `last_sync_at` | trigger endpoint, `receive_sync_status` callback | answer and callback race and may be lost or late | the portal shows the newest verdict, and is not stuck on "running" |
| **knowledge-ingest, crawl execution** (`crawl_checkpoint.py`, `routes/crawl_sync.py`, `adapters/crawler.py`, `crawl_tasks.py`) | `knowledge.crawl_jobs`: status, execution_generation, cancel_requested, frontier; the Procrastinate rows; a session advisory lock; the connector fence | enqueue, claim, guard, checkpoint, finish, cancel, supersede, recover | killed and stalled workers, lost connections, cancellation, a newer crawl | one live execution; a fenced one writes nothing; a completed crawl has stored what it fetched |
| **knowledge-ingest, points** (`qdrant_store.py`) | the points of a document | `upsert_chunks`, `upsert_enriched_chunks`, both through `_replace_points`; `read_chunk_batch` | unsynchronised writers; a failure between upsert and delete; batches that read their text from the points they replace | one writer's points always survive; readers find one complete version |
| **knowledge-ingest, ingest and enrichment** (`routes/ingest.py`, `enrichment_tasks.py`, `pg_store.py`) | `knowledge.artifacts`, job queue, points | ingest, enrich, reindex, delete, reap stale pending rows | two stores without a common transaction; late enrichments; racing ingests | the open, synced version is what queries find; points belong to it; nothing stays pending |
| **Deleting a connector** (`connector_cleanup.py`, `connector_state.py`, `connector_purge_tasks.py`) | fences with generations, artifacts, jobs, points | mark deleting, cancel jobs, delete rows, delete points, delete fence | ingests under way, a cached fence, retries | nothing of a purged connector is left, nothing of another is touched |
| **Scribe, transcription queue** (`klai-scribe/scribe-api/app`) | `scribe.transcriptions`: status, audio_path, claimed_at, attempts; the recording on disk | upload, retry, delete, erasure of an organisation; workers' claim, run, finish; reaper; startup recovery | lost claims, two containers during a deploy, a file deleted inside a transaction, rows inserted behind an erasure | a recording is kept as long as it is needed and no longer; a transcript is final; a queued row leaves the queue |
| **Portal, provisioning** (`services/provisioning`, `api/admin`) | `portal_orgs.provisioning_status`, `deleted_at`, the kept ids; the tenant's app, team, database user, files, container, knowledge, users | provision with compensation, retry, delete, retry the deletion, stuck detector at startup | calls that fail though they took effect, swallowed failures, row copies kept across commits, restarts | ready means wired; a rollback leaves nothing unreported; a deleted tenant is gone everywhere; none stays half-way unreported |
| **Portal, the rest** | sessions, identity cache, uploads, meetings, support cases, gaps, users | request handlers and pollers | polling against webhooks | not modelled |
| **retrieval-api, knowledge-mcp, mailer, slack, docs, widget, shield, hubspot, docker-authz, libs, deploy** | little or none | mostly stateless calls | | not modelled |

How they interact: the portal's trigger endpoint calls klai-connector's trigger route
(202). klai-connector works in a background task; for web_crawler connectors it posts
a crawl to knowledge-ingest and ends its task, and the run's verdict is later fetched by
whoever reads the run (the resolver) or by the reaper. klai-connector then calls the
portal back, once. knowledge-ingest replaces points in Qdrant while it ingests and
again while it enriches. Scribe stands beside all this, with its own table and disk. A
tenant's provisioning and deletion run as background tasks of the portal and call every
other service.

## 2. Modules

| Module | Models | Composed with |
|---|---|---|
| `SyncLedger` | what klai-connector promises about a row and its callback, without actors | |
| `ConnectorSync` | the five writers of a sync run, the crawls as environment | implements `SyncLedger` |
| `InlineSync` | what a run does with documents | extends `ConnectorSync`, and implements it |
| `PortalSync` | the portal's two writers of the sync status | uses `SyncLedger`'s actions for klai-connector |
| `CrawlContract` | what knowledge-ingest promises about a crawl's row | |
| `CrawlExecution` | queue, workers, lock, checkpoints, supersession and recovery of crawls | implements `CrawlContract` |
| `KnowledgeWrites` | one document in PostgreSQL and Qdrant, under everything that writes it | |
| `ReplacePoints` | `_replace_points` and its callers on one document | the one step `KnowledgeWrites` makes of it |
| `ScribeJobs` | Scribe's queue, disk and containers | |
| `Provisioning` | one tenant from signup to deletion, under everything that writes its row | |
| `*_proofs` | the theorems of each module above but the two abstract ones | `InlineSync_proofs` cites those of `ConnectorSync_proofs` |
| `MC*` | values of the constants for TLC | |

### ConnectorSync

`status`, `handed` and `age` are columns of `sync_runs`: `handed` says that
`cursor_state` names a `remote_job_id`, `age` is `started_at` as the reaper sees it
(younger than 5 minutes, older, older than 7 days). `task[r]` is where the background
task of a run stands; holding the connector's lock and a slot of the semaphore are
derived from it (`HoldsLock`, `HoldsSlot`), because the code takes and releases them
with `async with`. `opening[k]` is a caller between the guard's SELECT and the INSERT.
`todo`, `found` and `owes` follow a finaliser (any number of readers, one reaper) from
the row it has read, through the verdict it is about to write, to the callback it still
owes. `job` and `cache` are the crawl and the resolver's payload for it.

Each action is what the code does between two awaits that matter to others.
`Finalise` is SELECT FOR UPDATE, the second look at the status, the UPDATE and the COMMIT.
`StartTask` tests the lock and takes it: there is no await between `lock.locked()` and
the acquisition of a free asyncio lock. `TaskBreaks` stands for the exceptions no
handler of `run_sync` expects; `Restart` kills every task and runs the startup sweep.
A crawl may end in any status, including `cancelled`, which klai-connector does not
take for terminal; it may be purged; it may run for ever. Where the row is closed, the
crawl, the cache entry and the age are followed no further, as nothing reads them.

### InlineSync

The runs, the lock, the semaphore and the restarts are `ConnectorSync`'s actions; where
its `EndRun` happens, and with which status, is what the documents decide
(`EndUnchanged`, `Finish`, `FailRun`). A document's content is the moment it was last
edited, counted in changes to the sources, so that `stored[d] = edited[d]` says that the
knowledge base has it as it is. `cursor` is `cursor_state`: a checkpoint while a run works
and after a restart has set it aside, the final cursor when it has completed. `work[r]` is
the local state of `_execute_sync`: what the previous cursors said, what was listed, what is
left to do. Three kinds of adapter are considered. Notion has an edit time per page and a
newest one as cursor; GitHub has the hash of the tree, and its blobs are fetched as they
were when listed; a JSON feed has neither, and is the one adapter whose listing is
trusted to be complete. An adapter with none of these (Google Drive, Confluence) behaves
like the JSON feed without its retirement.

`excuse` records what may set the knowledge base apart from what the cursors say:
`resumed`, the document was on a PENDING run's checkpoint, was edited since, and was passed
over; `short`, it was too short to be ingested and an older version stays; `unrecorded`, a run
that did not complete ingested it, so that no later retirement knows of it.

### PortalSync

Time is a logical clock that ticks where the code takes a timestamp the portal compares:
`started_at` (the database's `now()`, which is when the transaction of the guard began)
and `completed_at`. `CallbackReads` and `CallbackWrites` are two actions because
`receive_sync_status` loads the connector without a lock, and SQLAlchemy's UPDATE names
only the columns that differ from what was loaded; `SameAsLoaded` is that comparison.
`PortalApply` is one action, because `db.refresh` takes the row lock first.
The history variable `excuse` records which of four things happened to a connector:
a callback was lost, a run was set aside by a restart, a callback came after a newer
one, or a start answer overtook a callback between its load and its write.

### CrawlExecution and CrawlContract

A crawl is three rows: the one in `crawl_jobs` (`status`, `gen`, `cancelReq` and the frontier
`fetched`, `missed`), the one of the queue (`queue`, `aborting`), and the connector's fence,
which names its newest crawl. `run[w]` is the attempt of a worker; `owns` says that the
queue row is still its own. A worker that stalls loses it to the recovery and may come back:
its `finish_job` or `retry_job` goes by the job's id and closes, or requeues, the row of
the attempt that followed (history `abandoned`). Two attempts can therefore send each other
back with `CrawlExecutionBusy`; the bound on faults ends that.

A guarded block (`Guarded`) runs under the session advisory lock, after a look at the
generation; the lock goes with the connection, which may break without the worker noticing.
A cancellation seen before the claim (`PublishCancelled`) is written without lock and
generation; the rate-limit effect and its marker are one step. Where an exception leaves
`run_crawl`, the crawl's row keeps its status for good (`Escapes`). A fence that cannot be
read lets a page be skipped without being counted (`lost`). A queue row whose abortion was
asked for is ended where it would be retried, whatever its crawl's status.

A page is in three places: its points (`content`), the hash in `crawled_pages` (`record`) and
its artifact (`artifacts`). `_ingest_crawl_result` has four ways out, and three count the page
as done: it is stored (`IngestPage`), it says what is on record and its artifact is active, so
that nobody looks for the points (`SkipUnchanged`), or it is below the floor of content, or
short and like others (`SkipShort`), and what was stored of it stays; only where it raises
(`PageRaises`) does it count as failed. `passed` (history) names the pages passed over with
nothing stored of what they say. The retirement deletes points path by path (`RetirePoints`)
and then artifacts and hashes in one transaction (`RetireRecords`); a kill, a lost connection or
an unanswered delete between the two leaves a page on record without its points, of which
there may be some from earlier crawls (`Stranded`). The hashes are read once before the first
page; what another crawl writes after that it writes behind the fence (`trespassed`).

`CrawlContract` has none of this: claims under growing generations, progress and outcomes
from the newest generation only, one application of the observation, final outcomes.

### KnowledgeWrites

The document is an upload, a connector's, or a page of neither kind (`origin`); `Direct` is
what is no connector's. Only an upload stays pending until its enrichment is done; the page is
synced by its ingest, and has its status set by its enrichment again.

`rows`, `open`, `index` and `body` are the versions in `knowledge.artifacts`, `points` what
Qdrant answers with: the version named in the payload and the text. Each ingest is a sequence
of steps with an await between them (`ing[i].pc`): compare, create the version, write its
points, defer the enrichment, settle. Enrichment jobs wait in `todo` and are executed by
`run[w]`; `sure` says that the version was open after the LLM calls. A text of too many chunks
or none is not enriched (`Refused`): the worker sets the status of what is no connector's,
synced or failed, and writes no points (`Waive`). `connector`, `fence`,
`removal` and `purge` are the deletion of the connector: the portal's row, the fence with its
generation, the DELETE request and the purge. Listing, fencing and cancelling are one action
of the purge, and so are dropping its points and its fence row.

The two stores share no transaction, so they disagree in moments that `InBetween` names, and longer
for reasons that `blame` names. A clean write of the open version resets it. `overtaken`: a write of
an older version came last. `raced`: two ingests created one version. `wiped`: a deletion of the
path's points hit those of a newer version. `resurrected`, `reopened`: a late enrichment, or a
reindex, opened a closed version again (both set the status by id). `unwritten`: an ingest ended
between creating the open version and writing its points. `waived`: a version in that state, or
whose ingest is still to write it, was set to synced by a worker that refused to enrich it.
`halted`: a deletion's step failed for good. `dropped`: a deletion dropped a version that came
meanwhile. The connector check may be answered from a five-second cache, and a purge goes on
although the portal has taken the connector back to active.

### ReplacePoints

A point is the call that wrote it, a chunk index and the chunk whose text it has:
`_replace_points` gives every point a fresh id, so calls never overwrite each other's points.
A call that writes a whole version has its text. A call for a batch (`OffsetOf`, `BatchSize`)
first reads up to `BatchSize` points of its version in its range (`ReadBatch`: any of them if
there are more, sorted by index, points of one index in any order), keeps their texts in
`batch` while the LLM works, and writes them back counted off from its offset; its filter is
the range it writes, not the one it read (`Matches`). `Misread` says that what it read are not
just the chunks of its range. Scrolling is one action per id; pages are several of them in a
row, and a point that was there from the beginning to the end of the scroll is seen
(`ScrollEnds`). `Fail` covers a timeout (the request applied or not) and a dead worker at each
step. A retry of a job is one more element of `Calls`; `disturbed` (history) says that a call
began beside another one or after a failed one.

### ScribeJobs

`claim[r]` is `claimed_at`, numbered; a job carries the number it claimed with (`mine`,
history) and the one it has read (`token`), which the code does in different
transactions. The finisher that deleted a recording holds the row's lock until it
commits (`Locked`), so `PurgeAudio` and `CommitResult` are two steps that only a crash or
a failed commit can part. `path` and `file` are kept apart: the column and the disk.
`Recover` is the startup recovery, which releases every queued row whoever claimed it;
`Boot` runs the reaper first, as `lifespan` does. `EraseAudio` and `EraseRows` are the
erasure of an organisation: it locks the rows it has selected, deletes their recordings, and
then deletes every row of the organisation. A row inserted between the two goes with
the others, and its recording stays (`late`).

### Provisioning

`status`, `deleted`, `rowApp` and `rowTeam` are columns of `portal_orgs`; `"gone"` is no row.
`resources` is what exists of the tenant elsewhere. `task[t]` is a background task or a
request: a run that provisions (`begin` to `completing`), a deletion (`load`, `wipe`,
`failed`) or an endpoint that waits for the row's lock (`locking`). A run walks through
`Forward`, one entry per external call, and pushes a compensator for what it made; when a
call fails, `Compensate` and `CompensationFails` empty the stack, and the row is marked,
closed and completed in three commits. A deletion walks through `DeprovisionSteps`; an
attempt at a step fails applied or not (`StepFails`).

A task keeps the row object it has loaded: sessions do not expire at a commit, and a
`SELECT FOR UPDATE` does not refresh what is loaded. `transition_state` therefore compares a run
with itself (`wrote`), and that nobody else writes the row meanwhile is `OwnRow`, which the
entry states alone have to bring about. `deprovision_org_by_slug` and
`retry_deprovisioning` judge by the status they read before they waited for the lock
(`FindToDelete`, then `LockAndDelete`), so two deletions may work side by side: `overlapped`.
`leftovers` records what a swallowed failure, or a call that took effect without saying
so, left behind. LiteLLM's teams are counted, as their alias is not unique; the app, the database
user and the repository are found by name, and a name that is taken refuses a run (`Taken`).
`WriteKnowledge` and `Chat` are the tenant's people, who go on using a tenant whose deletion
has failed.

## 3. Runs

| Run | States | Shows |
|---|---|---|
| `ConnectorSync` | 327,791 | `EngineLimits`, `LedgerInv`, the implementation of `SyncLedger`, `HandedVerdictIsTheCrawls`, `AdmittedRunEnds` |
| `ConnectorSync_accepted` | violation | finding 1 |
| `InlineSync` | 1,400,959 | `UnchangedIsStored`: what is passed over is up to date; `StoredIsRecorded`: what is stored can be retired; `MirrorsSource`: a completed run leaves the knowledge base as the source is |
| `PortalSync` | 64,019 | `OwnVerdictStands`; `RunningIsBacked` names all causes of a stuck "running" |
| `CrawlExecution` | 371,103 | the implementation of `CrawlContract`; `GuardedBlocksAreOwned`, `CompletedIsStored`, `ServedPagesKept`, `QueuedCrawlEnds` |
| `CrawlExecution_latest` | violation | finding 3 |
| `KnowledgeWrites` | 1,190,306 | `SyncedIsSearchable` and `PointsAreOwned`, the two halves of the daily reconciliation's drift; `UnchangedIsSearchable`; `PendingSettles` |
| `ReplacePoints` | about 2.9 million | `OneWriterSurvives`; `DocumentStaysComplete`; `BatchesAreExact`; `OldPointsRetired` |
| `ScribeJobs` | 693,513 | `RecordingsKept`, `DeletedWithRecording`, `TranscribedIsFinal`, `QueuedRowEnds` |
| `ScribeJobs_lost_claim` | violation | finding 2 |
| `Provisioning` | 457,795 | `ReadyIsWired`, `RollbackIsComplete`, `GoneIsClean`, `OwnRow`, `MidwayIsReported` |
| `Provisioning_retry` | violation | finding 4 |

Bounds, and why they are enough:

- *Runs of `ConnectorSync`.* Two of an ordinary connector and one of a crawled one. The two
  can be open together, worked on one after the other or skipped, and compete with the third
  for a slot, so that waiting for a slot is not waiting for the lock. That two rows are handed
  over at the same time occurs in the proofs only, which cover any number.
- *Callers, readers.* Two callers race for the guard, and both may get past it; a reader and
  the reaper race for the handed-over row. More of either only repeat those races; the proofs
  cover any number.
- *MaxCrashes, MaxErrors, MaxLosses, MaxStops, MaxAsked, MaxFaults, MaxEvents* bound how
  often the environment interferes. One restart can fall between any two steps of every actor.
- *MaxConcurrent = 1* makes the semaphore bind with runs of two connectors.
- *InlineSync.* Three runs in a row (`MaxOpened`): one that completes, one that is
  interrupted with a checkpoint, one that resumes; or a listing that is refused, between
  one before and one after. Of two documents a listing can lose one, which is
  retired, or both, which is refused; two changes (`MaxChanges`) let a
  document be edited before and after a checkpoint, or be unlisted and listed again. With
  `CheckpointEvery = 1` every document is a place to be interrupted at; the code's value, ten,
  only makes checkpoints rarer. One caller: no second run works beside the first, which is
  proved.
- *CrawlExecution.* Two crawls, the second superseding the first, on a site that gained a page
  and lost one, which are what there is to retire or to keep; one page is on record without its
  points, and one may say too little to be stored. `MaxFaults = 2` faults fall
  anywhere while there is one crawl: a kill and another kill during the recovery from it, a
  stall and a cancellation. With
  two crawls under way there are none (`MaxSharedFaults = 0`): their interplay with faults was too
  large.
- *KnowledgeWrites.* Two ingests: of an upload that changes, or is sent again unchanged, short
  or too long for enrichment; of a connector's document; of a page that comes to have no text.
  One worker. `MaxEvents = 2` counts failures, deaths, reindexes,
  deletions and the removal of the connector together, so that any two of them meet.
- *Calls* of `ReplacePoints`: each version written whole, and two enrichments of the first
  batch of the older one, so that a whole write races a whole write, a batch a whole write, and
  a batch its own repetition. The old version has three chunks, the new one a single chunk; a
  batch is two, so that a duplicate shifts a chunk out of it and the last chunk is in none.
- *MaxAttempts = 2* in Scribe: the first attempt that does not exhaust a row and
  the one that does; the code's value is a constant of the theorems. `MaxAsked = 1` allows one
  retry or one erasure; more of both are covered by the theorems only.
- *Provisioning.* Two tasks: two requests at once, a request beside a run, two deletions side by
  side. `MaxFaults = 2` lets a failed call meet a failed compensator, a failed retry or a restart
  during either, and there is one team more than faults, since each team left behind costs one.
  The tenant is a new one, or one from before the portal kept ids. `Provisioning_retry`
  has one task and one failed call, which are enough.
- Symmetry is used only in runs without liveness properties.

`CHECK_DEADLOCK FALSE` in every configuration: with bounded runs, calls and requests,
everything comes to rest.

## 4. Fairness

`ConnectorSync!Fairness`: the event loop runs every ready task, HTTP calls end by their
timeout, the reaper's loop ticks every minute and time passes (weak fairness). The
reaper asks knowledge-ingest about a row again at each tick, and one of these calls is
answered: strong fairness of `ReaperAsks`, because failing calls disable it time and
again. There is no fairness for callers, for readers, or for the end of a crawl:
`AdmittedRunEnds` must hold without anybody reading and with a crawl that never ends,
which is what the seven-day limit is for. The steps of a run's task exclude each other, so one
condition on all of them (`Advance`) says as much as one on each; so do the reaper's.

`ScribeJobs!Fairness`: a stopped container is started again by the orchestrator, workers
poll every three seconds, the provider call has a timeout, the reaper ticks, time
passes. No request has to come; an erasure that holds its locks goes on.

`CrawlExecution!FairSpec`: a worker goes on with its attempt, the periodic recovery runs (weak
fairness), and the queue, which hands rows out in order, picks each one up: strong fairness
of `PickUp`, because a row is out of the queue while an attempt has it, and the workers are now
free and now busy. Requests, faults and caches are owed nothing.

`KnowledgeWrites!FairSpec`: enrichment workers go on and the reaper of stale pending rows runs.
Nobody has to ask for anything, an ingest may hang for good, and nothing makes the portal's
enqueue of a purge arrive.

`Provisioning!FairSpec`: a task goes on until it ends, and the portal is restarted again some day
when no task runs, long enough after for the detector's threshold; a restart is how the
detector comes to run at all. `RetriedSpec` adds administrators who try a failed deletion again.

## 5. Proofs

All proofs are for every value of the constants, from the named ASSUMEs of each module. These say
that `ConnectorOf`, `VersionOf`, `OffsetOf`, `HomeOf`, `SourceOf` are functions into the right
sets, that
`Reaper` is not a reader and `Nobody` not a crawl or an ingest, that every version of a document
has a chunk, that `Teams` are told apart from a tenant's other resources, that an inline sync has
no delegated connector, and that bounds are naturals. No set is assumed to be finite but the
documents of the sources, because a run counts them: `EngineRespectsLimits` carries the finiteness
of the set of slot holders along, and that a last run exists among those a connector has
(`LastExists`) follows from the bound on how many are opened.

Each invariant the runs check is a theorem, but `BatchesAreExact`, and so are the action properties
and the two refinements. Few of them are inductive as they stand; what follows is what they had to
be strengthened by, which is also what the code relies on without saying so. TLC has checked each
strengthening on the run's instance.

*ConnectorSync.* The rows' promise is not inductive: `Close` needs to know that the task that
writes a row without looking finds it open. `LedgerInv`: while a task may still write
(`MayWrite`), its row is running and not handed over, so that no finaliser takes it for
resolvable; a finaliser only holds handed-over rows; whoever owes a callback is alone in owing it
and nothing was sent yet; a row about to be inserted is in one caller's hands. From it follow
`ImplementsLedger` (each action maps to a step of `SyncLedger` or to a stutter) and, with the sets
of lock and slot holders, `EngineRespectsLimits`. For `HandedVerdicts`, `VerdictInv` says that a
cached payload and a verdict about to be written are still borne out by the job (`Bears`): a job
that has ended does not run again, because a handed-over row has no task left that could post its
crawl (`LedgerInv` again).

*InlineSync.* `InlineImplementsEngine`: every step is one of `ConnectorSync`'s or leaves its
variables alone (`StepsAreTheEngines`), so its theorems hold with documents, too;
`InlineRespectsLimits` is the one spelled out. None of the properties about documents is inductive
alone: each speaks of the cursor of the last completed run, and a run writes that cursor from what
it read, listed and stored long before. `InlineInv` adds what connects them. `BeganInv`: opened
runs are told apart by when they were opened, so that there is one last completed run and a run
that completes late does not displace it (`LaterStaysLast`). `CursorInv`: every completed run's
cursor, not only the last one's, is `Backed` by the knowledge base, since the last one at the end
need not be the last one when a run read it. `WorkInv`: what a run knows at each stage, of the
documents it is through with (`Through`), of what it will retire, and of the order of the times it
goes by. What keeps this true between its steps is the lock, taken from the engine's theorems
(`WorksAlone`, `ElsewhereStays`), and the clock: a change to a source is later than every cursor
and listing (`SourceKeepsBacked`). `StoringKeepsBacked` is the case to look at: a run that stores
a blob as it was when listed, though it was edited since, makes the knowledge base no worse for
any earlier cursor, because those cursors are not after its own beginning.

*PortalSync.* `RunningIsBacked` holds by what is still on its way: a callback on the wire is one
that was sent, and was sent with a verdict (`CallbackInv`); a run is begun before it is closed,
and no two of the events the portal compares share a moment (`TimeInv`); a request that has an
answer has a run (`RequestInv`); and a callback that has arrived left the portal with a time not
before its run's end, or an excuse (`DeliveredInv`). `OwnVerdictStands` follows from the times.

*CrawlExecution.* `GuardedBlocksAreOwned` needs `AttemptInv`: no two attempts at a crawl share a
generation, and none has a later one than the row. `CompletedIsStored` needs, for the attempt of the
newest generation, that every page fetched is stored, passed over, or among those it has still to
store (`StoredInv`), and `ServedPagesKept` that it looks for stale pages only when it was answered
for the whole site (`SiteInv`). `FenceInv` says that a crawl becomes the connector's newest before
it can be queued, so that a fence, once passed on, is never back at an older crawl. `Implements`
maps each action to one of `CrawlContract`, with `AttemptInv` for the generations.

*KnowledgeWrites.* Whoever is about to report a version as synced counts as having promised it
(`Promised`): the promise is kept from the moment the points are written, not from the status
(`PromiseInv`). Versions are made before anybody refers to them (`ReferenceInv`), so an ingest
that creates one finds no promise for it; a job writes only a version it has found open
(`SureInv`); the open version has its points, or an ingest is still to write them, or a named
reason why not (`WrittenInv`), which is what a worker that waives it goes by; a connector's
documents and others keep to their own kinds of removal (`OriginInv`),
and a purge is asked for when none is under way (`RemovalInv`).

*ReplacePoints.* Neither `OneWriterSurvives` nor `DocumentStaysComplete` is inductive: the points in
question may be about to be deleted. `SurvivorInv` asks for a writer, and for a version, whose
points no call that has already written will delete (`Doomed`), and says that a point has the text
of its index unless its version is mixed. A call that stores its points provides such a writer,
because nobody can have read ids that did not exist; nothing is assumed of its text, so
`OneSurvives` holds of misread batches, too. For the version, a batch that is not misread only
replaces points by others of the same index and text, and one that is leaves at least a point
(`ReadyInv`: it found one). `NeverLeavesNone` follows. That a batch is misread only after a
disturbance (`BatchesAreExact`) is checked by TLC alone: that the sorted points of a range, one per
index, are its chunks in their places is an induction over their number. `RetiredInv` gives
`OldPointsRetired`: a call that returns has deleted what it read, and `StoreRevivesNothing` says
that its siblings bring none of it back.

*ScribeJobs.* `RecordingsInv` (in the proofs module) ties the worker that has deleted a recording
to the row lock: at most one such worker per row, and its row is still queued (`LockInv`). An
upload under way has its row to itself and its recording on disk (`UploadInv`). Every other event
that could cost a row its recording is in `excuse`. `RecordingsAreKept` and `FinalTranscripts`
follow. `DeletionsAreComplete` needs the converse (`FilesInv`): a row that still has a recording
knows it by its `path`, and what a delete or an erasure is about to drop has none left.

*Provisioning.* `OwnRow` follows from the entry states (`StatusInv`): what a task has read of the
status when it starts, and what it has written since, admits no second task, except that of
deletions. `ReadyIsWired` needs that a run has made what its steps so far make, and
`RollbackIsComplete` that all it has made is on its stack or noted as left over (`RunInv`, with
`PlaceInv` for where it stands in the two tables of steps). `GoneIsClean` needs that the one team
a deletion would find is the only one not left over, and that what a step has wiped stays wiped
(`DeletionInv`).

Only model-checked: `BatchesAreExact`, and the liveness properties `AdmittedRunEnds`,
`QueuedRowEnds`, `QueuedCrawlEnds`, `PendingSettles`, `MidwayIsReported` (fairness and leads-to are
outside what the prover does).

## 6. Findings

1. **An accepted run that never executes** (`klai-connector/app/services/sync_engine.py:157`).
   The lock is held while a finished run's report is awaited; a run accepted in that window is
   skipped, stays RUNNING, and blocks its connector until a restart.
2. **An adopted claim** (`klai-scribe/scribe-api/app/services/jobs.py:170`). The claim
   token is read after the claim was committed; a release in between makes a worker
   adopt the newer attempt's token, and fail or finish it.
3. **A page of the newest crawl retired** (`knowledge_ingest/adapters/crawler.py:1491`). The
   guard under which a completing crawl retires stale pages knows the generations of its own
   row, not the newer crawl's: a superseded crawl retires a page the newer one has just
   ingested, with no fault at all.
4. **A deletion that no retry finishes** (`klai-portal/backend/app/services/zitadel.py:899`). The
   deletion of the Zitadel app takes a 404 for a failure, and the app's id is kept in the row:
   once the app is gone and that attempt, or a later step, has failed, every retry stops there.

Met on the way, and stated by no run:

- A batch of a large version that is retried after a failed delete, or runs beside another one,
  reads some of its chunks twice, writes them under the indices of others and deletes those
  (`qdrant_store.py:495-515`): their text is lost to search until the version is ingested again.
- An upload of too many chunks whose ingest died before its points were written, and that is
  reindexed, is reported as synced with no points (`enrichment_tasks.py:225-238`, `263-274`); the
  same text sent again is then skipped as unchanged (`routes/ingest.py:450`).
- A crawl that is killed between deleting the points of stale pages and committing that they are
  retired (`adapters/crawler.py:1526-1549`) leaves their hashes and artifacts, and a later crawl
  that finds such a page again skips it as unchanged (l.1727-1735). Pages too short to store are
  counted as done, and an older, longer text of theirs stays searchable (l.1786-1821).
- The trigger's guard and INSERT are two statements (`routes/sync.py:110`), so one connector can
  have two open runs. `EngineLimits` shows what still holds then.
- The portal's callback leaves `last_sync_status` out of its UPDATE when it equals what was loaded
  (`api/internal.py:738`): one of the causes `RunningIsBacked` names.
- `deprovision_org.py:9-12` says that a second request falls through to the 409; by slug it
  judges by a status read before the lock. `GoneIsClean` excludes what follows (`overlapped`).
- A tenant is left to people, with no retry that helps, when its rollback stopped in
  `failed_rollback_pending`; when a deletion of a tenant with `deleted_at` failed, since the
  endpoint that retries does not find it; when a leftover app, database user or repository
  stands in the way of the next attempt. A run stopped before its first step leaves
  `pending` or `queued`, which the detector does not look for.

`RunningIsBacked`, `RecordingsKept`, `SyncedIsSearchable`, `PointsAreOwned`, `UnchangedIsStored` and
`StoredIsRecorded` are stated with the exceptions the code really has (their history variables
name them): a callback sent once and lost, a run set aside without a callback; a commit that fails
after the recording was deleted; a late enrichment that opens a deleted upload again; a
checkpoint of an interrupted run that every later run still goes by. `RollbackIsComplete` and
`GoneIsClean` name theirs the same way. Each is a behaviour
of the code that a reader may want to change, and then the exception goes.
`AdmittedRunEnds` allows for unexpected exceptions, since after one a row is open until the
next restart.

## 7. Not modelled

Document contents, counters, error texts, tenant filters, retention. In klai-connector: images,
HubSpot support cases, the adapters' own traffic, the erasure of a tenant's rows. In
knowledge-ingest: graph episodes, parent chunks, taxonomy, how a large document's batches queue each
other, the removal of a docs page (points first, then the row), deletion and rebuild of a whole
knowledge base; for crawls, the second pass from the discovery seed, manual crawls, and the crawl
rows that a connector's purge deletes. In Scribe: summaries, the ingestion of transcripts, and the
janitor, which the service does not start. In the portal: creation and change of connectors, two
removals of one connector at once, the Moneybird subscription, a slug that another tenant takes,
uploads under way when a deletion begins. The other parts of section 1 are either planned (below),
stateless, or single-row request handlers.

## 8. Plan

The safety properties the runs check are all proved but `BatchesAreExact`. What is left is breadth:
the portal's uploads and meetings, each a poller beside a webhook on one row, as modules of their
own with their invariants.
