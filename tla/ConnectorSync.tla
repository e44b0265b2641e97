--------------------------- MODULE ConnectorSync ---------------------------
(***************************************************************************)
(* klai-connector's runs: the trigger route and the scheduler that open     *)
(* them, the engine that works on them, the SyncRunResolver and the         *)
(* SyncRunReaper that close the ones handed over to knowledge-ingest, and   *)
(* the sweep at startup; as environment, the crawl jobs at                  *)
(* knowledge-ingest.  Every await between two database statements or HTTP   *)
(* calls is a boundary between two actions.  PortalSync has the other end   *)
(* of the trigger call and of the callback.                                 *)
(*                                                                          *)
(* Abstracted: documents, counters and error texts; the tenant filters (a   *)
(* connector belongs to one tenant); time, of which only the two age limits *)
(* of the reaper are kept; the erasure of a whole tenant.                   *)
(***************************************************************************)
EXTENDS Naturals, FiniteSets

CONSTANTS
  Runs,            \* identities of sync_runs rows; a bound on how many runs there are
  Connectors,
  ConnectorOf,     \* the connector a row belongs to
  Delegated,       \* the web_crawler connectors: their work runs at knowledge-ingest
  Callers,         \* concurrent calls of the trigger route and firings of schedules
  Readers,         \* concurrent reads of runs, each through the one SyncRunResolver
  Reaper,          \* the SyncRunReaper
  MaxConcurrent,   \* the engine's global semaphore
  MaxCrashes,      \* bound: restarts of klai-connector
  MaxErrors        \* bound: exceptions no handler of the engine expects

ASSUME RunsAssumption == ConnectorOf \in [Runs -> Connectors] /\ Delegated \subseteq Connectors
ASSUME ReaperAssumption == Reaper \notin Readers
ASSUME BoundsAssumption == MaxConcurrent \in Nat \ {0} /\ MaxCrashes \in Nat /\ MaxErrors \in Nat

VARIABLES
  \* The database of klai-connector: connector.sync_runs
  status,          \* status[r]; "unused" before the INSERT
  handed,          \* rows whose cursor_state holds a remote_job_id
  age,             \* started_at against the reaper's limits: fresh, ripe (5 min), expired (7 days)
  \* The process of klai-connector
  opening,         \* the run a caller found no obstacle to and is about to insert
  task,            \* the background task of a run
  cache,           \* the resolver's cached status payload per run
  todo,            \* rows a finaliser has read and not yet handled
  found,           \* the verdict it is about to write
  owes,            \* the run whose verdict it wrote and has not yet reported
  job,             \* knowledge-ingest: knowledge.crawl_jobs
  told,            \* history: callbacks sent to the portal per run
  crashes, errors

rows == <<status, handed, age>>
finalising == <<cache, todo, found, owes>>
counters == <<crashes, errors>>
vars == <<rows, opening, task, finalising, job, told, counters>>

Verdicts == {"completed", "failed", "auth_error"}
Statuses == Verdicts \union {"unused", "running", "pending"}
Finalisers == Readers \union {Reaper}

JobStates == {"running", "completed", "failed", "cancelled"}
\* TERMINAL_REMOTE_CRAWL_STATUSES, failed and failed_partial being one
TerminalCrawl == {"completed", "failed"}
\* Mutant of VerdictOf: the remote status is written as it came.
RawVerdict(live) == live
\* Mutant of VerdictOf: whatever is not "failed" is taken for success.
LenientVerdict(live) == IF live = "failed" THEN "failed" ELSE "completed"
VerdictOf(live) == IF live = "completed" THEN "completed" ELSE "failed"

TaskStates ==
  {"none", "queued", "skipped", "waiting", "working", "posted", "owing", "reporting", "done"}
HoldsSlot == {"working", "posted", "owing", "reporting"}
HoldsLock == HoldsSlot \union {"waiting"}
\* A task in one of these may still write its row, without looking at its status first.
MayWrite == {"queued", "waiting", "working", "posted"}

RunsOf(c) == {r \in Runs : ConnectorOf[r] = c}
Siblings(r) == RunsOf(ConnectorOf[r]) \ {r}
Active(c) == \E r \in RunsOf(c) : status[r] = "running"
Fresh(c) == {r \in RunsOf(c) : status[r] = "unused" /\ \A k \in Callers : r \notin opening[k]}
\* The marker the resolver, the reaper and the startup sweep go by.
Resolvable(r) == status[r] = "running" /\ r \in handed

Init ==
  /\ status = [r \in Runs |-> "unused"]
  /\ handed = {}
  /\ age = [r \in Runs |-> "fresh"]
  /\ opening = [k \in Callers |-> {}]
  /\ task = [r \in Runs |-> "none"]
  /\ cache = [r \in Runs |-> "none"]
  /\ todo = [f \in Finalisers |-> {}]
  /\ found = [f \in Finalisers |-> {}]
  /\ owes = [f \in Finalisers |-> {}]
  /\ job = [r \in Runs |-> "none"]
  /\ told = [r \in Runs |-> 0]
  /\ crashes = 0 /\ errors = 0

(***************************************************************************)
(* Opening a run, from the route and from a schedule alike: the active-sync *)
(* guard and the INSERT are two statements of one READ COMMITTED            *)
(* transaction, and no constraint of the table backs the guard.             *)
(***************************************************************************)

\* The guard; when a run is active the call ends here (409, or a skipped firing).
CheckActive(k, c) ==
  /\ opening[k] = {}
  /\ ~Active(c)
  /\ \E r \in Fresh(c) : opening' = [opening EXCEPT ![k] = {r}]
  /\ UNCHANGED <<rows, task, finalising, job, told, counters>>

\* INSERT, COMMIT, and the background task that will call run_sync.
InsertRun(k) ==
  \E r \in opening[k] :
    /\ status' = [status EXCEPT ![r] = "running"]
    /\ task' = [task EXCEPT ![r] = "queued"]
    /\ opening' = [opening EXCEPT ![k] = {}]
    /\ UNCHANGED <<handed, age, finalising, job, told, counters>>

(***************************************************************************)
(* SyncEngine.run_sync.  lock.locked() and the acquisition of a free lock   *)
(* have no await between them; the semaphore is taken inside the lock.      *)
(***************************************************************************)
CloseRow(r, verdict) == status' = [status EXCEPT ![r] = verdict]
Send(r) == told' = [told EXCEPT ![r] = @ + 1]

Locked(c) == \E s \in RunsOf(c) : task[s] \in HoldsLock

\* Mutant of StartTask: the lock is not looked at.
StartAnyway(r) ==
  /\ task[r] = "queued"
  /\ task' = [task EXCEPT ![r] = "waiting"]
  /\ UNCHANGED <<rows, opening, finalising, job, told, counters>>

StartTask(r) ==
  /\ task[r] = "queued"
  /\ task' = [task EXCEPT ![r] = IF Locked(ConnectorOf[r]) THEN "skipped" ELSE "waiting"]
  /\ UNCHANGED <<rows, opening, finalising, job, told, counters>>

AcquireSlot(r) ==
  /\ task[r] = "waiting"
  /\ Cardinality({s \in Runs : task[s] \in HoldsSlot}) < MaxConcurrent
  /\ task' = [task EXCEPT ![r] = "working"]
  /\ UNCHANGED <<rows, opening, finalising, job, told, counters>>

\* The run ends inside the engine: an ordinary sync with its result, or any run whose
\* config fetch, config check or enqueue failed.  The row is written unconditionally.
EndRun(r) ==
  /\ task[r] = "working"
  /\ \E v \in IF ConnectorOf[r] \in Delegated THEN {"failed"} ELSE Verdicts : CloseRow(r, v)
  /\ task' = [task EXCEPT ![r] = "owing"]
  /\ UNCHANGED <<handed, age, opening, finalising, job, told, counters>>

\* POST /ingest/v1/crawl/sync took effect; its response is not here yet.
PostCrawl(r) ==
  /\ task[r] = "working"
  /\ ConnectorOf[r] \in Delegated
  /\ job' = [job EXCEPT ![r] = "running"]
  /\ task' = [task EXCEPT ![r] = "posted"]
  /\ UNCHANGED <<rows, opening, finalising, told, counters>>

\* The response names the job: remote_job_id is committed and the task is over.
HandOver(r) ==
  /\ task[r] = "posted"
  /\ handed' = handed \union {r}
  /\ task' = [task EXCEPT ![r] = "done"]
  /\ UNCHANGED <<status, age, opening, finalising, job, told, counters>>

\* The response does not come (httpx.HTTPError): FAILED, whatever the job does.
PostLost(r) ==
  /\ task[r] = "posted"
  /\ CloseRow(r, "failed")
  /\ task' = [task EXCEPT ![r] = "owing"]
  /\ UNCHANGED <<handed, age, opening, finalising, job, told, counters>>

\* An exception outside the handlers (a commit that fails, a body without job_id)
\* leaves run_sync: lock and semaphore are released, the row is not written.
TaskBreaks(r) ==
  /\ errors < MaxErrors
  /\ task[r] \in {"working", "posted"}
  /\ task' = [task EXCEPT ![r] = "done"]
  /\ errors' = errors + 1
  /\ UNCHANGED <<rows, opening, finalising, job, told, crashes>>

\* report_sync_status, awaited inside the lock; it returns by its timeout at the latest.
SendReport(r) ==
  /\ task[r] = "owing"
  /\ Send(r)
  /\ task' = [task EXCEPT ![r] = "reporting"]
  /\ UNCHANGED <<rows, opening, finalising, job, counters>>

ReportReturns(r) ==
  /\ task[r] = "reporting"
  /\ task' = [task EXCEPT ![r] = "done"]
  /\ UNCHANGED <<rows, opening, finalising, job, told, counters>>

(***************************************************************************)
(* knowledge-ingest: a crawl ends as its worker decides, or as an operator  *)
(* cancels it; the purge of a connector deletes the row (404 afterwards).   *)
(* The job, the cache entry and the age of a row that is closed change      *)
(* nothing any more and are followed no further.                            *)
(***************************************************************************)
CrawlEnds(r) ==
  /\ job[r] = "running" /\ status[r] = "running"
  /\ \E s \in JobStates \ {"running"} : job' = [job EXCEPT ![r] = s]
  /\ UNCHANGED <<rows, opening, task, finalising, told, counters>>

CrawlPurged(r) ==
  /\ job[r] \in JobStates /\ status[r] = "running"
  /\ job' = [job EXCEPT ![r] = "gone"]
  /\ UNCHANGED <<rows, opening, task, finalising, told, counters>>

(***************************************************************************)
(* Finalisers: any number of reads through SyncRunResolver, and the reaper. *)
(* Each reads rows, asks knowledge-ingest about one, and writes a verdict   *)
(* under SELECT ... FOR UPDATE after looking at the status again.           *)
(***************************************************************************)
Settled(f) == found[f] = {} /\ owes[f] = {}

ReadRuns(f) ==
  /\ f \in Readers
  /\ todo[f] = {} /\ Settled(f)
  /\ \E c \in Connectors :
       \E S \in SUBSET {r \in RunsOf(c) : Resolvable(r)} \ {{}} : todo' = [todo EXCEPT ![f] = S]
  /\ UNCHANGED <<rows, opening, task, cache, found, owes, job, told, counters>>

ReaperScan ==
  /\ todo[Reaper] = {} /\ Settled(Reaper)
  /\ \E r \in Runs : Resolvable(r) /\ age[r] # "fresh"
  /\ todo' = [todo EXCEPT ![Reaper] = {r \in Runs : Resolvable(r) /\ age[r] # "fresh"}]
  /\ UNCHANGED <<rows, opening, task, cache, found, owes, job, told, counters>>

\* The reader's payload comes from the cache while its entry lives; a 404 or an
\* unreachable service is not cached and leaves the row as it is.
ReaderAsks(f, r) ==
  /\ f \in Readers
  /\ r \in todo[f] /\ Settled(f)
  /\ LET live == IF cache[r] # "none" THEN cache[r] ELSE job[r]
     IN /\ live # "gone"
        /\ cache' = [cache EXCEPT ![r] = live]
        /\ found' = IF live \in TerminalCrawl
                    THEN [found EXCEPT ![f] = {<<r, VerdictOf(live)>>}] ELSE found
  /\ todo' = [todo EXCEPT ![f] = @ \ {r}]
  /\ UNCHANGED <<rows, opening, task, owes, job, told, counters>>

\* Mutant of ReaperAsks: an overdue job is waited for.
ReaperWaitsOn(r) ==
  /\ r \in todo[Reaper] /\ Settled(Reaper)
  /\ found' = IF job[r] \in TerminalCrawl \/ job[r] = "gone"
              THEN [found EXCEPT ![Reaper] = {<<r, VerdictOf(job[r])>>}] ELSE found
  /\ todo' = [todo EXCEPT ![Reaper] = @ \ {r}]
  /\ UNCHANGED <<rows, opening, task, cache, owes, job, told, counters>>

\* The reaper asks knowledge-ingest itself: a lost or an overdue job is a failure.
ReaperAsks(r) ==
  /\ r \in todo[Reaper] /\ Settled(Reaper)
  /\ found' = IF job[r] \in TerminalCrawl \/ job[r] = "gone" \/ age[r] = "expired"
              THEN [found EXCEPT ![Reaper] = {<<r, VerdictOf(job[r])>>}] ELSE found
  /\ todo' = [todo EXCEPT ![Reaper] = @ \ {r}]
  /\ UNCHANGED <<rows, opening, task, cache, owes, job, told, counters>>

\* The status call fails: the row is left for the next read or tick.
AskFails(f, r) ==
  /\ r \in todo[f] /\ Settled(f)
  /\ f \in Readers => cache[r] = "none"
  /\ todo' = [todo EXCEPT ![f] = @ \ {r}]
  /\ UNCHANGED <<rows, opening, task, cache, found, owes, job, told, counters>>

\* Mutant of Finalise: the status is not looked at again under the row lock.
FinaliseAnyway(f) ==
  \E d \in found[f] :
    /\ CloseRow(d[1], d[2])
    /\ owes' = [owes EXCEPT ![f] = {d[1]}]
    /\ found' = [found EXCEPT ![f] = {}]
    /\ UNCHANGED <<handed, age, opening, task, cache, todo, job, told, counters>>

Finalise(f) ==
  \E d \in found[f] :
    /\ status[d[1]] = "running"
    /\ CloseRow(d[1], d[2])
    /\ owes' = [owes EXCEPT ![f] = {d[1]}]
    /\ found' = [found EXCEPT ![f] = {}]
    /\ UNCHANGED <<handed, age, opening, task, cache, todo, job, told, counters>>

\* Someone else closed the row between the status call and the row lock.
FindClosed(f) ==
  \E d \in found[f] :
    /\ status[d[1]] # "running"
    /\ found' = [found EXCEPT ![f] = {}]
    /\ UNCHANGED <<rows, opening, task, cache, todo, owes, job, told, counters>>

ReportVerdict(f) ==
  \E r \in owes[f] :
    /\ Send(r)
    /\ owes' = [owes EXCEPT ![f] = {}]
    /\ UNCHANGED <<rows, opening, task, cache, todo, found, job, counters>>

CacheExpires(r) ==
  /\ cache[r] # "none" /\ status[r] = "running"
  /\ cache' = [cache EXCEPT ![r] = "none"]
  /\ UNCHANGED <<rows, opening, task, todo, found, owes, job, told, counters>>

Ages(r) ==
  /\ Resolvable(r) /\ age[r] # "expired"
  /\ age' = [age EXCEPT ![r] = IF @ = "fresh" THEN "ripe" ELSE "expired"]
  /\ UNCHANGED <<status, handed, opening, task, finalising, job, told, counters>>

(***************************************************************************)
(* klai-connector stops and starts.  The startup sweep is committed before  *)
(* the reaper, the scheduler or a route runs.                               *)
(***************************************************************************)
\* Mutant of Restart: the sweep sets every running row aside.
RestartSweepsAll ==
  /\ crashes < MaxCrashes
  /\ crashes' = crashes + 1
  /\ status' = [r \in Runs |-> IF status[r] = "running" THEN "pending" ELSE status[r]]
  /\ task' = [r \in Runs |-> IF task[r] = "none" THEN "none" ELSE "done"]
  /\ cache' = [r \in Runs |-> "none"]
  /\ todo' = [f \in Finalisers |-> {}]
  /\ found' = [f \in Finalisers |-> {}]
  /\ owes' = [f \in Finalisers |-> {}]
  /\ opening' = [k \in Callers |-> {}]
  /\ UNCHANGED <<handed, age, job, told, errors>>

Restart ==
  /\ crashes < MaxCrashes
  /\ crashes' = crashes + 1
  /\ status' = [r \in Runs |-> IF status[r] = "running" /\ r \notin handed
                               THEN "pending" ELSE status[r]]
  /\ task' = [r \in Runs |-> IF task[r] = "none" THEN "none" ELSE "done"]
  /\ cache' = [r \in Runs |-> "none"]
  /\ todo' = [f \in Finalisers |-> {}]
  /\ found' = [f \in Finalisers |-> {}]
  /\ owes' = [f \in Finalisers |-> {}]
  /\ opening' = [k \in Callers |-> {}]
  /\ UNCHANGED <<handed, age, job, told, errors>>

Work(r) == EndRun(r) \/ PostCrawl(r) \/ HandOver(r) \/ PostLost(r)

Engine(r) ==
  StartTask(r) \/ AcquireSlot(r) \/ Work(r) \/ TaskBreaks(r) \/ SendReport(r) \/ ReportReturns(r)

Resolve(f) ==
  \/ ReadRuns(f) \/ Finalise(f) \/ FindClosed(f) \/ ReportVerdict(f)
  \/ \E r \in Runs : ReaderAsks(f, r) \/ AskFails(f, r)

Next ==
  \/ \E k \in Callers : InsertRun(k) \/ \E c \in Connectors : CheckActive(k, c)
  \/ \E r \in Runs : Engine(r)
  \/ \E f \in Finalisers : Resolve(f)
  \/ ReaperScan \/ \E r \in Runs : ReaperAsks(r)
  \/ \E r \in Runs : CrawlEnds(r) \/ CrawlPurged(r) \/ CacheExpires(r) \/ Ages(r)
  \/ Restart

Spec == Init /\ [][Next]_vars

(***************************************************************************)
(* Fairness.  The event loop runs every ready task, every HTTP call ends by *)
(* its timeout, time passes, the reaper ticks every minute, and             *)
(* knowledge-ingest, asked again and again, answers once.  Nobody has to    *)
(* read, and no crawl has to end.  The steps of a run's task exclude each   *)
(* other, and so do the reaper's, so each has one condition.                *)
(***************************************************************************)
Advance(r) ==
  StartTask(r) \/ AcquireSlot(r) \/ Work(r) \/ SendReport(r) \/ ReportReturns(r)
ReaperMoves ==
  ReaperScan \/ Finalise(Reaper) \/ FindClosed(Reaper) \/ ReportVerdict(Reaper)

Fairness ==
  /\ \A r \in Runs : WF_vars(Advance(r)) /\ WF_vars(Ages(r)) /\ SF_vars(ReaperAsks(r))
  /\ WF_vars(ReaperMoves)

FairSpec == Spec /\ Fairness

(***************************************************************************)
(* Properties                                                               *)
(***************************************************************************)

\* Every variable stays in its domain.
TypeOK ==
  /\ status \in [Runs -> Statuses]
  /\ handed \subseteq Runs
  /\ age \in [Runs -> {"fresh", "ripe", "expired"}]
  /\ opening \in [Callers -> SUBSET Runs]
  /\ task \in [Runs -> TaskStates]
  /\ job \in [Runs -> JobStates \union {"none", "gone"}]
  /\ cache \in [Runs -> JobStates \union {"none"}]
  /\ todo \in [Finalisers -> SUBSET Runs]
  /\ found \in [Finalisers -> SUBSET (Runs \X {"completed", "failed"})]
  /\ owes \in [Finalisers -> SUBSET Runs]
  /\ told \in [Runs -> Nat]
  /\ crashes \in Nat /\ errors \in Nat

\* The engine works on one run of a connector at a time and on at most MaxConcurrent
\* runs in all (SyncEngine: "Max 3 concurrent global syncs", "Max 1 sync per connector").
EngineLimits ==
  /\ \A r \in Runs : \A s \in Siblings(r) : ~(task[r] \in HoldsLock /\ task[s] \in HoldsLock)
  /\ Cardinality({r \in Runs : task[r] \in HoldsSlot}) <= MaxConcurrent

\* Engine, resolver, reaper and startup sweep together keep the ledger's promises: a
\* row is closed once and for good, a handed-over row is never set aside, and whoever
\* closed it sends its verdict to the portal at most once.
Ledger == INSTANCE SyncLedger WITH Runs <- Runs, status <- status, handed <- handed, told <- told
LedgerSpec == Ledger!Spec

\* Why they can: while a task may still write its row, the row is open and no finaliser
\* can take it for resolvable; whoever owes a callback is alone in owing it; a row about
\* to be inserted is in one caller's hands; a finaliser only holds handed-over rows.
InDebt(r) == task[r] = "owing" \/ \E f \in Finalisers : r \in owes[f]
RowInv(r) ==
  /\ task[r] \in MayWrite => status[r] = "running" /\ r \notin handed
  /\ status[r] = "unused" => task[r] = "none" /\ r \notin handed
  /\ InDebt(r) => status[r] \in Verdicts /\ told[r] = 0
  /\ task[r] = "owing" => \A f \in Finalisers : r \notin owes[f]
  /\ \A f, g \in Finalisers : r \in owes[f] \intersect owes[g] => f = g
  /\ status[r] \in {"unused", "running", "pending"} => told[r] = 0
OpeningInv ==
  /\ \A k \in Callers : \A r \in opening[k] : status[r] = "unused"
  /\ \A k, l \in Callers : opening[k] \intersect opening[l] # {} => k = l
FinaliserInv ==
  \A f \in Finalisers : todo[f] \subseteq handed /\ \A d \in found[f] : d[1] \in handed
LedgerInv == (\A r \in Runs : RowInv(r)) /\ OpeningInv /\ FinaliserInv

\* The verdict written for a handed-over run is the crawl's own: completed only if the
\* job completed (or was purged after it had), failed only if the job did not complete,
\* was purged, or is overdue.  Cached payloads and late writers included.
HandedVerdictIsTheCrawls ==
  [][\A r \in handed :
       status[r] = "running" =>
         /\ status'[r] = "completed" => job[r] \in {"completed", "gone"}
         /\ status'[r] = "failed" => job[r] \in {"failed", "gone"} \/ age[r] = "expired"
    ]_vars

\* A run the engine took on ends, whether the crawl behind it ends or not, and whether
\* or not anybody reads it, restarts included; only an exception no handler expects can
\* leave it behind.
AdmittedRunEnds ==
  \A r \in Runs : task[r] = "waiting" ~> status[r] # "running" \/ errors > 0

\* routes/sync.py: "Returns 202 Accepted with the new SyncRun immediately; sync executes
\* in the background."
AcceptedRunExecutes == \A r \in Runs : task[r] = "queued" ~> task[r] = "working"
=============================================================================
