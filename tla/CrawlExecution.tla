--------------------------- MODULE CrawlExecution ---------------------------
(***************************************************************************)
(* knowledge-ingest's web crawls: rows of knowledge.crawl_jobs, the         *)
(* Procrastinate rows that carry them, the workers that execute them, and   *)
(* the points in Qdrant they write and retire.  A crawl survives deploys    *)
(* and hard kills: its frontier is checkpointed, each attempt takes a       *)
(* generation, and side effects run under an advisory lock.  A newer crawl  *)
(* of the same connector supersedes an older one through the connector      *)
(* fence and a best-effort cancellation.                                    *)
(*                                                                          *)
(* Abstracted: what a page says (content[p] and record[p] name a crawl that *)
(* found p saying this; whether a page has changed since is left open); the *)
(* discovery of URLs, the second pass from the discovery seed and the size  *)
(* of a batch (a checkpoint saves one page); page counters and the reasons  *)
(* of a failure (failed_partial is failed); the guarded totals and          *)
(* link-graph block, whose ways out are those of the first page's; the      *)
(* bulk-retire guard and failing vector deletes (any part of the stale      *)
(* paths may be retired); the deletion of the connector.                    *)
(***************************************************************************)
EXTENDS Naturals

CONSTANTS
  Jobs,            \* crawls of one connector
  Pages,           \* canonical URLs
  Site,            \* Site[j]: the pages the site serves crawl j
  Workers,         \* crawl slots of the worker lane
  Thin,            \* pages that may be found to say too little to be stored
  Stored,          \* pages an earlier crawl left searchable
  Stranded,        \* pages an earlier crawl left on record, their points deleted
  Earlier,         \* that crawl
  Nobody,
  MaxFaults,       \* bound: cancellations, kills, shutdowns, stalls, lost connections, exceptions
  MaxSharedFaults  \* the same, once a second crawl has been opened

ASSUME SiteAssumption ==
  Site \in [Jobs -> SUBSET Pages] /\ Thin \union Stored \union Stranded \subseteq Pages
ASSUME NamesAssumption ==
  Nobody \notin Jobs \union Workers /\ Earlier \notin Jobs \union {Nobody}
ASSUME FaultsAssumption == MaxFaults \in Nat /\ MaxSharedFaults \in Nat

VARIABLES
  status, gen, cancelReq,     \* crawl_jobs: status, execution_generation, cancel_requested
  fetched, missed,            \* crawl_job_frontier: pages fetched, pages that could not be
  observed,                   \* how often the rate-limit effect was applied (the marker: > 0)
  author,                     \* history: the generation that wrote progress or outcome last
  queue, aborting,            \* procrastinate_jobs: status, abort_requested
  lock,                       \* the crawl's session advisory lock
  fence,                      \* the connector's current generation: one crawl
  content,                    \* the points of a page: the version they hold
  record, artifacts,          \* crawled_pages, artifacts: the version of a page on record,
                              \* the pages whose artifact is active
  opening, prior,             \* POST /crawl/sync: its progress, the generation it read
  cancelCall,                 \* POST /crawl/sync/{job_id}/cancel
  run,                        \* what a worker is doing
  abandoned,                  \* history: a queue row closed under a crawl nobody will finish
  lost,                       \* history: pages that raised, or were skipped on an unknown fence
  passed,                     \* history: pages too short, or of a record without its points
  trespassed,                 \* history: pages a superseded crawl wrote or retired
  faults

contract == <<status, gen, cancelReq, observed, author>>
frontier == <<fetched, missed>>
procrastinate == <<queue, aborting>>
pages == <<content, record, artifacts, trespassed>>
connector == <<fence, pages>>
requests == <<opening, prior, cancelCall>>
history == <<abandoned, lost, passed>>
vars == <<contract, frontier, procrastinate, lock, connector, requests, run, history, faults>>

Outcomes == {"completed", "failed", "cancelled"}
Runnable == {"pending", "running"}
Entering == {"entering", "closing"}
Guarded == {"inPage", "stored", "listing", "retiring", "retired", "finishing"}
Claimed == {"fetching", "observing", "pages", "erring"} \union Entering \union Guarded
Idle == [pc |-> "idle"]
Attempts == [pc : {"started", "refused", "leaving"} \union Claimed, job : Jobs, owns : BOOLEAN,
             gen : Nat, stopped : BOOLEAN, left : SUBSET Pages, page : Pages \union {Nobody},
             trusts : BOOLEAN, done : BOOLEAN, failed : BOOLEAN,
             verdict : Outcomes \union {"none"}]

Busy(w) == run[w] # Idle
At(w, pcs) == Busy(w) /\ run[w].pc \in pcs
Job(w) == run[w].job
\* A row in "doing" whose worker is gone, or no longer sends its heartbeat.
Orphan(j) ==
  queue[j] = "doing" /\ \A w \in Workers : Busy(w) => ~(run[w].job = j /\ run[w].owns)
\* ensure_crawl_execution_active, and the condition of every checkpoint and outcome.
Current(w) == gen[Job(w)] = run[w].gen /\ status[Job(w)] = "running"
Free(j) == lock[j] = Nobody
Holds(w) == lock[Job(w)] = w
Moves(w, pc) == run' = [run EXCEPT ![w].pc = pc]
Unlocked(w) == [j \in Jobs |-> IF lock[j] = w THEN Nobody ELSE lock[j]]
Signs(w) == author' = [author EXCEPT ![Job(w)] = run[w].gen]
Opened == {j \in Jobs : opening[j] # "no"}
Alone == \A j, k \in Opened : j = k
Fault == faults < (IF Alone THEN MaxFaults ELSE MaxSharedFaults) /\ faults' = faults + 1

Init ==
  /\ status = [j \in Jobs |-> "none"] /\ gen = [j \in Jobs |-> 0] /\ cancelReq = {}
  /\ fetched = [j \in Jobs |-> {}] /\ missed = [j \in Jobs |-> {}]
  /\ observed = [j \in Jobs |-> 0] /\ author = [j \in Jobs |-> 0]
  /\ queue = [j \in Jobs |-> "none"] /\ aborting = {}
  /\ lock = [j \in Jobs |-> Nobody]
  /\ fence = Earlier
  /\ content = [p \in Pages |-> IF p \in Stored THEN Earlier ELSE Nobody]
  /\ artifacts = Stored \union Stranded
  /\ record = [p \in Pages |-> IF p \in artifacts THEN Earlier ELSE Nobody]
  /\ opening = [j \in Jobs |-> "no"] /\ prior = [j \in Jobs |-> Nobody]
  /\ cancelCall = [j \in Jobs |-> "no"]
  /\ run = [w \in Workers |-> Idle]
  /\ abandoned = {} /\ lost = {} /\ passed = {} /\ trespassed = {}
  /\ faults = 0

(***************************************************************************)
(* Requests                                                                 *)
(***************************************************************************)

\* POST /crawl/sync inserts the row, ...
Open(j) ==
  /\ status[j] = "none"
  /\ Opened = {} \/ faults <= MaxSharedFaults
  /\ status' = [status EXCEPT ![j] = "pending"]
  /\ opening' = [opening EXCEPT ![j] = "inserted"]
  /\ UNCHANGED <<gen, cancelReq, observed, author, frontier, procrastinate, lock, connector,
                 prior, cancelCall, run, history, faults>>

\* ... makes the crawl the connector's generation, remembering the one it replaces, ...
Activate(j) ==
  /\ opening[j] = "inserted"
  /\ prior' = [prior EXCEPT ![j] = fence]
  /\ fence' = j
  /\ opening' = [opening EXCEPT ![j] = "activated"]
  /\ UNCHANGED <<contract, frontier, procrastinate, lock, pages,
                 cancelCall, run, history, faults>>

\* cancel_job_by_id_async(abort=True): a waiting row is cancelled, a running one flagged.
QueueCancels(k) ==
  /\ queue' = IF queue[k] = "todo" THEN [queue EXCEPT ![k] = "over"] ELSE queue
  /\ aborting' = IF queue[k] = "doing" THEN aborting \union {k} ELSE aborting
  /\ abandoned' = IF queue[k] = "todo" THEN abandoned \union {k} ELSE abandoned

\* ... cancels that one's queue row, which may fail without anybody noticing, ...
CancelPrior(j) ==
  /\ opening[j] = "activated"
  /\ \/ prior[j] \in Jobs /\ QueueCancels(prior[j])
     \/ UNCHANGED <<procrastinate, abandoned>>
  /\ opening' = [opening EXCEPT ![j] = "deferring"]
  /\ UNCHANGED <<contract, frontier, lock, connector, prior, cancelCall, run, lost, passed,
                 faults>>

\* ... and defers the task.
Defer(j) ==
  /\ opening[j] = "deferring"
  /\ queue' = [queue EXCEPT ![j] = "todo"]
  /\ opening' = [opening EXCEPT ![j] = "over"]
  /\ UNCHANGED <<contract, frontier, aborting, lock, connector, prior, cancelCall, run,
                 history, faults>>

OpenFails(j) ==
  /\ opening[j] \in {"inserted", "activated", "deferring"}
  /\ Fault
  /\ opening' = [opening EXCEPT ![j] = "over"]
  /\ UNCHANGED <<contract, frontier, procrastinate, lock, connector, prior, cancelCall,
                 run, history>>

\* POST /crawl/sync/{job_id}/cancel looks for a live queue row, ...
CancelFinds(j) ==
  /\ cancelCall[j] = "no" /\ queue[j] \in {"todo", "doing"}
  /\ Fault
  /\ cancelCall' = [cancelCall EXCEPT ![j] = "found"]
  /\ UNCHANGED <<contract, frontier, procrastinate, lock, connector, opening, prior, run,
                 history>>

\* ... flags the crawl if it can still run, ...
CancelFlags(j) ==
  /\ cancelCall[j] = "found"
  /\ cancelReq' = IF status[j] \in Runnable THEN cancelReq \union {j} ELSE cancelReq
  /\ cancelCall' = [cancelCall EXCEPT ![j] = "flagged"]
  /\ UNCHANGED <<status, gen, observed, author, frontier, procrastinate, lock, connector,
                 opening,
                 prior, run, history, faults>>

\* ... and cancels the queue row, whatever has become of it.
CancelQueue(j) ==
  /\ cancelCall[j] = "flagged"
  /\ QueueCancels(j) \/ UNCHANGED <<procrastinate, abandoned>>
  /\ cancelCall' = [cancelCall EXCEPT ![j] = "over"]
  /\ UNCHANGED <<contract, frontier, lock, connector, opening, prior, run, lost, passed,
                 faults>>

(***************************************************************************)
(* The queue (Procrastinate)                                                *)
(***************************************************************************)

PickUp(w, j) ==
  /\ run[w] = Idle /\ queue[j] = "todo"
  /\ queue' = [queue EXCEPT ![j] = "doing"]
  /\ run' = [run EXCEPT ![w] =
       [pc |-> "started", job |-> j, owns |-> TRUE, gen |-> 0, stopped |-> FALSE, left |-> {},
        page |-> Nobody, trusts |-> FALSE, done |-> FALSE, failed |-> FALSE, verdict |-> "none"]]
  /\ UNCHANGED <<contract, frontier, aborting, lock, connector, requests, history, faults>>

\* Mutant of Requeued: a retry is the end of the row.
RequeuedNever(j) == [queue EXCEPT ![j] = IF @ # "doing" THEN @ ELSE "over"]

\* retry_job: back to "todo", or the end of a row whose abortion was asked.
Requeued(j) ==
  [queue EXCEPT ![j] = IF @ # "doing" THEN @ ELSE IF j \in aborting THEN "over" ELSE "todo"]

\* finish_job is by id: an attempt that no longer owns the row ends it all the same.
Closed(j) == [queue EXCEPT ![j] = IF @ \in {"todo", "doing"} THEN "over" ELSE @]

\* run_crawl returns; a superseded attempt returns too.
Return(w) ==
  /\ At(w, {"leaving"})
  /\ queue' = Closed(Job(w))
  /\ abandoned' = IF run[w].owns /\ run[w].gen = gen[Job(w)] THEN abandoned
                  ELSE abandoned \union {Job(w)}
  /\ run' = [run EXCEPT ![w] = Idle]
  /\ UNCHANGED <<contract, frontier, aborting, lock, connector, requests, lost, passed, faults>>

\* An exception leaves run_crawl: the cookies cannot be loaded, or the database is away
\* when the crawl is claimed, refused or failed.  Procrastinate retries only two others.
Escapes(w) ==
  /\ At(w, {"started", "refused", "erring"})
  /\ Fault
  /\ queue' = Closed(Job(w))
  /\ abandoned' = abandoned \union {Job(w)}
  /\ run' = [run EXCEPT ![w] = Idle]
  /\ UNCHANGED <<contract, frontier, aborting, lock, connector, requests, lost, passed>>

\* CrawlExecutionBusy and CancelledError are retried, without a limit.  retry_job is by
\* id too: whoever the row belonged to loses it.
Yields(w) ==
  /\ queue' = Requeued(Job(w))
  /\ run' = [x \in Workers |->
       IF x = w THEN Idle
       ELSE IF Busy(x) /\ run[x].job = Job(w) /\ queue[Job(w)] = "doing"
            THEN [run[x] EXCEPT !.owns = FALSE] ELSE run[x]]
  /\ lock' = Unlocked(w)

\* CancelledError: the worker shuts down, or carries out an abortion.
Interrupt(w) ==
  /\ At(w, {"started", "refused"} \union Claimed)
  /\ Fault \/ (Job(w) \in aborting /\ UNCHANGED faults)
  /\ Yields(w)
  /\ UNCHANGED <<contract, frontier, aborting, connector, requests, history>>

\* A hard kill: locks go with the connections, caches with the process.
Kill(w) ==
  /\ Busy(w)
  /\ Fault
  /\ run' = [run EXCEPT ![w] = Idle]
  /\ lock' = Unlocked(w)
  /\ UNCHANGED <<contract, frontier, procrastinate, connector, requests, history>>

\* The heartbeat of a worker that is only slow expires.
Stall(w) ==
  /\ Busy(w) /\ run[w].owns
  /\ Fault
  /\ run' = [run EXCEPT ![w].owns = FALSE]
  /\ UNCHANGED <<contract, frontier, procrastinate, lock, connector, requests, history>>

\* The minute-level recovery of stalled jobs.
Recover(j) ==
  /\ Orphan(j)
  /\ queue' = Requeued(j)
  /\ UNCHANGED <<contract, frontier, aborting, lock, connector, requests, run, history,
                 faults>>

(***************************************************************************)
(* One attempt: claim and fetch                                             *)
(***************************************************************************)

\* Mutant of Claim: the lock is not asked for.
ClaimAnyway(w) ==
  /\ At(w, {"started"})
  /\ status[Job(w)] \in Runnable /\ Job(w) \notin cancelReq
  /\ gen' = [gen EXCEPT ![Job(w)] = @ + 1]
  /\ status' = [status EXCEPT ![Job(w)] = "running"]
  /\ run' = [run EXCEPT ![w].pc = "fetching", ![w].gen = gen[Job(w)] + 1]
  /\ UNCHANGED <<cancelReq, observed, author, frontier, procrastinate, lock, connector,
                 requests,
                 history, faults>>

\* claim_crawl_execution, under the crawl's lock.
Claim(w) ==
  /\ At(w, {"started"}) /\ Free(Job(w))
  /\ status[Job(w)] \in Runnable /\ Job(w) \notin cancelReq
  /\ gen' = [gen EXCEPT ![Job(w)] = @ + 1]
  /\ status' = [status EXCEPT ![Job(w)] = "running"]
  /\ run' = [run EXCEPT ![w].pc = "fetching", ![w].gen = gen[Job(w)] + 1]
  /\ UNCHANGED <<cancelReq, observed, author, frontier, procrastinate, lock, connector,
                 requests, history, faults>>

ClaimRefused(w) ==
  /\ At(w, {"started"}) /\ Free(Job(w))
  /\ Job(w) \in cancelReq \/ status[Job(w)] \notin Runnable
  /\ Moves(w, IF Job(w) \in cancelReq THEN "refused" ELSE "leaving")
  /\ UNCHANGED <<contract, frontier, procrastinate, lock, connector, requests, history,
                 faults>>

\* Somebody holds the lock: when claiming, before a page, before the completion.  (Two
\* attempts that take the row from each other this way could go on for ever; that an
\* attempt does so to a row it has lost is bounded with the faults.)
LockBusy(w) ==
  /\ At(w, {"started"} \union Entering) /\ ~Free(Job(w))
  /\ IF run[w].owns THEN UNCHANGED faults ELSE Fault
  /\ Yields(w)
  /\ UNCHANGED <<contract, frontier, aborting, connector, requests, history>>

\* _update_job: without the lock and without a generation.
PublishCancelled(w) ==
  /\ At(w, {"refused"})
  /\ status' = IF status[Job(w)] \in Runnable THEN [status EXCEPT ![Job(w)] = "cancelled"]
               ELSE status
  /\ Moves(w, "leaving")
  /\ UNCHANGED <<gen, cancelReq, observed, author, frontier, procrastinate, lock, connector,
                 requests, history, faults>>

\* The frontier and the results have an order; which one does not matter here.
NextOf(S) == CHOOSE p \in S : TRUE

Unvisited(j) == Site[j] \ (fetched[j] \union missed[j])

\* A batch is fetched and its checkpoint saved.
Fetch(w) ==
  /\ At(w, {"fetching"}) /\ Current(w)
  /\ Unvisited(Job(w)) # {}
  /\ LET p == NextOf(Unvisited(Job(w))) IN
       \/ fetched' = [fetched EXCEPT ![Job(w)] = @ \union {p}] /\ UNCHANGED missed
       \/ missed' = [missed EXCEPT ![Job(w)] = @ \union {p}] /\ UNCHANGED fetched
  /\ Signs(w)
  /\ UNCHANGED <<status, gen, cancelReq, observed, procrastinate, lock, connector,
                 requests, run, history, faults>>

\* The frontier is done, or the cancellation is seen between two batches.
LeaveFetching(w) ==
  /\ At(w, {"fetching"})
  /\ Unvisited(Job(w)) = {} \/ Job(w) \in cancelReq
  /\ run' = [run EXCEPT ![w].pc = "observing", ![w].stopped = Unvisited(Job(w)) # {}]
  /\ UNCHANGED <<contract, frontier, procrastinate, lock, connector, requests, history,
                 faults>>

\* A checkpoint, the effect below or a lock's holder finds a newer generation, or a
\* crawl that has ended.
Superseded(w) ==
  /\ At(w, {"fetching", "observing"} \union Entering) /\ ~Current(w)
  /\ At(w, Entering) => Free(Job(w))
  /\ Moves(w, "leaving")
  /\ UNCHANGED <<contract, frontier, procrastinate, lock, connector, requests, history,
                 faults>>

\* Mutant of Observe: no marker.
ObserveAgain(w) ==
  /\ At(w, {"observing"}) /\ Current(w)
  /\ observed' = [observed EXCEPT ![Job(w)] = @ + 1] /\ Signs(w)
  /\ run' = [run EXCEPT ![w].pc = "pages", ![w].left = fetched[Job(w)]]
  /\ UNCHANGED <<status, gen, cancelReq, frontier, procrastinate, lock, connector, requests,
                 history, faults>>

\* Mutant of Observe: the marker is taken to mean that the pages are done too.
ObserveAndForget(w) ==
  /\ At(w, {"observing"}) /\ Current(w)
  /\ IF observed[Job(w)] = 0
     THEN observed' = [observed EXCEPT ![Job(w)] = @ + 1] /\ Signs(w)
     ELSE UNCHANGED <<observed, author>>
  /\ run' = [run EXCEPT ![w].pc = "pages",
       ![w].left = IF observed[Job(w)] = 0 THEN fetched[Job(w)] ELSE {}]
  /\ UNCHANGED <<status, gen, cancelReq, frontier, procrastinate, lock, connector, requests,
                 history, faults>>

\* _apply_domain_rate_limit_effect_once: the marker is set with the effect.
Observe(w) ==
  /\ At(w, {"observing"}) /\ Current(w)
  /\ IF observed[Job(w)] = 0
     THEN observed' = [observed EXCEPT ![Job(w)] = @ + 1] /\ Signs(w)
     ELSE UNCHANGED <<observed, author>>
  /\ run' = [run EXCEPT ![w].pc = "pages", ![w].left = fetched[Job(w)]]
  /\ UNCHANGED <<status, gen, cancelReq, frontier, procrastinate, lock, connector,
                 requests, history, faults>>

(***************************************************************************)
(* One attempt: pages                                                       *)
(***************************************************************************)

\* The fence lets a page through, asked, or remembered for as long as the answer is
\* cached (an entry lives five seconds; it may be used or have expired here) ...
FencePasses(w) ==
  /\ At(w, {"pages"}) /\ run[w].left # {}
  /\ fence = Job(w) \/ run[w].trusts
  /\ LET p == NextOf(run[w].left) IN
       run' = [run EXCEPT ![w].pc = "entering", ![w].page = p, ![w].left = @ \ {p},
                          ![w].trusts = TRUE]
  /\ UNCHANGED <<contract, frontier, procrastinate, lock, connector, requests, history, faults>>

Skip(w, p) == run' = [run EXCEPT ![w].left = @ \ {p}, ![w].trusts = FALSE]

\* ... or has the page skipped: another crawl is the connector's generation by now.
FenceSkips(w) ==
  /\ At(w, {"pages"}) /\ run[w].left # {}
  /\ fence # Job(w)
  /\ Skip(w, NextOf(run[w].left))
  /\ UNCHANGED <<contract, frontier, procrastinate, lock, connector, requests, history, faults>>

\* The lookup fails; that answer skips the page too, and is not counted a failure.
FenceUnknown(w) ==
  /\ At(w, {"pages"}) /\ run[w].left # {}
  /\ Fault
  /\ Skip(w, NextOf(run[w].left))
  /\ lost' = lost \union {<<Job(w), NextOf(run[w].left)>>}
  /\ UNCHANGED <<contract, frontier, procrastinate, lock, connector, requests, abandoned,
                 passed>>

\* guard_crawl_execution around one page.
EnterPage(w) ==
  /\ At(w, {"entering"}) /\ Free(Job(w)) /\ Current(w)
  /\ lock' = [lock EXCEPT ![Job(w)] = w]
  /\ Moves(w, "inPage")
  /\ UNCHANGED <<contract, frontier, procrastinate, connector, requests, history, faults>>

Trespass(w, S) ==
  trespassed' = IF fence = Job(w) THEN trespassed ELSE trespassed \union S

PageDone(w) == run' = [run EXCEPT ![w].pc = "stored", ![w].done = TRUE]

\* _ingest_crawl_result: also when the lock went with its connection.  What a crawl has
\* recorded itself it finds unchanged.
IngestPage(w) ==
  /\ At(w, {"inPage"}) /\ record[run[w].page] # Job(w)
  /\ content' = [content EXCEPT ![run[w].page] = Job(w)]
  /\ record' = [record EXCEPT ![run[w].page] = Job(w)]
  /\ artifacts' = artifacts \union {run[w].page}
  /\ Trespass(w, {run[w].page})
  /\ PageDone(w)
  /\ UNCHANGED <<contract, frontier, procrastinate, lock, fence, requests, history, faults>>

PassesOver(w) == passed' = passed \union {<<Job(w), run[w].page>>}

\* A page with an active artifact says what is on record of it: nothing is stored, nobody
\* looks for its points.
SkipUnchanged(w) ==
  /\ At(w, {"inPage"}) /\ record[run[w].page] # Nobody /\ run[w].page \in artifacts
  /\ IF content[run[w].page] = record[run[w].page]
     THEN /\ content' = [content EXCEPT ![run[w].page] = Job(w)]
          /\ Trespass(w, {run[w].page}) /\ UNCHANGED passed
     ELSE PassesOver(w) /\ UNCHANGED <<content, trespassed>>
  /\ record' = [record EXCEPT ![run[w].page] = Job(w)]
  /\ PageDone(w)
  /\ UNCHANGED <<contract, frontier, procrastinate, lock, fence, artifacts, requests,
                 abandoned, lost, faults>>

\* A page below the floor of content, or short and much like others, is not stored either;
\* what was stored of it before stays.
SkipShort(w) ==
  /\ At(w, {"inPage"}) /\ run[w].page \in Thin /\ record[run[w].page] # Job(w)
  /\ PassesOver(w)
  /\ PageDone(w)
  /\ UNCHANGED <<contract, frontier, procrastinate, lock, connector, requests, abandoned,
                 lost, faults>>

\* It raises, or meets a login wall: the page counts as failed.  Its artifact may be there,
\* its points too, and be recorded.
PageRaises(w) ==
  /\ At(w, {"inPage"})
  /\ Fault
  /\ \/ UNCHANGED pages
     \/ /\ artifacts' = artifacts \union {run[w].page}
        /\ UNCHANGED <<content, record, trespassed>>
     \/ /\ artifacts' = artifacts \union {run[w].page}
        /\ content' = [content EXCEPT ![run[w].page] = Job(w)]
        /\ record' \in {record, [record EXCEPT ![run[w].page] = Job(w)]}
        /\ Trespass(w, {run[w].page})
  /\ run' = [run EXCEPT ![w].pc = "stored", ![w].failed = TRUE]
  /\ lost' = lost \union {<<Job(w), run[w].page>>}
  /\ UNCHANGED <<contract, frontier, procrastinate, lock, fence, requests, abandoned, passed>>

\* Progress is written and the lock given back.
LeavePage(w) ==
  /\ At(w, {"stored"}) /\ Holds(w)
  /\ IF Current(w) THEN Signs(w) ELSE UNCHANGED author
  /\ lock' = Unlocked(w)
  /\ run' = [run EXCEPT ![w].pc = "pages", ![w].page = Nobody]
  /\ UNCHANGED <<status, gen, cancelReq, observed, frontier, procrastinate, connector,
                 requests, history, faults>>

(***************************************************************************)
(* One attempt: completion                                                  *)
(***************************************************************************)

\* Mutant of VerdictsOf: a cancelled crawl gets a status nobody else knows.
VerdictsMisspelt(w) ==
  IF run[w].stopped THEN {"canceled"}
  ELSE IF missed[Job(w)] = {} /\ ~run[w].failed THEN {"completed"}
  ELSE IF run[w].failed /\ ~run[w].done THEN {"failed"}
  ELSE {"completed", "failed"}

\* A cancellation outranks everything; a crawl with pages missed or failed may still be
\* called completed, unless nothing was ingested and something raised.
VerdictsOf(w) ==
  IF run[w].stopped THEN {"cancelled"}
  ELSE IF missed[Job(w)] = {} /\ ~run[w].failed THEN {"completed"}
  ELSE IF run[w].failed /\ ~run[w].done THEN {"failed"}
  ELSE {"completed", "failed"}

PagesDone(w) ==
  /\ At(w, {"pages"}) /\ run[w].left = {}
  /\ \E v \in VerdictsOf(w) : run' = [run EXCEPT ![w].pc = "closing", ![w].verdict = v]
  /\ UNCHANGED <<contract, frontier, procrastinate, lock, connector, requests, history,
                 faults>>

\* Mutant of Reconciles: pages that could not be fetched do not matter.
ReconcilesAlways(w) == run[w].verdict = "completed" /\ run[w].done

Reconciles(w) == run[w].verdict = "completed" /\ run[w].done /\ missed[Job(w)] = {}

EnterCompletion(w) ==
  /\ At(w, {"closing"}) /\ Free(Job(w)) /\ Current(w)
  /\ lock' = [lock EXCEPT ![Job(w)] = w]
  /\ Moves(w, IF Reconciles(w) THEN "listing" ELSE "finishing")
  /\ UNCHANGED <<contract, frontier, procrastinate, connector, requests, history, faults>>

\* list_stale_connector_artifact_paths: whichever crawl stored them.
ListStale(w) ==
  /\ At(w, {"listing"}) /\ Holds(w)
  /\ run' = [run EXCEPT ![w].pc = "retiring",
       ![w].left = artifacts \ fetched[Job(w)]]
  /\ UNCHANGED <<contract, frontier, procrastinate, lock, connector, requests, history,
                 faults>>

\* delete_document for each, the bulk guard and failures leaving some; a delete that is
\* carried out and not answered counts as failed.  No lock is asked.
RetirePoints(w) ==
  /\ At(w, {"retiring"})
  /\ \E S \in SUBSET run[w].left : \E T \in SUBSET S :
       /\ IF T = S THEN UNCHANGED faults ELSE Fault
       /\ content' = [p \in Pages |-> IF p \in S THEN Nobody ELSE content[p]]
       /\ Trespass(w, S)
       /\ run' = [run EXCEPT ![w].pc = IF T = {} THEN "finishing" ELSE "retired",
                          ![w].left = T]
  /\ UNCHANGED <<contract, frontier, procrastinate, lock, fence, record, artifacts, requests,
                 history>>

\* soft_delete_stale_connector_artifacts: then what is on record of them, in a transaction.
RetireRecords(w) ==
  /\ At(w, {"retired"}) /\ Holds(w)
  /\ artifacts' = artifacts \ run[w].left
  /\ record' = [p \in Pages |-> IF p \in run[w].left THEN Nobody ELSE record[p]]
  /\ run' = [run EXCEPT ![w].pc = "finishing", ![w].left = {}]
  /\ UNCHANGED <<contract, frontier, procrastinate, lock, fence, content, trespassed, requests,
                 history, faults>>

\* finish_crawl_execution, as the last step of the guarded block.
FinishCrawl(w) ==
  /\ At(w, {"finishing"}) /\ Holds(w)
  /\ IF Current(w) THEN status' = [status EXCEPT ![Job(w)] = run[w].verdict] /\ Signs(w)
     ELSE UNCHANGED <<status, author>>
  /\ lock' = Unlocked(w)
  /\ Moves(w, "leaving")
  /\ UNCHANGED <<gen, cancelReq, observed, frontier, procrastinate, connector, requests,
                 history, faults>>

\* The connection that carries the lock is lost; what is under way goes on ...
Drop(w) ==
  /\ Busy(w) /\ Holds(w)
  /\ Fault
  /\ lock' = Unlocked(w)
  /\ UNCHANGED <<contract, frontier, procrastinate, connector, requests, run, history>>

\* ... until the connection is used.
ConnectionLost(w) ==
  /\ At(w, {"stored", "listing", "retired", "finishing"}) /\ ~Holds(w)
  /\ Moves(w, "erring")
  /\ UNCHANGED <<contract, frontier, procrastinate, lock, connector, requests, history,
                 faults>>

\* Any other exception, the authenticated login wall among them, gives the lock back.
Breaks(w) ==
  /\ At(w, Claimed \ {"erring"})
  /\ Fault
  /\ lock' = Unlocked(w)
  /\ Moves(w, "erring")
  /\ UNCHANGED <<contract, frontier, procrastinate, connector, requests, history>>

\* finish_if_current(status="failed"): fenced by the generation, not by the lock.
FailCrawl(w) ==
  /\ At(w, {"erring"})
  /\ IF Current(w) THEN status' = [status EXCEPT ![Job(w)] = "failed"] /\ Signs(w)
     ELSE UNCHANGED <<status, author>>
  /\ Moves(w, "leaving")
  /\ UNCHANGED <<gen, cancelReq, observed, frontier, procrastinate, lock, connector,
                 requests, history, faults>>

Request(j) ==
  \/ Open(j) \/ Activate(j) \/ CancelPrior(j) \/ Defer(j) \/ OpenFails(j)
  \/ CancelFinds(j) \/ CancelFlags(j) \/ CancelQueue(j)

\* What a worker does by itself once it has a job.
Progress(w) ==
  \/ Claim(w) \/ ClaimRefused(w) \/ LockBusy(w) \/ PublishCancelled(w)
  \/ Fetch(w) \/ LeaveFetching(w) \/ Superseded(w) \/ Observe(w)
  \/ FencePasses(w) \/ FenceSkips(w) \/ EnterPage(w) \/ IngestPage(w)
  \/ SkipUnchanged(w) \/ SkipShort(w) \/ LeavePage(w) \/ PagesDone(w) \/ EnterCompletion(w)
  \/ ListStale(w) \/ RetirePoints(w) \/ RetireRecords(w) \/ FinishCrawl(w) \/ ConnectionLost(w)
  \/ FailCrawl(w) \/ Return(w)

Failure(w) ==
  \/ Escapes(w) \/ Interrupt(w) \/ Kill(w) \/ Stall(w) \/ Drop(w) \/ Breaks(w)
  \/ FenceUnknown(w) \/ PageRaises(w)

Next ==
  \/ \E j \in Jobs : Request(j) \/ Recover(j)
  \/ \E w \in Workers : Progress(w) \/ Failure(w)
  \/ \E w \in Workers, j \in Jobs : PickUp(w, j)

Spec == Init /\ [][Next]_vars

\* A worker goes on with its job, the queue hands rows out in order, the periodic
\* recovery runs.  Requests, failures and caches are owed no progress.
FairSpec ==
  /\ Spec
  /\ \A w \in Workers : WF_vars(Progress(w))
  /\ \A j \in Jobs : SF_vars(\E w \in Workers : PickUp(w, j)) /\ WF_vars(Recover(j))

(***************************************************************************)
(* Properties                                                               *)
(***************************************************************************)

TypeOK ==
  /\ status \in [Jobs -> {"none"} \union Runnable \union Outcomes]
  /\ gen \in [Jobs -> Nat] /\ author \in [Jobs -> Nat] /\ observed \in [Jobs -> Nat]
  /\ fetched \in [Jobs -> SUBSET Pages] /\ missed \in [Jobs -> SUBSET Pages]
  /\ queue \in [Jobs -> {"none", "todo", "doing", "over"}]
  /\ cancelReq \subseteq Jobs /\ aborting \subseteq Jobs /\ abandoned \subseteq Jobs
  /\ lock \in [Jobs -> Workers \union {Nobody}]
  /\ fence \in Jobs \union {Earlier}
  /\ content \in [Pages -> Jobs \union {Earlier, Nobody}] /\ trespassed \subseteq Pages
  /\ record \in [Pages -> Jobs \union {Earlier, Nobody}] /\ artifacts \subseteq Pages
  /\ opening \in [Jobs -> {"no", "inserted", "activated", "deferring", "over"}]
  /\ prior \in [Jobs -> Jobs \union {Earlier, Nobody}]
  /\ cancelCall \in [Jobs -> {"no", "found", "flagged", "over"}]
  /\ run \in [Workers -> Attempts \union {Idle}]
  /\ lost \subseteq Jobs \X Pages /\ passed \subseteq Jobs \X Pages
  /\ faults \in Nat

\* "Recovery cannot advance the generation halfway through a guarded block" (AC-5): who
\* holds a crawl's lock is its newest attempt, and inside such a block.
GuardedBlocksAreOwned ==
  \A j \in Jobs, w \in Workers :
    lock[j] = w => At(w, Guarded) /\ run[w].job = j /\ run[w].gen = gen[j]

\* A crawl is executed as CrawlContract says, whatever happens to its workers.
Contract == INSTANCE CrawlContract
             WITH Jobs <- Jobs, status <- status, gen <- gen, cancelReq <- cancelReq,
                  observed <- observed, author <- author
ImplementsContract == Contract!Spec

\* A completed crawl that is still the connector's generation has every page it fetched
\* searchable, however many attempts it took, except pages that raised, that it found too
\* short to store, or that it took for unchanged by a record that does not go with the points
\* (which a crawl leaves that ends, or fails, between writing the one and the other).
CompletedIsStored ==
  \A j \in Jobs : status[j] = "completed" /\ fence = j =>
    \A p \in fetched[j] :
      content[p] = j \/ <<j, p>> \in lost \union passed \/ p \in trespassed

\* Points are retired only by a crawl that has seen the whole site, and never those of a
\* page the site served it: neither a failed fetch, a cancellation nor a recovery that
\* starts from the checkpoint makes a page look stale.
ServedPagesKept ==
  [][\A p \in Pages : content[p] # Nobody /\ content'[p] = Nobody =>
       \E w \in Workers : At(w, {"retiring"}) /\ p \notin Site[Job(w)]
    ]_vars

\* A crawl that was queued ends, through kills, stalls, shutdowns and busy locks, unless
\* somebody cancelled it, or its queue row was closed under it.
QueuedCrawlEnds ==
  \A j \in Jobs :
    queue[j] = "todo" ~>
      status[j] \in Outcomes \/ j \in cancelReq \union aborting \union abandoned

\* list_stale_connector_artifact_paths: "Return active connector artifact paths absent
\* from the latest crawl result set."
LatestCrawlKept ==
  [][\A p \in Pages : content[p] \in Jobs /\ content[p] = fence => content'[p] # Nobody]_vars
=============================================================================
