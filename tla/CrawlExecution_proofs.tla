----------------------- MODULE CrawlExecution_proofs -----------------------
(* What the execution of crawls guarantees for any number of crawls, pages, workers and
   faults. *)
EXTENDS CrawlExecution, TLAPS

\* What comes of a page the crawl has entered.
HandlesPage(w) == IngestPage(w) \/ SkipUnchanged(w) \/ SkipShort(w) \/ PageRaises(w)

AfterFetch == {"observing", "pages"} \union Entering \union Guarded
PageWork == AfterFetch \ {"observing"}
Completing == {"closing", "listing", "retiring", "retired", "finishing"}

\* A claimed attempt has a generation of its own, at most its crawl's.
AttemptInv ==
  \A w \in Workers :
    /\ Busy(w) => run[w].gen <= gen[Job(w)]
    /\ At(w, Claimed) => run[w].gen > 0
    /\ \A v \in Workers : Busy(w) /\ Busy(v) /\ Job(v) = Job(w) /\ run[v].gen = run[w].gen
                          /\ run[w].gen > 0 => v = w

\* An attempt that enters a page knows which.
PageNamed == \A w \in Workers : At(w, {"entering", "inPage"}) => run[w].page \in Pages

\* Who is refused was cancelled; who completes has a verdict; the effect is applied once.
OutcomeInv ==
  /\ \A w \in Workers :
       /\ At(w, {"refused"}) => Job(w) \in cancelReq
       /\ At(w, Completing) => run[w].verdict \in Outcomes
  /\ \A j \in Jobs : observed[j] \in {0, 1}

\* An attempt that was not stopped has visited the whole site, and one that looks for stale
\* pages was answered for every page of it.
SiteInv ==
  /\ \A j \in Jobs : fetched[j] \subseteq Site[j]
  /\ \A w \in Workers :
       /\ At(w, AfterFetch) /\ ~run[w].stopped => Unvisited(Job(w)) = {}
       /\ At(w, Completing) /\ run[w].verdict = "completed" => ~run[w].stopped
       /\ At(w, {"listing", "retiring"}) => Site[Job(w)] \subseteq fetched[Job(w)]
       /\ At(w, {"retiring"}) => run[w].left \intersect Site[Job(w)] = {}

\* A crawl becomes the connector's generation before it is queued, and so at most once.
FenceInv ==
  \A j \in Jobs :
    /\ status[j] = "none" => opening[j] = "no"
    /\ opening[j] \in {"no", "inserted"} =>
         /\ status[j] \in {"none", "pending"} /\ queue[j] = "none" /\ fence # j
         /\ \A w \in Workers : Busy(w) => Job(w) # j

\* The pages an attempt has still to store.
Pending(w) ==
  IF run[w].pc \in {"pages", "stored"} THEN run[w].left
  ELSE IF run[w].pc \in {"entering", "inPage"} THEN run[w].left \union {run[w].page}
  ELSE {}

Kept(j, p) == content[p] = j \/ <<j, p>> \in lost \union passed \/ p \in trespassed

\* Of what a crawl has fetched, its newest attempt has stored all but what it has yet to do.
StoredInv ==
  /\ \A w \in Workers :
       At(w, PageWork) /\ run[w].gen = gen[Job(w)] /\ fence = Job(w) =>
         \A p \in fetched[Job(w)] : p \in Pending(w) \/ Kept(Job(w), p)
  /\ CompletedIsStored

CrawlInv ==
  /\ GuardedBlocksAreOwned /\ AttemptInv /\ PageNamed /\ OutcomeInv
  /\ SiteInv /\ FenceInv /\ StoredInv
-----------------------------------------------------------------------------
(* What a step changes *)

USE SiteAssumption, NamesAssumption, FaultsAssumption
DEF contract, frontier, procrastinate, pages, connector, requests, history, Job, Outcomes,
   Runnable

Slots == [Workers -> Attempts \union {Idle}]

\* A busy worker has an attempt, and its fields have their types.
LEMMA Fields ==
  ASSUME run \in Slots, NEW w \in Workers, Busy(w)
  PROVE  /\ run[w] \in Attempts /\ Job(w) \in Jobs /\ run[w].gen \in Nat
         /\ run[w].left \subseteq Pages /\ run[w].page \in Pages \union {Nobody}
         /\ run[w].verdict \in Outcomes \union {"none"}
         /\ run[w].stopped \in BOOLEAN /\ run[w].done \in BOOLEAN /\ run[w].failed \in BOOLEAN
         /\ run[w].owns \in BOOLEAN
BY DEF Slots, Attempts, Busy

\* The queue row of an attempt may change hands under it; nothing else does.
Alike(x) ==
  /\ Busy(x)' <=> Busy(x)
  /\ Busy(x) => /\ run'[x].pc = run[x].pc /\ run'[x].job = run[x].job
                /\ run'[x].gen = run[x].gen /\ run'[x].stopped = run[x].stopped
                /\ run'[x].left = run[x].left /\ run'[x].page = run[x].page
                /\ run'[x].verdict = run[x].verdict

\* The way of an attempt through its program counters, a part for every set of them an
\* invariant speaks of: how the attempt got there, and what it brought along.
Walk(w) ==
  /\ Busy(w)
  /\ \A x \in Workers \ {w} : Alike(x)
  /\ Busy(w)' => run'[w].job = run[w].job /\ (Claim(w) \/ run'[w].gen = run[w].gen)
  /\ At(w, Claimed)' => At(w, Claimed) \/ Claim(w)
  /\ At(w, {"refused"})' => At(w, {"refused"}) \/ Job(w) \in cancelReq
  /\ At(w, AfterFetch)' =>
       LeaveFetching(w) \/ (At(w, AfterFetch) /\ run'[w].stopped = run[w].stopped)
  /\ At(w, Completing)' =>
       PagesDone(w) \/ (At(w, Completing) /\ run'[w].verdict = run[w].verdict)
  /\ At(w, PageWork)' => Observe(w) \/ At(w, PageWork)
  /\ At(w, {"listing"})' => (EnterCompletion(w) /\ Reconciles(w)) \/ At(w, {"listing"})
  /\ At(w, {"retiring"})' =>
       ListStale(w) \/ (At(w, {"retiring"}) /\ run'[w].left = run[w].left)
  /\ At(w, {"entering", "inPage"})' =>
       FencePasses(w) \/ (At(w, {"entering", "inPage"}) /\ run'[w].page = run[w].page)
  /\ At(w, Guarded) /\ Holds(w) => At(w, Guarded)' \/ lock' = Unlocked(w)

\* A worker that makes a step has a job.
LEMMA WorkersAreBusy ==
  ASSUME NEW w \in Workers, Progress(w) \/ Failure(w)
  PROVE  Busy(w)
BY DEF Progress, Failure, At, Claim, ClaimRefused, LockBusy, PublishCancelled, Fetch,
  LeaveFetching, Superseded, Observe, FencePasses, FenceSkips, EnterPage, IngestPage,
  SkipUnchanged, SkipShort, LeavePage, PagesDone, EnterCompletion, ListStale, RetirePoints,
  RetireRecords, FinishCrawl, ConnectionLost, FailCrawl, Return, Escapes, Interrupt, Kill, Stall,
  Drop, Breaks, FenceUnknown, PageRaises

\* Every step of a worker is such a way.
LEMMA Walks ==
  ASSUME run \in Slots, NEW w \in Workers, Progress(w) \/ Failure(w)
  PROVE  Walk(w)
<1> USE DEF Walk, Alike, At, Busy, Idle, AfterFetch, PageWork, Completing, Claimed, Entering,
            Guarded
<1>0. Busy(w)
  BY WorkersAreBusy
<1>1. CASE Claim(w)
  BY <1>0, <1>1, Fields DEF Claim, Attempts, Slots
<1>2. CASE ClaimRefused(w) \/ PublishCancelled(w)
  BY <1>0, <1>2, Fields DEF ClaimRefused, PublishCancelled, Moves, Attempts, Slots
<1>3. CASE LockBusy(w) \/ Interrupt(w)
  BY <1>0, <1>3, Fields DEF LockBusy, Interrupt, Yields, Attempts, Slots
<1>4. CASE Fetch(w) \/ Drop(w)
  BY <1>0, <1>4, Fields DEF Fetch, Drop, Attempts, Slots
<1>5. CASE LeaveFetching(w)
  BY <1>0, <1>5, Fields DEF LeaveFetching, Attempts, Slots
<1>6. CASE Superseded(w) \/ ConnectionLost(w) \/ FailCrawl(w)
  BY <1>0, <1>6, Fields DEF Superseded, ConnectionLost, FailCrawl, Moves, Attempts, Slots
<1>7. CASE Observe(w)
  BY <1>0, <1>7, Fields DEF Observe, Attempts, Slots
<1>8. CASE FencePasses(w)
  BY <1>0, <1>8, Fields DEF FencePasses, Attempts, Slots
<1>9. CASE FenceSkips(w) \/ FenceUnknown(w)
  BY <1>0, <1>9, Fields DEF FenceSkips, FenceUnknown, Skip, Attempts, Slots
<1>10. CASE EnterPage(w)
  BY <1>0, <1>10, Fields DEF EnterPage, Moves, Attempts, Slots
<1>11. CASE HandlesPage(w)
  <2>1. /\ run'[w].pc = "stored" /\ run'[w].job = run[w].job /\ run'[w].gen = run[w].gen
        /\ run'[w].stopped = run[w].stopped /\ run'[w].left = run[w].left
        /\ run'[w].page = run[w].page /\ run'[w].verdict = run[w].verdict
    BY <1>0, <1>11, Fields DEF HandlesPage, IngestPage, SkipUnchanged, SkipShort, PageDone,
       PassesOver, PageRaises, Attempts, Slots
  <2>2. \A x \in Workers \ {w} : run'[x] = run[x]
    BY <1>11 DEF HandlesPage, IngestPage, SkipUnchanged, SkipShort, PageDone, PassesOver,
       PageRaises, Slots
  <2>3. run[w].pc = "inPage"
    BY <1>11 DEF HandlesPage, IngestPage, SkipUnchanged, SkipShort, PageDone, PassesOver,
       PageRaises
  <2> QED
    BY <1>0, <2>1, <2>2, <2>3
<1>12. CASE LeavePage(w)
  BY <1>0, <1>12, Fields DEF LeavePage, Attempts, Slots
<1>13. CASE PagesDone(w)
  <2>1. /\ run'[w].pc = "closing" /\ run'[w].job = run[w].job /\ run'[w].gen = run[w].gen
        /\ run'[w].stopped = run[w].stopped /\ run'[w].left = run[w].left
        /\ run'[w].page = run[w].page
    BY <1>0, <1>13, Fields DEF PagesDone, Attempts, Slots
  <2>2. \A x \in Workers \ {w} : run'[x] = run[x]
    BY <1>13 DEF PagesDone, Slots
  <2>3. run[w].pc = "pages"
    BY <1>13 DEF PagesDone
  <2> QED
    BY <1>0, <1>13, <2>1, <2>2, <2>3
<1>14. CASE EnterCompletion(w)
  BY <1>0, <1>14, Fields DEF EnterCompletion, Moves, Attempts, Slots
<1>15. CASE ListStale(w) \/ RetirePoints(w) \/ RetireRecords(w)
  <2>1. /\ ListStale(w) \/ run'[w].pc \in {"retired", "finishing"}
        /\ run'[w].pc \in {"retiring", "retired", "finishing"}
        /\ run'[w].job = run[w].job /\ run'[w].gen = run[w].gen
        /\ run'[w].stopped = run[w].stopped /\ run'[w].page = run[w].page
        /\ run'[w].verdict = run[w].verdict
    BY <1>0, <1>15, Fields DEF ListStale, RetirePoints, RetireRecords, Attempts, Slots
  <2>2. \A x \in Workers \ {w} : run'[x] = run[x]
    BY <1>15 DEF ListStale, RetirePoints, RetireRecords, Slots
  <2>3. run[w].pc \in {"listing", "retiring", "retired"}
    BY <1>15 DEF ListStale, RetirePoints, RetireRecords
  <2> QED
    BY <1>0, <1>15, <2>1, <2>2, <2>3
<1>16. CASE FinishCrawl(w) \/ Breaks(w)
  BY <1>0, <1>16, Fields DEF FinishCrawl, Breaks, Moves, Attempts, Slots
<1>17. CASE Return(w) \/ Escapes(w) \/ Kill(w)
  BY <1>0, <1>17, Fields DEF Return, Escapes, Kill, Attempts, Slots
<1>18. CASE Stall(w)
  BY <1>0, <1>18, Fields DEF Stall, Attempts, Slots
<1> QED
  BY <1>1, <1>2, <1>3, <1>4, <1>5, <1>6, <1>7, <1>8, <1>9, <1>10, <1>11, <1>12, <1>13, <1>14,
     <1>15, <1>16, <1>17, <1>18 DEF Progress, Failure, HandlesPage

\* Which actions of a worker write what.
LEMMA Works ==
  ASSUME NEW w \in Workers, Progress(w) \/ Failure(w)
  PROVE  /\ UNCHANGED <<cancelReq, requests, fence>>
         /\ Claim(w) \/ UNCHANGED gen
         /\ Fetch(w) \/ UNCHANGED frontier
         /\ Observe(w) \/ UNCHANGED observed
         /\ \/ Claim(w) \/ PublishCancelled(w) \/ FinishCrawl(w) \/ FailCrawl(w)
            \/ UNCHANGED status
         /\ \/ HandlesPage(w) \/ RetirePoints(w)
            \/ UNCHANGED <<content, trespassed>>
         /\ EnterPage(w) \/ EnterCompletion(w) \/ lock' \in {lock, Unlocked(w)}
         /\ lost \subseteq lost' /\ passed \subseteq passed'
         /\ queue' \in {queue, Requeued(Job(w)), Closed(Job(w))}
<1> USE DEF Progress, Failure, Claim, ClaimRefused, LockBusy, PublishCancelled, Fetch,
      LeaveFetching, Superseded, Observe, FencePasses, FenceSkips, EnterPage, HandlesPage,
      IngestPage, SkipUnchanged, SkipShort, PageDone, PassesOver, LeavePage, PagesDone,
      EnterCompletion, ListStale, RetirePoints, RetireRecords, FinishCrawl, ConnectionLost,
      FailCrawl, Return, Escapes, Interrupt, Kill, Stall, Drop, Breaks, FenceUnknown,
      PageRaises, Yields
<1>1. UNCHANGED <<cancelReq, requests, fence>>
  OBVIOUS
<1>2. Claim(w) \/ UNCHANGED gen
  OBVIOUS
<1>3. Fetch(w) \/ UNCHANGED frontier
  OBVIOUS
<1>4. Observe(w) \/ UNCHANGED observed
  OBVIOUS
<1>5. Claim(w) \/ PublishCancelled(w) \/ FinishCrawl(w) \/ FailCrawl(w) \/ UNCHANGED status
  OBVIOUS
<1>6. HandlesPage(w) \/ RetirePoints(w) \/ UNCHANGED <<content, trespassed>>
  OBVIOUS
<1>7. EnterPage(w) \/ EnterCompletion(w) \/ lock' \in {lock, Unlocked(w)}
  OBVIOUS
<1>8. lost \subseteq lost' /\ passed \subseteq passed'
  OBVIOUS
<1>9. queue' \in {queue, Requeued(Job(w)), Closed(Job(w))}
  OBVIOUS
<1> QED
  BY <1>1, <1>2, <1>3, <1>4, <1>5, <1>6, <1>7, <1>8, <1>9

\* Which requests write what; the periodic recovery writes the queue alone.
LEMMA Asks ==
  ASSUME NEW j \in Jobs, Request(j) \/ Recover(j)
  PROVE  /\ UNCHANGED <<gen, observed, author, frontier, lock, content, trespassed, run, lost,
                     passed>>
         /\ Open(j) \/ UNCHANGED status
         /\ Activate(j) \/ UNCHANGED fence
         /\ cancelReq \subseteq cancelReq'
BY DEF Request, Open, Activate, CancelPrior, Defer, OpenFails, CancelFinds, CancelFlags,
  CancelQueue, Recover

-----------------------------------------------------------------------------
(* Types *)

\* The next of some pages is one of them.
LEMMA NextOfIn == ASSUME NEW S, S # {} PROVE NextOf(S) \in S
BY DEF NextOf

\* What the actions make of an attempt is an attempt.
LEMMA Updates ==
  ASSUME NEW a \in Attempts
  PROVE  /\ \A pc \in {"refused", "leaving"} \union Claimed : [a EXCEPT !.pc = pc] \in Attempts
         /\ \A g \in Nat : [a EXCEPT !.pc = "fetching", !.gen = g] \in Attempts
         /\ \A b \in BOOLEAN : [a EXCEPT !.pc = "observing", !.stopped = b] \in Attempts
         /\ \A pc \in {"pages", "retiring", "retired", "finishing"}, L \in SUBSET Pages :
              [a EXCEPT !.pc = pc, !.left = L] \in Attempts
         /\ \A p \in Pages, L \in SUBSET Pages :
              [a EXCEPT !.pc = "entering", !.page = p, !.left = L, !.trusts = TRUE] \in Attempts
         /\ \A L \in SUBSET Pages : [a EXCEPT !.left = L, !.trusts = FALSE] \in Attempts
         /\ [a EXCEPT !.pc = "stored", !.done = TRUE] \in Attempts
         /\ [a EXCEPT !.pc = "stored", !.failed = TRUE] \in Attempts
         /\ [a EXCEPT !.pc = "pages", !.page = Nobody] \in Attempts
         /\ \A v \in Outcomes : [a EXCEPT !.pc = "closing", !.verdict = v] \in Attempts
         /\ [a EXCEPT !.owns = FALSE] \in Attempts
<1> USE DEF Attempts
<1>1. \A pc \in {"refused", "leaving"} \union Claimed : [a EXCEPT !.pc = pc] \in Attempts
  OBVIOUS
<1>2. {"fetching", "observing", "pages", "retiring", "retired", "finishing", "entering", "stored",
      "closing"}
        \subseteq Claimed
  BY DEF Claimed, Entering, Guarded
<1>3. /\ \A g \in Nat : [a EXCEPT !.pc = "fetching", !.gen = g] \in Attempts
      /\ \A b \in BOOLEAN : [a EXCEPT !.pc = "observing", !.stopped = b] \in Attempts
  BY <1>2
<1>4. \A pc \in {"pages", "retiring", "retired", "finishing"}, L \in SUBSET Pages :
        [a EXCEPT !.pc = pc, !.left = L] \in Attempts
  BY <1>2
<1>5. /\ \A p \in Pages, L \in SUBSET Pages :
           [a EXCEPT !.pc = "entering", !.page = p, !.left = L, !.trusts = TRUE] \in Attempts
      /\ \A L \in SUBSET Pages : [a EXCEPT !.left = L, !.trusts = FALSE] \in Attempts
  BY <1>2
<1>6. /\ [a EXCEPT !.pc = "stored", !.done = TRUE] \in Attempts
      /\ [a EXCEPT !.pc = "stored", !.failed = TRUE] \in Attempts
      /\ [a EXCEPT !.pc = "pages", !.page = Nobody] \in Attempts
  BY <1>2
<1>7. \A v \in Outcomes : [a EXCEPT !.pc = "closing", !.verdict = v] \in Attempts
  BY <1>2
<1>8. [a EXCEPT !.owns = FALSE] \in Attempts
  OBVIOUS
<1> HIDE DEF Attempts
<1> QED
  BY <1>1, <1>3, <1>4, <1>5, <1>6, <1>7, <1>8

\* Every step leaves a worker idle or with an attempt.
LEMMA RunTypes == ASSUME TypeOK, [Next]_vars PROVE run' \in Slots
<1>0. /\ run \in Slots /\ gen \in [Jobs -> Nat] /\ fetched \in [Jobs -> SUBSET Pages]
      /\ artifacts \subseteq Pages
  BY DEF TypeOK, Slots
<1>1. ASSUME NEW w \in Workers, Progress(w) \/ Failure(w) PROVE run' \in Slots
  <2>0. Busy(w)
    BY <1>1, WorkersAreBusy
  <2>1. CASE Claim(w)
    <3>1. gen[Job(w)] + 1 \in Nat
      BY <1>0, <2>0, Fields
    <3> QED
      BY <1>0, <2>0, <2>1, <3>1, Fields, Updates DEF Claim, Slots
  <2>2. CASE \/ ClaimRefused(w) \/ PublishCancelled(w) \/ Superseded(w) \/ EnterPage(w)
             \/ EnterCompletion(w) \/ FinishCrawl(w) \/ ConnectionLost(w) \/ Breaks(w)
             \/ FailCrawl(w)
    <3>1. PICK pc \in {"refused", "leaving"} \union Claimed : Moves(w, pc)
      BY <2>2
      DEF ClaimRefused, PublishCancelled, Superseded, EnterPage, EnterCompletion, FinishCrawl,
          ConnectionLost, Breaks, FailCrawl, Claimed, Guarded
    <3> QED
      BY <1>0, <2>0, <3>1, Fields, Updates DEF Moves, Slots
  <2>3. CASE Fetch(w) \/ Drop(w)
    BY <1>0, <2>3 DEF Fetch, Drop
  <2>4. CASE Return(w) \/ Escapes(w) \/ Kill(w)
    BY <1>0, <2>4 DEF Return, Escapes, Kill, Slots
  <2>5. CASE LockBusy(w) \/ Interrupt(w)
    <3>1. \A x \in Workers : Busy(x) => [run[x] EXCEPT !.owns = FALSE] \in Attempts
      BY <1>0, Fields, Updates
    <3> QED
      BY <1>0, <2>5, <3>1 DEF LockBusy, Interrupt, Yields, Slots
  <2>6. CASE LeaveFetching(w)
    BY <1>0, <2>0, <2>6, Fields, Updates DEF LeaveFetching, Slots
  <2>7. CASE Observe(w)
    <3>1. fetched[Job(w)] \in SUBSET Pages
      BY <1>0, <2>0, Fields
    <3> QED
      BY <1>0, <2>0, <2>7, <3>1, Fields, Updates DEF Observe, Slots
  <2>8. CASE FencePasses(w)
    <3>1. PICK p \in run[w].left :
            run' = [run EXCEPT ![w].pc = "entering", ![w].page = p, ![w].left = @ \ {p},
                               ![w].trusts = TRUE]
      BY <2>8, NextOfIn DEF FencePasses
    <3>2. run[w] \in Attempts /\ p \in Pages /\ run[w].left \ {p} \in SUBSET Pages
      BY <1>0, <2>0, <3>1, Fields
    <3> QED
      BY <1>0, <3>1, <3>2, Updates DEF Slots
  <2>9. CASE FenceSkips(w) \/ FenceUnknown(w)
    <3>1. PICK p : run' = [run EXCEPT ![w].left = @ \ {p}, ![w].trusts = FALSE]
      BY <2>9 DEF FenceSkips, FenceUnknown, Skip
    <3>2. run[w] \in Attempts /\ run[w].left \ {p} \in SUBSET Pages
      BY <1>0, <2>0, Fields
    <3> QED
      BY <1>0, <3>1, <3>2, Updates DEF Slots
  <2>10. CASE IngestPage(w) \/ SkipUnchanged(w) \/ SkipShort(w)
    <3>1. PageDone(w)
      BY <2>10 DEF IngestPage, SkipUnchanged, SkipShort
    <3> QED
      BY <1>0, <2>0, <3>1, Fields, Updates DEF PageDone, Slots
  <2>11. CASE PageRaises(w)
    BY <1>0, <2>0, <2>11, Fields, Updates DEF PageRaises, Slots
  <2>12. CASE LeavePage(w)
    BY <1>0, <2>0, <2>12, Fields, Updates DEF LeavePage, Slots
  <2>13. CASE PagesDone(w)
    <3>1. PICK v \in VerdictsOf(w) : run' = [run EXCEPT ![w].pc = "closing", ![w].verdict = v]
      BY <2>13 DEF PagesDone
    <3>2. v \in Outcomes
      BY DEF VerdictsOf
    <3> QED
      BY <1>0, <2>0, <3>1, <3>2, Fields, Updates DEF Slots
  <2>14. CASE ListStale(w)
    BY <1>0, <2>0, <2>14, Fields, Updates DEF ListStale, Slots
  <2>15. CASE RetirePoints(w) \/ RetireRecords(w)
    <3>1. PICK pc \in {"retired", "finishing"}, T \in SUBSET Pages :
            run' = [run EXCEPT ![w].pc = pc, ![w].left = T]
      <4>1. run[w].left \subseteq Pages
        BY <1>0, <2>0, Fields
      <4>2. CASE RetirePoints(w)
        <5>1. PICK T \in SUBSET run[w].left :
                run' = [run EXCEPT ![w].pc = IF T = {} THEN "finishing" ELSE "retired",
                                   ![w].left = T]
          BY <4>2 DEF RetirePoints
        <5> QED
          BY <4>1, <5>1
      <4>3. CASE RetireRecords(w)
        BY <4>3 DEF RetireRecords
      <4> QED
        BY <2>15, <4>2, <4>3
    <3> QED
      BY <1>0, <2>0, <3>1, Fields, Updates DEF Slots
  <2>16. CASE Stall(w)
    BY <1>0, <2>0, <2>16, Fields, Updates DEF Stall, Slots
  <2> QED
    BY <1>1, <2>1, <2>2, <2>3, <2>4, <2>5, <2>6, <2>7, <2>8, <2>9, <2>10, <2>11, <2>12, <2>13,
       <2>14, <2>15, <2>16 DEF Progress, Failure
<1>2. ASSUME NEW w \in Workers, NEW j \in Jobs, PickUp(w, j) PROVE run' \in Slots
  BY <1>0, <1>2 DEF PickUp, Attempts, Idle, Slots
<1>3. ASSUME NEW j \in Jobs, Request(j) \/ Recover(j) PROVE run' \in Slots
  BY <1>0, <1>3, Asks
<1>4. CASE UNCHANGED vars
  BY <1>0, <1>4 DEF vars
<1> QED
  BY <1>1, <1>2, <1>3, <1>4 DEF Next

\* Every step keeps the types; that a page has a name when it is stored takes PageNamed.
LEMMA TypesPreserved ==
  ASSUME TypeOK, PageNamed, [Next]_vars
  PROVE  TypeOK'
<1> USE DEF TypeOK, Slots, Fault
<1>0. run' \in Slots
  BY RunTypes
<1>1. ASSUME NEW w \in Workers, Progress(w) \/ Failure(w) PROVE TypeOK'
  <2>0. Job(w) \in Jobs /\ run[w].gen \in Nat /\ run[w].left \subseteq Pages
        /\ run[w].verdict \in Outcomes \union {"none"}
    BY <1>1, WorkersAreBusy, Fields
  <2>1. CASE Claim(w)
    BY <1>0, <2>0, <2>1 DEF Claim
  <2>2. CASE \/ ClaimRefused(w) \/ LeaveFetching(w) \/ Superseded(w) \/ FencePasses(w)
             \/ FenceSkips(w) \/ PagesDone(w) \/ ListStale(w) \/ ConnectionLost(w) \/ Stall(w)
    BY <1>0, <2>2
    DEF ClaimRefused, LeaveFetching, Superseded, FencePasses, FenceSkips, PagesDone, ListStale,
        ConnectionLost, Stall
  <2>3. CASE LockBusy(w) \/ Interrupt(w)
    BY <1>0, <2>0, <2>3 DEF LockBusy, Interrupt, Yields, Requeued, Unlocked
  <2>4. CASE PublishCancelled(w)
    BY <1>0, <2>0, <2>4 DEF PublishCancelled
  <2>5. CASE Fetch(w)
    BY <1>0, <2>0, <2>5 DEF Fetch, Signs, Unvisited, NextOf
  <2>6. CASE Observe(w)
    <3>1. /\ author' \in [Jobs -> Nat]
          /\ observed' = observed \/ observed' = [observed EXCEPT ![Job(w)] = @ + 1]
      BY <2>0, <2>6 DEF Observe, Signs
    <3> QED
      BY <1>0, <2>6, <3>1 DEF Observe
  <2>7. CASE EnterPage(w) \/ EnterCompletion(w)
    BY <1>0, <2>7 DEF EnterPage, EnterCompletion
  <2>8. CASE HandlesPage(w)
    <3> DEFINE p == run[w].page
    <3>1. p \in Pages
      BY <2>8 DEF HandlesPage, IngestPage, SkipUnchanged, SkipShort, PageRaises, PageNamed, At
    <3>2. /\ content' = content \/ content' = [content EXCEPT ![p] = Job(w)]
          /\ record' = record \/ record' = [record EXCEPT ![p] = Job(w)]
          /\ artifacts' = artifacts \/ artifacts' = artifacts \union {p}
          /\ trespassed' = trespassed \/ trespassed' = trespassed \union {p}
          /\ lost' = lost \/ lost' = lost \union {<<Job(w), p>>}
          /\ passed' = passed \/ passed' = passed \union {<<Job(w), p>>}
          /\ faults' = faults \/ faults' = faults + 1
      BY <2>8 DEF HandlesPage, IngestPage, SkipUnchanged, SkipShort, PassesOver, PageRaises,
         Trespass
    <3>3. UNCHANGED <<contract, frontier, procrastinate, lock, fence, requests, abandoned>>
      BY <2>8 DEF HandlesPage, IngestPage, SkipUnchanged, SkipShort, PageRaises
    <3> HIDE DEF p
    <3>4. /\ content' \in [Pages -> Jobs \union {Earlier, Nobody}]
          /\ record' \in [Pages -> Jobs \union {Earlier, Nobody}]
          /\ trespassed' \subseteq Pages /\ artifacts' \subseteq Pages
          /\ lost' \subseteq Jobs \X Pages /\ passed' \subseteq Jobs \X Pages
          /\ faults' \in Nat
      BY <2>0, <3>1, <3>2
    <3> QED
      BY <1>0, <3>3, <3>4
  <2>9. CASE LeavePage(w)
    BY <1>0, <2>0, <2>9 DEF LeavePage, Unlocked, Signs
  <2>10. CASE RetirePoints(w)
    BY <1>0, <2>0, <2>10 DEF RetirePoints, Trespass
  <2>11. CASE FinishCrawl(w)
    BY <1>0, <2>0, <2>11 DEF FinishCrawl, Unlocked, Signs
  <2>12. CASE FailCrawl(w)
    BY <1>0, <2>0, <2>12 DEF FailCrawl, Signs
  <2>13. CASE Return(w) \/ Escapes(w)
    BY <1>0, <2>0, <2>13 DEF Return, Escapes, Closed
  <2>14. CASE Kill(w) \/ Drop(w) \/ Breaks(w)
    BY <1>0, <2>14 DEF Kill, Drop, Breaks, Unlocked
  <2>15. CASE FenceUnknown(w)
    BY <1>0, <2>0, <2>15 DEF FenceUnknown, NextOf
  <2>16. CASE RetireRecords(w)
    BY <1>0, <2>0, <2>16 DEF RetireRecords
  <2> QED
    BY <1>1, <2>1, <2>2, <2>3, <2>4, <2>5, <2>6, <2>7, <2>8, <2>9, <2>10, <2>11, <2>12, <2>13,
       <2>14, <2>15, <2>16 DEF Progress, Failure, HandlesPage
<1>2. ASSUME NEW j \in Jobs, Request(j) \/ Recover(j) PROVE TypeOK'
  <2>1. CASE Open(j) \/ Activate(j) \/ OpenFails(j) \/ CancelFinds(j) \/ CancelFlags(j)
    BY <1>0, <2>1 DEF Open, Activate, OpenFails, CancelFinds, CancelFlags
  <2>2. CASE CancelPrior(j) \/ CancelQueue(j)
    BY <1>0, <2>2 DEF CancelPrior, CancelQueue, QueueCancels
  <2>3. CASE Defer(j) \/ Recover(j)
    BY <1>0, <2>3 DEF Defer, Recover, Requeued
  <2> QED
    BY <1>2, <2>1, <2>2, <2>3 DEF Request
<1>3. ASSUME NEW w \in Workers, NEW j \in Jobs, PickUp(w, j) PROVE TypeOK'
  BY <1>0, <1>3 DEF PickUp
<1>4. CASE UNCHANGED vars
  BY <1>4 DEF vars
<1> QED
  BY <1>1, <1>2, <1>3, <1>4 DEF Next


-----------------------------------------------------------------------------
(* The invariant *)

\* A lock is taken for the newest attempt, a claim takes a free lock's crawl, and what leaves
\* a guarded block gives the lock back.
LEMMA GuardsPreserved ==
  ASSUME TypeOK, GuardedBlocksAreOwned, [Next]_vars
  PROVE  GuardedBlocksAreOwned'
<1>0. run \in Slots /\ lock \in [Jobs -> Workers \union {Nobody}] /\ gen \in [Jobs -> Nat]
  BY DEF TypeOK, Slots
<1>1. ASSUME NEW w \in Workers, Progress(w) \/ Failure(w) PROVE GuardedBlocksAreOwned'
  <2>1. Walk(w)
    BY <1>0, <1>1, Walks
  <2>2. SUFFICES ASSUME NEW j \in Jobs, NEW x \in Workers, lock'[j] = x
                 PROVE  At(x, Guarded)' /\ run'[x].job = j /\ run'[x].gen = gen'[j]
    BY DEF GuardedBlocksAreOwned
  <2>3. CASE EnterPage(w) \/ EnterCompletion(w)
    <3>1. gen' = gen /\ lock' = [lock EXCEPT ![Job(w)] = w] /\ Free(Job(w)) /\ Current(w)
      BY <2>3 DEF EnterPage, EnterCompletion
    <3>2. At(w, Guarded)' /\ run'[w].job = run[w].job /\ run'[w].gen = run[w].gen
      <4>1. Busy(w) /\ run'[w].pc \in Guarded /\ run'[w].job = run[w].job
            /\ run'[w].gen = run[w].gen
        BY <1>0, <2>1, <2>3, Fields
        DEF Walk, EnterPage, EnterCompletion, Moves, Guarded, Slots, Attempts
      <4> QED
        BY <4>1 DEF At, Busy, Idle, Guarded
    <3>3. CASE x = w
      BY <1>0, <2>1, <2>2, <3>1, <3>2, <3>3, Fields
     
      DEF GuardedBlocksAreOwned, At, Guarded, Current, EnterPage, EnterCompletion, Entering,
          Walk
    <3>4. CASE x # w
      BY <1>0, <2>1, <2>2, <3>1, <3>4, Fields DEF GuardedBlocksAreOwned, At, Alike, Walk
    <3> QED
      BY <3>3, <3>4
  <2>4. CASE lock' \in {lock, Unlocked(w)}
    <3>1. lock[j] = x /\ (x = w => lock' # Unlocked(w))
      BY <1>0, <2>2, <2>4 DEF Unlocked
    <3>2. At(x, Guarded) /\ run[x].job = j /\ run[x].gen = gen[j]
      BY <3>1 DEF GuardedBlocksAreOwned
    <3>3. gen'[j] = gen[j]
      BY <1>0, <1>1, <3>1, Works, Fields DEF Claim, Free, Walk
    <3>4. CASE x = w
      BY <2>1, <3>1, <3>2, <3>3, <3>4 DEF Walk, Holds, Claim, At, Guarded
    <3>5. CASE x # w
      BY <2>1, <3>1, <3>2, <3>3, <3>5 DEF Walk, Alike, At
    <3> QED
      BY <3>4, <3>5
  <2> QED
    BY <1>1, <2>3, <2>4, Works
<1>2. ASSUME NEW j \in Jobs, Request(j) \/ Recover(j) PROVE GuardedBlocksAreOwned'
  BY <1>2, Asks DEF GuardedBlocksAreOwned, At, Busy
<1>3. ASSUME NEW w \in Workers, NEW j \in Jobs, PickUp(w, j) PROVE GuardedBlocksAreOwned'
  BY <1>0, <1>3 DEF PickUp, GuardedBlocksAreOwned, At, Busy, Slots
<1>4. CASE UNCHANGED vars
  BY <1>4 DEF vars, GuardedBlocksAreOwned, At, Busy
<1> QED
  BY <1>1, <1>2, <1>3, <1>4 DEF Next

\* A claim makes a generation that no attempt has had.
LEMMA AttemptsPreserved ==
  ASSUME TypeOK, AttemptInv, [Next]_vars
  PROVE  AttemptInv'
<1>0. run \in Slots /\ gen \in [Jobs -> Nat]
  BY DEF TypeOK, Slots
<1>1. ASSUME NEW w \in Workers, Progress(w) \/ Failure(w) PROVE AttemptInv'
  <2>1. Walk(w)
    BY <1>0, <1>1, Walks
  <2>2. CASE Claim(w)
    <3>1. Busy(w) /\ run'[w].gen = gen[Job(w)] + 1 /\ run'[w].job = run[w].job
          /\ gen' = [gen EXCEPT ![Job(w)] = @ + 1]
      BY <1>0, <2>1, <2>2, Fields DEF Claim, Walk, Slots, Attempts
    <3> QED
      BY <1>0, <2>1, <3>1, Fields DEF AttemptInv, Walk, Alike, At, Busy
  <2>3. CASE ~Claim(w)
    <3>1. gen' = gen
      BY <1>1, <2>3, Works
    <3> QED
      BY <1>0, <2>1, <2>3, <3>1, Fields DEF AttemptInv, Walk, Alike, At, Busy
  <2> QED
    BY <2>2, <2>3
<1>2. ASSUME NEW j \in Jobs, Request(j) \/ Recover(j) PROVE AttemptInv'
  BY <1>2, Asks DEF AttemptInv, At, Busy
<1>3. ASSUME NEW w \in Workers, NEW j \in Jobs, PickUp(w, j) PROVE AttemptInv'
  <2>1. run'[w].gen = 0 /\ run'[w].pc = "started" /\ run'[w].job = j /\ gen' = gen
    BY <1>0, <1>3 DEF PickUp, Slots
  <2>2. \A x \in Workers \ {w} : run'[x] = run[x]
    BY <1>0, <1>3 DEF PickUp, Slots
  <2> QED
    BY <1>0, <2>1, <2>2 DEF AttemptInv, At, Busy, Claimed, Guarded, Entering
<1>4. CASE UNCHANGED vars
  BY <1>4 DEF vars, AttemptInv, At, Busy
<1> QED
  BY <1>1, <1>2, <1>3, <1>4 DEF Next

\* A verdict is given when the pages are done, and the marker is set with the effect.
LEMMA OutcomesPreserved ==
  ASSUME TypeOK, OutcomeInv, [Next]_vars
  PROVE  OutcomeInv'
<1>0. run \in Slots /\ observed \in [Jobs -> Nat]
  BY DEF TypeOK, Slots
<1>1. ASSUME NEW w \in Workers, Progress(w) \/ Failure(w) PROVE OutcomeInv'
  <2>1. Walk(w) /\ UNCHANGED cancelReq
    BY <1>0, <1>1, Walks, Works
  <2>2. ASSUME NEW x \in Workers, At(x, {"refused"})' PROVE Job(x)' \in cancelReq
    BY <2>1, <2>2 DEF OutcomeInv, Walk, Alike, At
  <2>3. ASSUME NEW x \in Workers, At(x, Completing)' PROVE run'[x].verdict \in Outcomes
    <3>1. CASE PagesDone(w) /\ x = w
      <4>1. PICK v \in VerdictsOf(w) : run' = [run EXCEPT ![w].pc = "closing", ![w].verdict = v]
        BY <3>1 DEF PagesDone
      <4>2. run'[w].verdict = v
        BY <1>0, <2>1, <4>1, Fields DEF Walk, Slots, Attempts
      <4> QED
        BY <3>1, <4>2 DEF VerdictsOf
    <3>2. CASE ~PagesDone(w) /\ x = w
      BY <2>1, <2>3, <3>2 DEF OutcomeInv, Walk
    <3>3. CASE x # w
      <4>1. At(x, Completing) /\ run'[x].verdict = run[x].verdict
        BY <2>1, <2>3, <3>3 DEF Walk, Alike, At
      <4> QED
        BY <4>1 DEF OutcomeInv
    <3> QED
      BY <3>1, <3>2, <3>3
  <2>4. ASSUME NEW j \in Jobs PROVE observed'[j] \in {0, 1}
    <3>1. \/ observed' = observed
          \/ observed[Job(w)] = 0 /\ observed' = [observed EXCEPT ![Job(w)] = @ + 1]
      BY <1>1, Works DEF Observe
    <3> QED
      BY <1>0, <3>1 DEF OutcomeInv
  <2> QED
    BY <2>1, <2>2, <2>3, <2>4 DEF OutcomeInv
<1>2. ASSUME NEW j \in Jobs, Request(j) \/ Recover(j) PROVE OutcomeInv'
  BY <1>2, Asks DEF OutcomeInv, At, Busy
<1>3. ASSUME NEW w \in Workers, NEW j \in Jobs, PickUp(w, j) PROVE OutcomeInv'
  <2>1. run'[w].pc = "started" /\ observed' = observed /\ cancelReq' = cancelReq
    BY <1>0, <1>3 DEF PickUp, Slots
  <2>2. \A x \in Workers \ {w} : run'[x] = run[x]
    BY <1>0, <1>3 DEF PickUp, Slots
  <2> QED
    BY <1>0, <2>1, <2>2 DEF OutcomeInv, At, Busy, Completing
<1>4. CASE UNCHANGED vars
  BY <1>4 DEF vars, OutcomeInv, At, Busy
<1> QED
  BY <1>1, <1>2, <1>3, <1>4 DEF Next

\* A page that is entered comes from the pages left.
LEMMA PagesPreserved ==
  ASSUME TypeOK, PageNamed, [Next]_vars
  PROVE  PageNamed'
<1>0. run \in Slots
  BY DEF TypeOK, Slots
<1>1. ASSUME NEW w \in Workers, Progress(w) \/ Failure(w) PROVE PageNamed'
  <2>1. Walk(w)
    BY <1>0, <1>1, Walks
  <2>2. ASSUME FencePasses(w) PROVE run'[w].page \in Pages
    <3>1. run[w].left # {} /\ run'[w].page = NextOf(run[w].left)
      BY <1>0, <2>1, <2>2, Fields DEF FencePasses, Walk, Slots, Attempts
    <3> QED
      BY <1>0, <2>1, <3>1, Fields, NextOfIn DEF Walk
  <2> QED
    BY <2>1, <2>2 DEF PageNamed, Walk, Alike, At
<1>2. ASSUME NEW j \in Jobs, Request(j) \/ Recover(j) PROVE PageNamed'
  BY <1>2, Asks DEF PageNamed, At, Busy
<1>3. ASSUME NEW w \in Workers, NEW j \in Jobs, PickUp(w, j) PROVE PageNamed'
  BY <1>0, <1>3 DEF PickUp, Slots, PageNamed, At, Busy
<1>4. CASE UNCHANGED vars
  BY <1>4 DEF vars, PageNamed, At, Busy
<1> QED
  BY <1>1, <1>2, <1>3, <1>4 DEF Next

\* A checkpoint adds a page of the site to what its crawl has fetched or missed.
LEMMA Fetching ==
  ASSUME TypeOK, NEW w \in Workers, Fetch(w)
  PROVE  /\ Busy(w) /\ Current(w) /\ At(w, {"fetching"}) /\ run' = run
         /\ \A j \in Jobs :
              /\ fetched[j] \subseteq fetched'[j]
              /\ fetched'[j] \subseteq fetched[j] \union Site[j]
              /\ missed[j] \subseteq missed'[j]
              /\ j # Job(w) => fetched'[j] = fetched[j] /\ missed'[j] = missed[j]
<1>0. Job(w) \in Jobs /\ Busy(w)
  BY Fields DEF TypeOK, Slots, Fetch, At
<1>1. PICK p \in Site[Job(w)] :
        \/ fetched' = [fetched EXCEPT ![Job(w)] = @ \union {p}] /\ UNCHANGED missed
        \/ missed' = [missed EXCEPT ![Job(w)] = @ \union {p}] /\ UNCHANGED fetched
  BY NextOfIn DEF Fetch, Unvisited
<1> QED
  BY <1>0, <1>1 DEF TypeOK, Fetch

\* A crawl that looks for stale pages has missed none, and was not stopped before the last.
LEMMA SitesPreserved ==
  ASSUME TypeOK, SiteInv, [Next]_vars
  PROVE  SiteInv'
<1>0. run \in Slots /\ fetched \in [Jobs -> SUBSET Pages] /\ missed \in [Jobs -> SUBSET Pages]
  BY DEF TypeOK, Slots
<1>1. ASSUME NEW w \in Workers, Progress(w) \/ Failure(w) PROVE SiteInv'
  <2>1. Walk(w)
    BY <1>0, <1>1, Walks
  <2>2. ASSUME NEW j \in Jobs
        PROVE  /\ fetched[j] \subseteq fetched'[j] /\ fetched'[j] \subseteq Site[j]
               /\ missed[j] \subseteq missed'[j]
    BY <1>1, <2>2, Works, Fetching DEF SiteInv
  <2>3. ASSUME NEW x \in Workers, At(x, AfterFetch)', ~run'[x].stopped
        PROVE  Unvisited(Job(x))' = {}
    <3>1. run'[x].job = run[x].job /\ run[x].job \in Jobs /\ Busy(x)
      BY <1>0, <2>1, <2>3, Fields DEF Walk, Alike, At
    <3>2. Unvisited(Job(x)) = {}
      <4>1. CASE x = w /\ LeaveFetching(w)
        <5>1. run'[w].stopped = (Unvisited(Job(w)) # {})
          BY <1>0, <2>1, <4>1, Fields DEF LeaveFetching, Walk, Slots, Attempts
        <5> QED
          BY <2>3, <4>1, <5>1
      <4>2. CASE ~(x = w /\ LeaveFetching(w))
        BY <2>1, <2>3, <4>2 DEF SiteInv, Walk, Alike, At
      <4> QED
        BY <4>1, <4>2
    <3> QED
      BY <2>2, <3>1, <3>2 DEF Unvisited
  <2>4. ASSUME NEW x \in Workers, At(x, Completing)', run'[x].verdict = "completed"
        PROVE  ~run'[x].stopped
    <3>1. CASE x = w /\ PagesDone(w)
      <4>1. PICK v \in VerdictsOf(w) : run' = [run EXCEPT ![w].pc = "closing", ![w].verdict = v]
        BY <3>1 DEF PagesDone
      <4>2. run'[w].verdict = v /\ run'[w].stopped = run[w].stopped
        BY <1>0, <2>1, <4>1, Fields DEF Walk, Slots, Attempts
      <4> QED
        BY <2>4, <3>1, <4>2 DEF VerdictsOf
    <3>2. CASE x = w /\ ~PagesDone(w)
      <4>1. At(w, Completing) /\ run'[w].verdict = run[w].verdict
            /\ Completing \subseteq AfterFetch
        BY <2>1, <2>4, <3>2 DEF Walk, Completing, AfterFetch, Guarded, Entering
      <4>2. run'[w].stopped = run[w].stopped
        BY <2>1, <2>4, <3>2, <4>1 DEF Walk, At, LeaveFetching, Completing
      <4> QED
        BY <2>4, <3>2, <4>1, <4>2 DEF SiteInv
    <3>3. CASE x # w
      <4>1. At(x, Completing) /\ run'[x].verdict = run[x].verdict
            /\ run'[x].stopped = run[x].stopped
        BY <2>1, <2>4, <3>3 DEF Walk, Alike, At
      <4> QED
        BY <2>4, <4>1 DEF SiteInv
    <3> QED
      BY <3>1, <3>2, <3>3
  <2>5. ASSUME NEW x \in Workers, At(x, {"listing", "retiring"})'
        PROVE  Site[Job(x)'] \subseteq fetched'[Job(x)']
    <3>1. run'[x].job = run[x].job /\ run[x].job \in Jobs /\ Busy(x)
      BY <1>0, <2>1, <2>5, Fields DEF Walk, Alike, At
    <3>2. Site[Job(x)] \subseteq fetched[Job(x)]
      <4>1. CASE x = w /\ EnterCompletion(w) /\ Reconciles(w)
        BY <4>1
        DEF EnterCompletion, Reconciles, SiteInv, At, Completing, AfterFetch, Entering,
            Unvisited
      <4>2. CASE x = w /\ ~(EnterCompletion(w) /\ Reconciles(w))
        BY <2>1, <2>5, <4>2 DEF SiteInv, Walk, At, ListStale
      <4>3. CASE x # w
        BY <2>1, <2>5, <4>3 DEF SiteInv, Walk, Alike, At
      <4> QED
        BY <4>1, <4>2, <4>3
    <3> QED
      BY <2>2, <3>1, <3>2
  <2>6. ASSUME NEW x \in Workers, At(x, {"retiring"})'
        PROVE  run'[x].left \intersect Site[Job(x)'] = {}
    <3>1. run'[x].job = run[x].job /\ run[x].job \in Jobs /\ Busy(x)
      BY <1>0, <2>1, <2>6, Fields DEF Walk, Alike, At
    <3>2. CASE x = w /\ ListStale(w)
      <4>1. Site[Job(w)] \subseteq fetched[Job(w)]
        BY <3>2 DEF ListStale, SiteInv, At
      <4>2. run'[w].left = artifacts \ fetched[Job(w)]
        BY <1>0, <3>1, <3>2, Fields DEF ListStale, Slots, Attempts
      <4> QED
        BY <3>1, <3>2, <4>1, <4>2
    <3>3. CASE ~(x = w /\ ListStale(w))
      <4>1. At(x, {"retiring"}) /\ run'[x].left = run[x].left
        BY <2>1, <2>6, <3>3 DEF Walk, Alike, At
      <4> QED
        BY <3>1, <4>1 DEF SiteInv
    <3> QED
      BY <3>2, <3>3
  <2> QED
    BY <2>2, <2>3, <2>4, <2>5, <2>6 DEF SiteInv
<1>2. ASSUME NEW j \in Jobs, Request(j) \/ Recover(j) PROVE SiteInv'
  BY <1>2, Asks DEF SiteInv, At, Busy, Unvisited
<1>3. ASSUME NEW w \in Workers, NEW j \in Jobs, PickUp(w, j) PROVE SiteInv'
  <2>1. run'[w].pc = "started" /\ fetched' = fetched /\ missed' = missed
    BY <1>0, <1>3 DEF PickUp, Slots
  <2>2. \A x \in Workers \ {w} : run'[x] = run[x]
    BY <1>0, <1>3 DEF PickUp, Slots
  <2>3. "started" \notin AfterFetch /\ "started" \notin Completing
    BY DEF AfterFetch, Completing, Guarded, Entering
  <2> QED
    BY <1>0, <2>1, <2>2, <2>3 DEF SiteInv, At, Busy, Unvisited
<1>4. CASE UNCHANGED vars
  BY <1>4 DEF vars, SiteInv, At, Busy, Unvisited
<1> QED
  BY <1>1, <1>2, <1>3, <1>4 DEF Next

\* No request, worker or recovery queues or runs a crawl that is not activated yet.
LEMMA FencesPreserved ==
  ASSUME TypeOK, FenceInv, OutcomeInv, [Next]_vars
  PROVE  FenceInv'
<1>0. /\ run \in Slots /\ status \in [Jobs -> {"none"} \union Runnable \union Outcomes]
      /\ queue \in [Jobs -> {"none", "todo", "doing", "over"}]
      /\ opening \in [Jobs -> {"no", "inserted", "activated", "deferring", "over"}]
  BY DEF TypeOK, Slots
<1>1. ASSUME NEW w \in Workers, Progress(w) \/ Failure(w) PROVE FenceInv'
  <2>1. Walk(w) /\ opening' = opening /\ fence' = fence
    BY <1>0, <1>1, Walks, Works
  <2>2. Job(w) \in Jobs
    BY <1>0, <2>1, Fields DEF Walk
  <2>3. ASSUME NEW j \in Jobs, j # Job(w) PROVE status'[j] = status[j] /\ queue'[j] = queue[j]
    BY <1>0, <1>1, <2>2, <2>3, Works
    DEF Claim, PublishCancelled, FinishCrawl, FailCrawl, Requeued, Closed
  <2>4. status[Job(w)] # "none" /\ opening[Job(w)] \notin {"no", "inserted"}
    BY <2>1, <2>2 DEF FenceInv, Walk
  <2>5. \A x \in Workers : Busy(x)' => Busy(x) /\ run'[x].job = run[x].job
    BY <2>1 DEF Walk, Alike
  <2>6. status'[Job(w)] # "none"
    <3>1. FinishCrawl(w) => run[w].verdict \in Outcomes
      BY DEF FinishCrawl, OutcomeInv, At, Completing
    <3> QED
      BY <1>0, <1>1, <2>2, <2>4, <3>1, Works DEF Claim, PublishCancelled, FinishCrawl, FailCrawl
  <2> QED
    BY <2>1, <2>2, <2>3, <2>4, <2>5, <2>6 DEF FenceInv
<1>2. ASSUME NEW j \in Jobs, Request(j) \/ Recover(j) PROVE FenceInv'
  <2>1. run' = run
    BY <1>2, Asks
  <2>2. CASE Open(j)
    BY <1>0, <2>1, <2>2 DEF Open, FenceInv, Busy
  <2>3. CASE Activate(j)
    BY <1>0, <2>1, <2>3 DEF Activate, FenceInv, Busy
  <2>4. CASE CancelPrior(j)
    BY <1>0, <2>1, <2>4 DEF CancelPrior, QueueCancels, FenceInv, Busy
  <2>5. CASE Defer(j)
    BY <1>0, <2>1, <2>5 DEF Defer, FenceInv, Busy
  <2>6. CASE OpenFails(j)
    BY <1>0, <2>1, <2>6 DEF OpenFails, FenceInv, Busy
  <2>7. CASE CancelFinds(j) \/ CancelFlags(j)
    BY <2>1, <2>7 DEF CancelFinds, CancelFlags, FenceInv, Busy
  <2>8. CASE CancelQueue(j)
    BY <1>0, <2>1, <2>8 DEF CancelQueue, QueueCancels, FenceInv, Busy
  <2>9. CASE Recover(j)
    BY <1>0, <2>1, <2>9 DEF Recover, Requeued, Orphan, FenceInv, Busy
  <2> QED
    BY <1>2, <2>2, <2>3, <2>4, <2>5, <2>6, <2>7, <2>8, <2>9 DEF Request
<1>3. ASSUME NEW w \in Workers, NEW j \in Jobs, PickUp(w, j) PROVE FenceInv'
  <2>1. /\ run'[w].job = j /\ status' = status /\ fence' = fence /\ opening' = opening
        /\ \A x \in Workers \ {w} : run'[x] = run[x]
    BY <1>0, <1>3 DEF PickUp, Slots
  <2>2. queue[j] = "todo" /\ queue' = [queue EXCEPT ![j] = "doing"]
    BY <1>3 DEF PickUp
  <2> QED
    BY <1>0, <2>1, <2>2 DEF FenceInv, Busy
<1>4. CASE UNCHANGED vars
  BY <1>4 DEF vars, FenceInv, Busy
<1> QED
  BY <1>1, <1>2, <1>3, <1>4 DEF Next

\* Nobody takes a fetched page from the crawl that is the connector's generation: another crawl
\* that does is trespassing, and the crawl itself retires no page of its site.
LEMMA KeptStays ==
  ASSUME TypeOK, SiteInv, NEW w \in Workers, Progress(w) \/ Failure(w),
         NEW j \in Jobs, fence = j, NEW p \in fetched[j], Kept(j, p)
  PROVE  Kept(j, p)'
<1>0. p \in Pages /\ lost \subseteq lost' /\ passed \subseteq passed' /\ p \in Site[j]
  BY Works DEF TypeOK, SiteInv
<1>1. CASE HandlesPage(w)
  <2>1. \/ UNCHANGED <<content, trespassed>>
        \/ content' = [content EXCEPT ![run[w].page] = Job(w)] /\ Trespass(w, {run[w].page})
    BY <1>1 DEF HandlesPage, IngestPage, SkipUnchanged, SkipShort, PageDone, PassesOver,
       PageRaises
  <2> QED
    BY <1>0, <2>1 DEF Kept, Trespass, TypeOK
<1>2. CASE RetirePoints(w)
  <2>1. PICK S \in SUBSET run[w].left :
          /\ content' = [q \in Pages |-> IF q \in S THEN Nobody ELSE content[q]]
          /\ Trespass(w, S)
    BY <1>2 DEF RetirePoints
  <2>2. CASE Job(w) = j
    <3>1. p \notin S
      BY <1>0, <1>2, <2>1, <2>2 DEF RetirePoints, SiteInv
    <3> QED
      BY <1>0, <2>1, <3>1 DEF Kept, Trespass
  <2>3. CASE Job(w) # j
    <3>1. trespassed' = trespassed \union S
      BY <2>1, <2>3 DEF Trespass
    <3> QED
      BY <1>0, <2>1, <3>1 DEF Kept
  <2> QED
    BY <2>2, <2>3
<1>3. CASE UNCHANGED <<content, trespassed>>
  BY <1>0, <1>3 DEF Kept
<1> QED
  BY <1>1, <1>2, <1>3, Works

\* A page that is no longer to be stored was stored, or is counted as lost.
LEMMA PendingDone ==
  ASSUME TypeOK, SiteInv, PageNamed, NEW w \in Workers, Progress(w) \/ Failure(w),
         At(w, PageWork), At(w, PageWork)', fence = Job(w), NEW p \in Pending(w)
  PROVE  p \in Pending(w)' \/ Kept(Job(w), p)'
<1>0. Busy(w) /\ run \in Slots /\ run[w].pc \in {"pages", "stored", "entering", "inPage"}
  BY DEF At, TypeOK, Slots, Pending
<1>1. CASE FencePasses(w)
  <2>1. run'[w].pc = "entering" /\ run'[w].left \union {run'[w].page} = run[w].left
    <3>1. run'[w].pc = "entering" /\ run'[w].left = run[w].left \ {run'[w].page}
          /\ run'[w].page = NextOf(run[w].left) /\ run[w].left # {}
      BY <1>0, <1>1, Fields DEF FencePasses, Slots, Attempts
    <3> QED
      BY <3>1, NextOfIn
  <2>2. run[w].pc = "pages"
    BY <1>1 DEF FencePasses, At
  <2> QED
    BY <2>1, <2>2 DEF Pending
<1>2. CASE FenceUnknown(w)
  <2>1. run'[w].pc = "pages" /\ run'[w].left = run[w].left \ {NextOf(run[w].left)}
        /\ run[w].pc = "pages" /\ run'[w].job = run[w].job
    BY <1>0, <1>2, Fields DEF FenceUnknown, Skip, Slots, Attempts, At
  <2>2. <<Job(w), NextOf(run[w].left)>> \in lost'
    BY <1>2 DEF FenceUnknown
  <2> QED
    BY <2>1, <2>2 DEF Pending, Kept
<1>3. CASE FenceSkips(w)
  BY <1>3 DEF FenceSkips
<1>4. CASE HandlesPage(w)
  <2>1. run'[w].pc = "stored" /\ run'[w].left = run[w].left /\ run[w].pc = "inPage"
    BY <1>0, <1>4, Fields DEF HandlesPage, IngestPage, SkipUnchanged, SkipShort, PageDone,
       PassesOver, PageRaises, Slots, Attempts, At
  <2>2. run[w].page \in Pages /\ run'[w].job = run[w].job
    BY <1>0, <1>4, Fields DEF PageNamed, HandlesPage, IngestPage, SkipUnchanged, SkipShort,
       PageDone, PassesOver, PageRaises, At, Slots, Attempts
  <2>3. content'[run[w].page] = Job(w) \/ <<Job(w), run[w].page>> \in lost' \union passed'
    BY <1>4, <2>2 DEF HandlesPage, IngestPage, SkipUnchanged, SkipShort, PageDone, PassesOver,
       PageRaises, TypeOK
  <2> QED
    BY <2>1, <2>2, <2>3 DEF Pending, Kept
<1>5. CASE EnterPage(w) \/ LeavePage(w)
  BY <1>0, <1>5, Fields DEF EnterPage, LeavePage, Moves, Slots, Attempts, At, Pending
<1>6. CASE Stall(w) \/ Drop(w)
  BY <1>0, <1>6, Fields DEF Stall, Drop, Slots, Attempts, Pending
<1>7. CASE PagesDone(w)
  BY <1>7 DEF PagesDone, At, Pending
<1>8. CASE ~(FencePasses(w) \/ FenceUnknown(w) \/ FenceSkips(w) \/ HandlesPage(w)
             \/ EnterPage(w) \/ LeavePage(w) \/ Stall(w) \/ Drop(w)
             \/ PagesDone(w))
  <2>1. \/ Superseded(w) \/ ConnectionLost(w) \/ Breaks(w)
        \/ LockBusy(w) \/ Interrupt(w) \/ Kill(w)
    BY <1>0, <1>8
    DEF Progress, Failure, HandlesPage, At, Claim, ClaimRefused, PublishCancelled, Fetch,
       LeaveFetching,
        Observe, EnterCompletion, ListStale, RetirePoints, RetireRecords, FinishCrawl,
        FailCrawl, Return, Escapes
  <2>2. ~At(w, PageWork)'
    BY <1>0, <2>1, Fields
    DEF Superseded, ConnectionLost, Breaks, LockBusy, Interrupt, Kill, Yields, Moves, At, Busy,
        Slots, Attempts, PageWork, AfterFetch, Guarded, Entering
  <2> QED
    BY <2>2
<1> QED
  BY <1>1, <1>2, <1>3, <1>4, <1>5, <1>6, <1>7, <1>8

\* Only the newest attempt adds to what was fetched or ends the crawl, and it is the one whose
\* pages are accounted for.
LEMMA StoresPreserved ==
  ASSUME TypeOK, AttemptInv, PageNamed, SiteInv, FenceInv, StoredInv, [Next]_vars
  PROVE  StoredInv'
<1>0. /\ run \in Slots /\ gen \in [Jobs -> Nat]
      /\ status \in [Jobs -> {"none"} \union Runnable \union Outcomes]
  BY DEF TypeOK, Slots
<1>1. ASSUME NEW w \in Workers, Progress(w) \/ Failure(w) PROVE StoredInv'
  <2>1. Walk(w) /\ fence' = fence
    BY <1>0, <1>1, Walks, Works
  <2>2. ASSUME NEW x \in Workers, At(x, PageWork)', run'[x].gen = gen'[Job(x)'],
               fence' = Job(x)', NEW p \in fetched'[Job(x)']
        PROVE  p \in Pending(x)' \/ Kept(Job(x), p)'
    <3>1. run'[x].job = run[x].job /\ run[x].job \in Jobs /\ Busy(x) /\ fence = Job(x)
      BY <1>0, <2>1, <2>2, Fields DEF Walk, Alike, At
    <3>2. ~Claim(w) \/ Job(w) # Job(x)
      <4>1. SUFFICES ASSUME Claim(w), Job(w) = Job(x) PROVE FALSE
        OBVIOUS
      <4>2. gen'[Job(x)] = gen[Job(x)] + 1
        BY <1>0, <3>1, <4>1 DEF Claim
      <4>3. CASE x = w
        BY <1>0, <2>2, <4>1, <4>3, Fields, <3>1
        DEF Claim, Slots, Attempts, At, PageWork, AfterFetch, Guarded, Entering
      <4>4. CASE x # w
        <5>1. run'[x].gen = run[x].gen /\ run[x].gen <= gen[Job(x)]
          BY <2>1, <3>1, <4>4 DEF Walk, Alike, AttemptInv
        <5> QED
          BY <1>0, <2>2, <3>1, <4>2, <5>1, Fields
      <4> QED
        BY <4>3, <4>4
    <3>3. gen'[Job(x)] = gen[Job(x)] /\ run'[x].gen = run[x].gen
      <4>1. gen'[Job(x)] = gen[Job(x)]
        BY <1>0, <1>1, <3>1, <3>2, Works, Fields, <2>1 DEF Claim, Walk
      <4> QED
        BY <2>1, <3>1, <3>2, <4>1, <2>2 DEF Walk, Alike, At
    <3>4. p \in fetched[Job(x)]
      <4>1. CASE Fetch(w) /\ Job(w) = Job(x)
        <5>1. Busy(w) /\ Current(w) /\ At(w, {"fetching"}) /\ run' = run
          BY <1>1, <4>1, Fetching
        <5>2. run[w].gen > 0
          BY <5>1 DEF AttemptInv, At, Claimed
        <5>3. w = x
          BY <2>2, <3>1, <3>3, <4>1, <5>1, <5>2 DEF AttemptInv, Current
        <5> QED
          BY <2>2, <5>1, <5>3 DEF At, PageWork, AfterFetch, Guarded, Entering
      <4>2. CASE ~(Fetch(w) /\ Job(w) = Job(x))
        BY <1>1, <2>2, <3>1, <4>2, Works, Fetching
      <4> QED
        BY <4>1, <4>2
    <3>5. Kept(Job(x), p) => Kept(Job(x), p)'
      BY <1>1, <3>1, <3>4, KeptStays DEF Kept
    <3>6. CASE x = w /\ Observe(w)
      <4>1. run'[w].pc = "pages" /\ run'[w].left = fetched[Job(w)]
        BY <1>0, <2>1, <3>6, Fields DEF Observe, Walk, Slots, Attempts
      <4> QED
        BY <3>4, <3>6, <4>1 DEF Pending
    <3>7. CASE x = w /\ ~Observe(w)
      <4>1. At(w, PageWork) /\ (p \in Pending(w) \/ Kept(Job(w), p))
        BY <2>1, <2>2, <3>1, <3>3, <3>4, <3>7 DEF Walk, StoredInv
      <4>2. p \in Pending(w) => p \in Pending(w)' \/ Kept(Job(w), p)'
        BY <1>1, <2>2, <3>1, <3>7, <4>1, PendingDone
      <4> QED
        BY <3>5, <3>7, <4>1, <4>2
    <3>8. CASE x # w
      <4>1. At(x, PageWork) /\ Pending(x)' = Pending(x)
        BY <2>1, <2>2, <3>1, <3>8 DEF Walk, Alike, At, Pending
      <4> QED
        BY <3>1, <3>3, <3>4, <3>5, <4>1, <2>2 DEF StoredInv
    <3> QED
      BY <3>6, <3>7, <3>8
  <2>3. ASSUME NEW j \in Jobs, status'[j] = "completed", fence' = j, NEW p \in fetched'[j]
        PROVE  Kept(j, p)'
    <3>1. CASE status[j] = "completed"
      <4>1. fetched'[j] = fetched[j]
        BY <1>1, <3>1, Works, Fetching DEF Current
      <4> QED
        BY <1>1, <2>1, <2>3, <3>1, <4>1, KeptStays DEF StoredInv, CompletedIsStored, Kept
    <3>2. CASE status[j] # "completed"
      <4>1. Job(w) = j /\ FinishCrawl(w) /\ Current(w) /\ run[w].verdict = "completed"
        BY <1>0, <1>1, <2>3, <3>2, Works DEF Claim, PublishCancelled, FinishCrawl, FailCrawl
      <4>2. fetched' = fetched /\ content' = content /\ lost' = lost
            /\ passed' = passed /\ trespassed' = trespassed
        BY <4>1 DEF FinishCrawl
      <4>3. At(w, PageWork) /\ Pending(w) = {}
        BY <4>1 DEF FinishCrawl, At, PageWork, AfterFetch, Guarded, Pending
      <4> QED
        BY <2>1, <2>3, <4>1, <4>2, <4>3 DEF StoredInv, Current, Kept
    <3> QED
      BY <3>1, <3>2
  <2> QED
    BY <2>2, <2>3 DEF StoredInv, CompletedIsStored, Kept
<1>2. ASSUME NEW j \in Jobs, Request(j) \/ Recover(j) PROVE StoredInv'
  <2>1. /\ run' = run /\ gen' = gen /\ fetched' = fetched /\ content' = content
        /\ trespassed' = trespassed /\ lost' = lost /\ passed' = passed
    BY <1>2, Asks
  <2>2. \/ fence' = fence
        \/ fence' = j /\ status[j] # "completed" /\ \A x \in Workers : Busy(x) => Job(x) # j
    BY <1>2, Asks DEF Activate, FenceInv
  <2>3. \A k \in Jobs : status'[k] = "completed" => status[k] = "completed"
    BY <1>0, <1>2, Asks DEF Open
  <2>4. ASSUME NEW x \in Workers, At(x, PageWork), run[x].gen = gen[Job(x)], fence' = Job(x),
               NEW p \in fetched[Job(x)]
        PROVE  p \in Pending(x) \/ Kept(Job(x), p)
    BY <2>2, <2>4 DEF StoredInv, At
  <2>5. ASSUME NEW k \in Jobs, status'[k] = "completed", fence' = k, NEW p \in fetched[k]
        PROVE  Kept(k, p)
    BY <2>2, <2>3, <2>5 DEF StoredInv, CompletedIsStored, Kept
  <2> QED
    BY <2>1, <2>4, <2>5 DEF StoredInv, CompletedIsStored, Kept, Pending, At, Busy
<1>3. ASSUME NEW w \in Workers, NEW j \in Jobs, PickUp(w, j) PROVE StoredInv'
  <2>1. /\ run'[w].pc = "started" /\ status' = status /\ fence' = fence /\ gen' = gen
        /\ fetched' = fetched /\ content' = content /\ lost' = lost /\ passed' = passed
        /\ trespassed' = trespassed /\ \A x \in Workers \ {w} : run'[x] = run[x]
    BY <1>0, <1>3 DEF PickUp, Slots
  <2>2. "started" \notin PageWork
    BY DEF PageWork, AfterFetch, Guarded, Entering
  <2> QED
    BY <2>1, <2>2 DEF StoredInv, CompletedIsStored, Kept, Pending, At, Busy
<1>4. CASE UNCHANGED vars
  BY <1>4 DEF vars, StoredInv, CompletedIsStored, Kept, Pending, At, Busy
<1> QED
  BY <1>1, <1>2, <1>3, <1>4 DEF Next

\* Nothing runs at first.
LEMMA CrawlsBegin == Init => TypeOK /\ CrawlInv
<1> SUFFICES ASSUME Init PROVE TypeOK /\ CrawlInv
  OBVIOUS
<1>1. TypeOK
  BY DEF Init, TypeOK
<1>2. \A w \in Workers : ~Busy(w)
  BY DEF Init, Busy
<1>3. GuardedBlocksAreOwned /\ AttemptInv /\ PageNamed
  BY <1>2 DEF Init, GuardedBlocksAreOwned, AttemptInv, PageNamed, At
<1>4. OutcomeInv /\ SiteInv
  BY <1>2 DEF Init, OutcomeInv, SiteInv, At
<1>5. FenceInv /\ StoredInv
  BY <1>2 DEF Init, FenceInv, StoredInv, CompletedIsStored, At
<1> QED
  BY <1>1, <1>3, <1>4, <1>5 DEF CrawlInv

-----------------------------------------------------------------------------
(* Theorems *)

\* The invariant of the execution of crawls.
THEOREM CrawlInvariant == Spec => [](TypeOK /\ CrawlInv)
<1>1. TypeOK /\ CrawlInv /\ [Next]_vars => (TypeOK /\ CrawlInv)'
  BY TypesPreserved, GuardsPreserved, AttemptsPreserved, PagesPreserved, OutcomesPreserved,
     SitesPreserved, FencesPreserved, StoresPreserved DEF CrawlInv
<1> QED
  BY CrawlsBegin, <1>1, PTL DEF Spec

\* Every step of a worker, a request or the queue is a step of the contract, or none.
LEMMA ContractStep ==
  ASSUME TypeOK, CrawlInv, [Next]_vars
  PROVE  [Contract!Next]_(Contract!contract)
<1> USE DEF Contract!contract
<1>0. /\ run \in Slots /\ gen \in [Jobs -> Nat] /\ observed \in [Jobs -> Nat]
      /\ status \in [Jobs -> {"none"} \union Runnable \union Outcomes]
  BY DEF TypeOK, Slots
<1>1. ASSUME NEW w \in Workers, Progress(w) \/ Failure(w)
      PROVE  Contract!Next \/ UNCHANGED contract
  <2>1. Job(w) \in Jobs /\ Busy(w)
    BY <1>0, <1>1, Walks, Fields DEF Walk
  <2>2. CASE Claim(w)
    <3>1. Contract!Claim(Job(w))
      BY <2>2 DEF Claim, Contract!Claim
    <3> QED
      BY <2>1, <3>1 DEF Contract!Next
  <2>3. CASE PublishCancelled(w)
    <3>1. Job(w) \in cancelReq
      BY <2>3 DEF PublishCancelled, CrawlInv, OutcomeInv
    <3>2. Contract!Refuse(Job(w)) \/ UNCHANGED contract
      BY <2>3, <3>1 DEF PublishCancelled, Contract!Refuse
    <3> QED
      BY <2>1, <3>2 DEF Contract!Next
  <2>4. CASE Fetch(w) \/ LeavePage(w)
    <3>1. Contract!Persist(Job(w)) \/ UNCHANGED contract
      BY <2>4 DEF Fetch, LeavePage, Current, Signs, Contract!Persist
    <3> QED
      BY <2>1, <3>1 DEF Contract!Next
  <2>5. CASE Observe(w)
    <3>1. Contract!Apply(Job(w)) \/ UNCHANGED contract
      BY <1>0, <2>1, <2>5 DEF Observe, Current, Signs, Contract!Apply
    <3> QED
      BY <2>1, <3>1 DEF Contract!Next
  <2>6. CASE FinishCrawl(w)
    <3>1. run[w].verdict \in Outcomes
      BY <2>6 DEF FinishCrawl, CrawlInv, OutcomeInv, At, Completing
    <3>2. Contract!Finish(Job(w)) \/ UNCHANGED contract
      BY <2>6, <3>1 DEF FinishCrawl, Current, Signs, Contract!Finish, Contract!Outcomes
    <3> QED
      BY <2>1, <3>2 DEF Contract!Next
  <2>7. CASE FailCrawl(w)
    <3>1. Contract!Finish(Job(w)) \/ UNCHANGED contract
      BY <2>7 DEF FailCrawl, Current, Signs, Contract!Finish, Contract!Outcomes
    <3> QED
      BY <2>1, <3>1 DEF Contract!Next
  <2>8. CASE ~(Claim(w) \/ PublishCancelled(w) \/ Fetch(w) \/ LeavePage(w) \/ Observe(w)
               \/ FinishCrawl(w) \/ FailCrawl(w))
    BY <1>1, <2>8
    DEF Progress, Failure, ClaimRefused, LockBusy, LeaveFetching, Superseded, FencePasses,
        FenceSkips, EnterPage, IngestPage, SkipUnchanged, SkipShort, PagesDone, EnterCompletion,
        ListStale, RetirePoints, RetireRecords, ConnectionLost, Return, Escapes, Interrupt, Kill,
        Stall, Drop, Breaks, FenceUnknown, PageRaises
  <2> QED
    BY <2>2, <2>3, <2>4, <2>5, <2>6, <2>7, <2>8
<1>2. ASSUME NEW j \in Jobs, Request(j) \/ Recover(j)
      PROVE  Contract!Next \/ UNCHANGED contract
  <2>1. CASE Open(j)
    <3>1. Contract!Submit(j)
      BY <2>1 DEF Open, Contract!Submit
    <3> QED
      BY <3>1 DEF Contract!Next
  <2>2. CASE CancelFlags(j)
    <3>1. Contract!AskCancel(j) \/ UNCHANGED contract
      BY <2>2 DEF CancelFlags, Contract!AskCancel
    <3> QED
      BY <3>1 DEF Contract!Next
  <2>3. CASE ~Open(j) /\ ~CancelFlags(j)
    BY <1>2, <2>3
    DEF Request, Activate, CancelPrior, Defer, OpenFails, CancelFinds, CancelQueue, Recover
  <2> QED
    BY <2>1, <2>2, <2>3
<1>3. ASSUME NEW w \in Workers, NEW j \in Jobs, PickUp(w, j) PROVE UNCHANGED contract
  BY <1>3 DEF PickUp
<1>4. CASE UNCHANGED vars
  BY <1>4 DEF vars
<1> QED
  BY <1>1, <1>2, <1>3, <1>4 DEF Next

\* claim_crawl_execution, the checkpoints, the rate-limit effect and the outcomes together keep
\* what CrawlContract promises: every write is the newest generation's, the effect is applied
\* once, an outcome is final.
THEOREM Implements == Spec => ImplementsContract
<1>1. Init => Contract!Init
  BY DEF Init, Contract!Init
<1> QED
  BY <1>1, CrawlInvariant, ContractStep, PTL DEF Spec, ImplementsContract, Contract!Spec

\* The variables keep their types.
THEOREM TypeCorrect == Spec => []TypeOK
BY CrawlInvariant, PTL

\* guard_crawl_execution: whoever holds a crawl's advisory lock is its newest attempt, within a
\* guarded block.
THEOREM BlocksOwned == Spec => []GuardedBlocksAreOwned
BY CrawlInvariant, PTL DEF CrawlInv

\* finish_crawl_execution completes a crawl only when what it fetched is searchable, through
\* any number of kills, retries and stalls.
THEOREM CompletedStored == Spec => []CompletedIsStored
BY CrawlInvariant, PTL DEF CrawlInv, StoredInv

\* The reconciliation after a crawl retires no page the site served that crawl.
THEOREM ServedStay == Spec => ServedPagesKept
<1>1. ASSUME TypeOK, CrawlInv, [Next]_vars,
             NEW p \in Pages, content[p] # Nobody, content'[p] = Nobody
      PROVE  \E w \in Workers : At(w, {"retiring"}) /\ p \notin Site[Job(w)]
  <2>1. ASSUME NEW w \in Workers, Progress(w) \/ Failure(w)
        PROVE  At(w, {"retiring"}) /\ p \notin Site[Job(w)]
    <3>1. Job(w) \in Jobs /\ Job(w) # Nobody
      BY <1>1, <2>1, Walks, Fields DEF Walk, TypeOK, Slots
    <3>2. CASE HandlesPage(w)
      <4>1. UNCHANGED content \/ content' = [content EXCEPT ![run[w].page] = Job(w)]
        BY <3>2 DEF HandlesPage, IngestPage, SkipUnchanged, SkipShort, PageDone, PassesOver,
           PageRaises
      <4> QED
        BY <1>1, <3>1, <4>1 DEF TypeOK
    <3>3. CASE RetirePoints(w)
      <4>1. PICK S \in SUBSET run[w].left :
              content' = [q \in Pages |-> IF q \in S THEN Nobody ELSE content[q]]
        BY <3>3 DEF RetirePoints
      <4>2. p \in run[w].left /\ At(w, {"retiring"})
        BY <1>1, <3>3, <4>1 DEF RetirePoints
      <4> QED
        BY <1>1, <4>2 DEF CrawlInv, SiteInv
    <3> QED
      BY <1>1, <2>1, <3>2, <3>3, Works
  <2>2. ASSUME NEW j \in Jobs, Request(j) \/ Recover(j) PROVE FALSE
    BY <1>1, <2>2, Asks
  <2>3. ASSUME NEW w \in Workers, NEW j \in Jobs, PickUp(w, j) PROVE FALSE
    BY <1>1, <2>3 DEF PickUp
  <2>4. CASE UNCHANGED vars
    BY <1>1, <2>4 DEF vars
  <2> QED
    BY <1>1, <2>1, <2>2, <2>3, <2>4 DEF Next
<1>2. TypeOK /\ CrawlInv /\ [Next]_vars
        => [\A p \in Pages : content[p] # Nobody /\ content'[p] = Nobody =>
              \E w \in Workers : At(w, {"retiring"}) /\ p \notin Site[Job(w)]]_vars
  BY <1>1
<1> QED
  BY <1>2, CrawlInvariant, PTL DEF Spec, ServedPagesKept

=============================================================================
