----------------------------- MODULE InlineSync -----------------------------
(***************************************************************************)
(* What the engine does with documents in the runs klai-connector works on  *)
(* itself: it lists the source, decides by the cursors of earlier runs what *)
(* to fetch, ingests document by document with checkpoints, and removes     *)
(* from the knowledge base what the source no longer lists.  The runs, the  *)
(* lock, the semaphore and the restarts are ConnectorSync's: its EndRun     *)
(* happens where the documents say so.                                      *)
(*                                                                          *)
(* Abstracted: a document's content is the moment it was edited; time       *)
(* counts the changes to the sources, so no two of them share a timestamp;  *)
(* the order in which a listing is worked through; counters; images;        *)
(* adapters that list changes only.  What knowledge-ingest does with a      *)
(* document is KnowledgeWrites'.                                            *)
(***************************************************************************)
EXTENDS ConnectorSync

CONSTANTS
  Docs,            \* source_refs
  SourceOf,        \* the connector a document belongs to
  Adapters,        \* the adapter of each connector, in the cases considered
  CheckpointEvery, \* a checkpoint is saved every so many documents
  MaxOpened,       \* bound: runs opened
  MaxChanges       \* bound: changes to the sources

\* A cursor with the time of the last edit (Notion), with the hash of the tree (GitHub), or
\* with neither, the listing being trusted to be complete (JSON feeds).
Kinds == {"stamped", "tree", "snapshot"}

ASSUME InlineAssumption == Delegated = {}
ASSUME SourcesAssumption ==
  /\ SourceOf \in [Docs -> Connectors] /\ Adapters \subseteq [Connectors -> Kinds]
  /\ IsFiniteSet(Docs)       \* batches are counted
ASSUME ChangesAssumption ==
  CheckpointEvery \in Nat \ {0} /\ MaxChanges \in Nat /\ MaxOpened \in Nat

VARIABLES
  adapter,
  clock,           \* counts the changes to the sources
  listed, edited,  \* the sources: what they list, and when each document was last edited
  stored,          \* the knowledge base: which edit of a document it holds; 0 is none
  began,           \* sync_runs.started_at, in order
  cursor,          \* sync_runs.cursor_state
  work,            \* what a run is doing with its documents
  excuse           \* history: why a document may differ from what the cursors say

source == <<adapter, clock, listed, edited>>
cursors == <<began, cursor>>
documents == <<source, stored, cursors, work, excuse>>
all == <<vars, documents>>

NoCursor == [at |-> 0, synced |-> {}, ingested |-> {}]
Resting == [pc |-> "resting"]
Excuses == {"resumed", "short", "unrecorded"}

AdapterOf(r) == adapter[ConnectorOf[r]]
Listing(c) == {d \in listed : SourceOf[d] = c}
\* _get_last_successful_run and _get_last_pending_run, by started_at.
CursorOfLast(c, s) ==
  LET R == {r \in RunsOf(c) : status[r] = s}
  IN IF R = {} THEN NoCursor
     ELSE cursor[CHOOSE r \in R : \A q \in R : began[q] <= began[r]]
Done(c) == CursorOfLast(c, "completed")
Excused(D, why) == [d \in Docs |-> IF d \in D THEN excuse[d] \union {why} ELSE excuse[d]]

InlineInit ==
  /\ Init
  /\ adapter \in Adapters
  /\ clock = 1
  /\ listed = Docs /\ edited = [d \in Docs |-> 1]
  /\ stored = [d \in Docs |-> 0]
  /\ began = [r \in Runs |-> 0]
  /\ cursor = [r \in Runs |-> NoCursor]
  /\ work = [r \in Runs |-> Resting]
  /\ excuse = [d \in Docs |-> {}]

(***************************************************************************)
(* The sources: documents are edited, unlisted, and listed again, with or   *)
(* without an edit.                                                         *)
(***************************************************************************)
Change == clock <= MaxChanges /\ clock' = clock + 1

Edit(d) ==
  /\ Change /\ d \in listed
  /\ edited' = [edited EXCEPT ![d] = clock + 1]
  /\ UNCHANGED <<vars, adapter, listed, stored, cursors, work, excuse>>

Unlist(d) ==
  /\ Change /\ d \in listed
  /\ listed' = listed \ {d}
  /\ UNCHANGED <<vars, adapter, edited, stored, cursors, work, excuse>>

Relist(d) ==
  /\ Change /\ d \notin listed
  /\ listed' = listed \union {d}
  /\ \E t \in {edited[d], clock + 1} : edited' = [edited EXCEPT ![d] = t]
  /\ UNCHANGED <<vars, adapter, stored, cursors, work, excuse>>

(***************************************************************************)
(* Runs, as far as ConnectorSync has them                                   *)
(***************************************************************************)
Latest == CHOOSE n \in {began[r] : r \in Runs} : \A r \in Runs : began[r] <= n

\* started_at is the time of the transaction that starts with the guard; which unused
\* identity the row gets makes no difference.
Open(k, c) ==
  /\ Latest < MaxOpened
  /\ CheckActive(k, c)
  /\ opening'[k] = {CHOOSE r \in Fresh(c) : TRUE}
  /\ began' = [r \in Runs |-> IF r \in opening'[k] THEN Latest + 1 ELSE began[r]]
  /\ UNCHANGED <<source, stored, cursor, work, excuse>>

Waits(r) == StartTask(r) \/ AcquireSlot(r) \/ SendReport(r) \/ ReportReturns(r)

Rest(R) == work' = [r \in Runs |-> IF r \in R THEN Resting ELSE work[r]]

Breaks(r) == TaskBreaks(r) /\ Rest({r}) /\ UNCHANGED <<source, stored, cursors, excuse>>

\* The rows a restart sets aside keep their checkpoints.
RestartAll == Restart /\ Rest(Runs) /\ UNCHANGED <<source, stored, cursors, excuse>>

(***************************************************************************)
(* _execute_sync                                                            *)
(***************************************************************************)
Does(r, pc) == work' = [work EXCEPT ![r].pc = pc]

Marker(c) ==
  IF adapter[c] = "tree" THEN clock
  ELSE IF adapter[c] = "snapshot" \/ Listing(c) = {} THEN 0
  ELSE CHOOSE t \in {edited[d] : d \in Listing(c)} : \A d \in Listing(c) : edited[d] <= t

\* The source's present cursor, and those of the connector's earlier runs.
ReadCursors(r) ==
  /\ task[r] = "working" /\ work[r] = Resting
  /\ LET c == ConnectorOf[r]
     IN work' = [work EXCEPT ![r] =
          [pc |-> "listing", since |-> clock, at |-> Marker(c), prevAt |-> Done(c).at,
           prev |-> Done(c).synced, resume |-> CursorOfLast(c, "pending").ingested]]
  /\ UNCHANGED <<vars, source, stored, cursors, excuse>>

SameTree(r) == AdapterOf(r) = "tree" /\ work[r].prevAt = work[r].at

\* Mutant of EndUnchanged: the return is missing.
EndUnchangedGoesOn(r) ==
  /\ work[r].pc = "listing" /\ SameTree(r)
  /\ EndRun(r) /\ status'[r] = "completed"
  /\ cursor' = [cursor EXCEPT ![r] = [NoCursor EXCEPT !.at = work[r].at]]
  /\ UNCHANGED <<source, stored, began, work, excuse>>

\* Nothing changed: completed at once, with a cursor that names no documents.
EndUnchanged(r) ==
  /\ work[r].pc = "listing" /\ SameTree(r)
  /\ EndRun(r) /\ status'[r] = "completed"
  /\ cursor' = [cursor EXCEPT ![r] = [NoCursor EXCEPT !.at = work[r].at]]
  /\ Rest({r})
  /\ UNCHANGED <<source, stored, began, excuse>>

\* Mutant of Changed: a document edited since is taken for unchanged.
ChangedIfNew(r, d) == d \notin work[r].prev \/ work[r].prevAt = 0

\* What has to be fetched: new, edited since, or all of it, for want of a time.
Changed(r, d) ==
  \/ d \notin work[r].prev
  \/ AdapterOf(r) # "stamped" \/ work[r].prevAt = 0
  \/ edited[d] > work[r].prevAt

\* list_documents; documents an interrupted run has ingested are passed over.
List(r) ==
  /\ work[r].pc = "listing" /\ ~SameTree(r)
  /\ LET L == Listing(ConnectorOf[r])
         passed == L \intersect work[r].resume
     IN /\ work' = [work EXCEPT ![r] =
             [pc |-> "ingesting", since |-> @.since, at |-> @.at, prev |-> @.prev,
              resume |-> @.resume, seen |-> [d \in L |-> edited[d]],
              todo |-> {d \in L \ passed : Changed(r, d)},
              ok |-> Cardinality(passed) % CheckpointEvery, failed |-> FALSE]]
        /\ excuse' = Excused({d \in passed : stored[d] # edited[d]}, "resumed")
  /\ UNCHANGED <<vars, source, stored, cursors>>

\* Fetched now, or as it was when it was listed (a blob by its hash, a feed's cached record).
Fetched(r, d) == IF AdapterOf(r) = "stamped" THEN edited[d] ELSE work[r].seen[d]
Store(d, t) == stored' = [stored EXCEPT ![d] = t]
Unrecorded(d) == IF d \in Done(SourceOf[d]).synced THEN {} ELSE {"unrecorded"}

IngestDoc(r, d) ==
  /\ work[r].pc = "ingesting" /\ d \in work[r].todo
  /\ Store(d, Fetched(r, d))
  /\ LET n == (work[r].ok + 1) % CheckpointEvery
     IN work' = [work EXCEPT ![r] =
          [work[r] EXCEPT !.pc = IF n = 0 THEN "saving" ELSE "ingesting",
                          !.todo = @ \ {d}, !.resume = @ \union {d}, !.ok = n]]
  /\ excuse' = [excuse EXCEPT ![d] = (@ \ {"resumed", "short"}) \union Unrecorded(d)]
  /\ UNCHANGED <<vars, source, cursors>>

\* A document of less than 50 characters is not ingested, and counts as done.
SkipShort(r, d) ==
  /\ work[r].pc = "ingesting" /\ d \in work[r].todo
  /\ work' = [work EXCEPT ![r] = [work[r] EXCEPT !.todo = @ \ {d}, !.resume = @ \union {d}]]
  /\ excuse' = Excused({d}, "short")
  /\ UNCHANGED <<vars, source, stored, cursors>>

\* The fetch, the parser or the ingest fails, or only its answer is lost.
FailDoc(r, d) ==
  /\ work[r].pc = "ingesting" /\ d \in work[r].todo
  /\ work' = [work EXCEPT ![r] = [work[r] EXCEPT !.todo = @ \ {d}, !.failed = TRUE]]
  /\ \/ UNCHANGED <<stored, excuse>>
     \/ Store(d, Fetched(r, d)) /\ excuse' = [excuse EXCEPT ![d] = @ \union Unrecorded(d)]
  /\ UNCHANGED <<vars, source, cursors>>

Checkpoint(r) ==
  /\ work[r].pc = "saving"
  /\ cursor' = [cursor EXCEPT ![r] = [NoCursor EXCEPT !.ingested = work[r].resume]]
  /\ Does(r, "ingesting")
  /\ UNCHANGED <<vars, source, stored, began, excuse>>

\* Everything listed has been looked at: what has gone is retired, unless a document failed
\* or less than half of what there was is listed.
Gone(r) == work[r].prev \ DOMAIN work[r].seen
Shrunk(r) == Gone(r) # {} /\ Cardinality(DOMAIN work[r].seen) * 2 < Cardinality(work[r].prev)

MayRetire(r) == AdapterOf(r) = "snapshot" /\ ~work[r].failed

EndLoop(r) ==
  /\ work[r].pc = "ingesting" /\ work[r].todo = {}
  /\ work' = [work EXCEPT ![r] =
       [pc |-> "retiring", since |-> @.since, at |-> @.at, seen |-> DOMAIN @.seen,
        failed |-> @.failed,
        gone |-> IF MayRetire(r) /\ ~Shrunk(r) THEN Gone(r) ELSE {},
        kept |-> IF MayRetire(r) /\ Shrunk(r) THEN @.prev ELSE {}]]
  /\ UNCHANGED <<vars, source, stored, cursors, excuse>>

Retire(r, d) ==
  /\ work[r].pc = "retiring" /\ d \in work[r].gone
  /\ Store(d, 0)
  /\ work' = [work EXCEPT ![r].gone = @ \ {d}]
  /\ UNCHANGED <<vars, source, cursors, excuse>>

\* Mutant of RetireFails: the failed deletion is noted and the run completes.
RetireFailsQuietly(r, d) ==
  /\ work[r].pc = "retiring" /\ d \in work[r].gone
  /\ UNCHANGED stored \/ Store(d, 0)
  /\ work' = [work EXCEPT ![r].gone = {}]
  /\ UNCHANGED <<vars, source, cursors, excuse>>

\* The first deletion that fails, applied or not, ends the retirement and fails the run.
RetireFails(r, d) ==
  /\ work[r].pc = "retiring" /\ d \in work[r].gone
  /\ UNCHANGED stored \/ Store(d, 0)
  /\ work' = [work EXCEPT ![r].gone = {}, ![r].failed = TRUE]
  /\ UNCHANGED <<vars, source, cursors, excuse>>

\* Mutant of Named: what a refused retirement kept is forgotten.
NamedAsListed(r) == work[r].seen
Named(r) == work[r].seen \union work[r].kept

\* The row is closed; the cursor of a completed run names what was listed.
Finish(r) ==
  /\ work[r].pc = "retiring" /\ work[r].gone = {}
  /\ LET newest ==
           \A s \in RunsOf(ConnectorOf[r]) : status[s] = "completed" => began[s] < began[r]
     IN /\ EndRun(r) /\ status'[r] = IF work[r].failed THEN "failed" ELSE "completed"
        /\ cursor' = [cursor EXCEPT ![r] = IF work[r].failed THEN NoCursor
                         ELSE [NoCursor EXCEPT !.at = work[r].at, !.synced = Named(r)]]
        /\ excuse' = IF work[r].failed \/ ~newest THEN excuse
                     ELSE [d \in Docs |-> IF d \in Named(r) THEN excuse[d] \ {"unrecorded"}
                                          ELSE excuse[d]]
  /\ Rest({r})
  /\ UNCHANGED <<source, stored, began>>

\* The portal does not answer, the provider refuses, the listing or an adapter fails
\* (AUTH_ERROR, to which nothing here reacts otherwise, is taken for FAILED).
FailRun(r) ==
  /\ work[r].pc \notin {"saving", "retiring"}
  /\ EndRun(r) /\ status'[r] = "failed"
  /\ cursor' = [cursor EXCEPT ![r] = NoCursor]
  /\ Rest({r})
  /\ UNCHANGED <<source, stored, began, excuse>>

Documents(r) ==
  \/ ReadCursors(r) \/ EndUnchanged(r) \/ List(r)
  \/ \E d \in Docs : IngestDoc(r, d) \/ SkipShort(r, d) \/ FailDoc(r, d)
  \/ Checkpoint(r) \/ EndLoop(r)
  \/ \E d \in Docs : Retire(r, d) \/ RetireFails(r, d)
  \/ Finish(r) \/ FailRun(r)

InlineNext ==
  \/ \E d \in Docs : Edit(d) \/ Unlist(d) \/ Relist(d)
  \/ \E k \in Callers : \/ \E c \in Connectors : Open(k, c)
                        \/ InsertRun(k) /\ UNCHANGED documents
  \/ \E r \in Runs : Waits(r) /\ UNCHANGED documents
  \/ \E r \in Runs : Documents(r) \/ Breaks(r)
  \/ RestartAll

InlineSpec == InlineInit /\ [][InlineNext]_all

(***************************************************************************)
(* Properties                                                               *)
(***************************************************************************)
Cursors == [at : Nat, synced : SUBSET Docs, ingested : SUBSET Docs]

\* Every variable stays in its domain; only a run that has a slot has work.
WorkOK ==
  /\ adapter \in Adapters /\ clock \in Nat /\ listed \subseteq Docs
  /\ edited \in [Docs -> 1..clock] /\ stored \in [Docs -> 0..clock]
  /\ cursor \in [Runs -> Cursors] /\ excuse \in [Docs -> SUBSET Excuses]
  /\ \A r \in Runs : work[r] # Resting => task[r] = "working"

\* What the next run would pass over as unchanged is in the knowledge base as it is at the
\* source: documents not edited since the last cursor, or all of an unchanged tree.  Only
\* what an interrupted run's checkpoint named, and what was too short, may differ.
UnchangedIsStored ==
  \A d \in listed :
    LET c == SourceOf[d]
    IN /\ \/ adapter[c] = "stamped" /\ d \in Done(c).synced /\ edited[d] <= Done(c).at
          \/ adapter[c] = "tree" /\ Done(c).at = clock
       /\ excuse[d] \subseteq {"unrecorded"}
       => stored[d] = edited[d]

\* What the knowledge base holds of a source with complete listings is known to the
\* cursor that the next retirement goes by, or was ingested by a run that did not
\* complete.
StoredIsRecorded ==
  \A d \in Docs :
    adapter[SourceOf[d]] = "snapshot" /\ stored[d] # 0 /\ "unrecorded" \notin excuse[d] =>
      d \in Done(SourceOf[d]).synced

\* A run that completes while the source stayed as it was leaves the knowledge base as the
\* source is: every listed document as it was last edited, and, where listings are complete
\* and this one was not refused, no other.  The known gaps are the excuses.
MirrorsSource ==
  [][\A r \in Runs :
       task[r] = "working" /\ status'[r] = "completed" /\ work[r].since = clock =>
         \A d \in Docs : SourceOf[d] = ConnectorOf[r] =>
           IF d \in listed
           THEN excuse[d] \subseteq {"unrecorded"} => stored[d] = edited[d]
           ELSE AdapterOf(r) = "snapshot" /\ work[r].kept = {} /\ "unrecorded" \notin excuse[d] =>
                  stored[d] = 0
    ]_all
=============================================================================
