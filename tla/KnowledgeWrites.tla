--------------------------- MODULE KnowledgeWrites ---------------------------
(***************************************************************************)
(* One document of a knowledge base in its two stores: its versions in      *)
(* knowledge.artifacts, and the points in Qdrant that answer queries.       *)
(* Written by ingests (ingest_document), by enrichment jobs that replace    *)
(* the raw points with better ones, by a user who reindexes or deletes an   *)
(* upload, by a sync that deletes a connector's document, by the purge of   *)
(* the connector and by the reaper of stale pending rows.  PostgreSQL and   *)
(* Qdrant share no transaction: what keeps them together is the order of    *)
(* the steps and a few checks.  The document is an upload, comes from a     *)
(* connector or is a page of neither kind (of the docs editor, say), for    *)
(* good.                                                                    *)
(*                                                                          *)
(* Abstracted: replacing the points is one step (ReplacePoints has what     *)
(* happens inside); chunks, vectors, parents, images, graph episodes and    *)
(* taxonomy; renamed documents; the batches of a large one; the first,      *)
(* cached look at the fence (the fresh one decides); what a crawl's ingest  *)
(* does differently (its crawl has activated the generation).               *)
(***************************************************************************)
EXTENDS Naturals

CONSTANTS
  Ingests,     \* requests to ingest the document; each names the version it creates
  Texts,       \* what it may say; also its content hash
  Long,        \* texts of more chunks than enrichment accepts
  Bodiless,    \* what comes as chunks alone, so that no text is kept for enrichment
  Documents,   \* the document's origin, and what each ingest says, in the cases considered
  Workers,     \* enrichment slots
  Nobody,
  MaxEvents    \* bound: failures, deaths, and what users ask for besides ingests

ASSUME NobodyAssumption == Nobody \notin Ingests
ASSUME DocumentsAssumption ==
  Documents \subseteq [origin : {"upload", "connector", "page"}, says : [Ingests -> Texts]]
ASSUME EventsAssumption == MaxEvents \in Nat

VARIABLES
  origin, says,        \* "upload", "connector" or "page", and the texts: for good
  rows, open,          \* artifacts: the versions stored, the one whose belief_time_end is open
  index, body,         \* artifacts: index_status, extra.document_text
  points,              \* the version the points name and the text they hold
  todo,                \* enrichment jobs waiting in the queue
  ing,                 \* what an ingest is doing
  run,                 \* what a worker is doing
  reindexing,          \* a reindex request between its two steps
  deletion,            \* a request to delete the document
  connector,           \* portal_connectors.state
  fence, fenced,       \* connector_resource_fences: the generation, and whether it is deleting
  removal, purge,      \* DELETE of the connector, and its purge
  blame,               \* history: why the stores may disagree
  events

document == <<origin, says>>
artifacts == <<rows, open, index, body>>
connection == <<connector, fence, fenced, removal, purge>>
vars == <<document, artifacts, points, todo, ing, run, reindexing, deletion, connection, blame,
          events>>

Points == [of : Ingests, text : Texts]
Nothing == [of |-> Nobody]
Statuses == {"pending", "synced", "failed"}
Upload == origin = "upload"
Direct == origin # "connector"
\* A job's key is the connector generation that deferred it: the sync of one ingest.
Jobs == [art : Ingests, kind : {"ingest", "reindex"}, key : Ingests \union {Nobody}]
NoIngest(pc) == [pc |-> pc, seen |-> Nobody, art |-> Nobody]
Idle == [pc |-> "idle"]
Busy(w) == run[w] # Idle
At(w, pc) == Busy(w) /\ run[w].pc = pc
Art(w) == run[w].job.art
Live(a) == (\E j \in todo : j.art = a) \/ (\E w \in Workers : Busy(w) /\ Art(w) = a)
Event == events < MaxEvents /\ events' = events + 1
Step(i, pc) == ing' = [ing EXCEPT ![i].pc = pc]
EndIngest(i) == ing' = [ing EXCEPT ![i] = NoIngest("over")]
Moves(w, pc) == run' = [run EXCEPT ![w].pc = pc]
\* A queueing lock admits one waiting job of a kind for a version.
WithJob(j) ==
  IF \E k \in todo : k.art = j.art /\ k.kind = j.kind THEN todo ELSE todo \union {j}

Init ==
  /\ \E d \in Documents : origin = d.origin /\ says = d.says
  /\ rows = {} /\ open = Nobody
  /\ index = [i \in Ingests |-> "none"] /\ body = says
  /\ points = Nothing
  /\ todo = {}
  /\ ing = [i \in Ingests |-> NoIngest("new")]
  /\ run = [w \in Workers |-> Idle]
  /\ reindexing = Nobody /\ deletion = "none"
  /\ connector = (IF Direct THEN "none" ELSE "active")
  /\ fence = Nobody /\ fenced = FALSE
  /\ removal = "none" /\ purge = "none"
  /\ blame = {}
  /\ events = 0

(***************************************************************************)
(* Ingest                                                                   *)
(***************************************************************************)

\* connector_is_active asks the portal's table, or goes by an answer from up to five seconds
\* ago, which another document of the connector may have got; whether the five seconds are
\* over is left open.
MayRefuse == ~Direct /\ connector # "active"

\* Cancelled jobs: the waiting ones are gone, the running ones are told.
Cancel(keys) ==
  /\ todo' = {j \in todo : j.key \notin keys}
  /\ run' = [w \in Workers |-> IF Busy(w) /\ run[w].job.key \in keys
                               THEN [run[w] EXCEPT !.aborting = TRUE] ELSE run[w]]

\* A connector's document is admitted while the connector is active; the generation of its
\* sync becomes the connector's, and the jobs of the one before it are cancelled.
Admit(i) ==
  /\ ing[i].pc = "new" /\ ~Direct
  /\ fence' = i /\ fenced' = FALSE
  /\ Cancel({fence} \ {i, Nobody})
  /\ Step(i, "comparing")
  /\ UNCHANGED <<document, artifacts, points, reindexing, deletion, connector, removal, purge,
                 blame, events>>

\* No other document needs a connector; a connector's is skipped while that is deleted.
AdmitDirect(i) ==
  /\ ing[i].pc = "new" /\ Direct
  /\ Step(i, "comparing")
  /\ UNCHANGED <<document, artifacts, points, todo, run, reindexing, deletion, connection, blame,
                 events>>

SkipInactive(i) ==
  /\ ing[i].pc = "new" /\ MayRefuse
  /\ EndIngest(i)
  /\ UNCHANGED <<document, artifacts, points, todo, run, reindexing, deletion, connection, blame,
                 events>>

\* Mutant of Unchanged: a version that is not indexed yet counts too.
UnchangedEvenIfPending(i) == open # Nobody /\ says[open] = says[i]

\* get_active_artifact_state: only a synced version makes an ingest superfluous.
Unchanged(i) == open # Nobody /\ index[open] = "synced" /\ says[open] = says[i]

Compare(i) ==
  /\ ing[i].pc = "comparing"
  /\ IF Unchanged(i) THEN EndIngest(i)
     ELSE ing' = [ing EXCEPT ![i] = [pc |-> "creating", seen |-> open, art |-> Nobody]]
  /\ UNCHANGED <<document, artifacts, points, todo, run, reindexing, deletion, connection, blame,
                 events>>

\* Mutant of Create: the row says synced, create_artifact's default, from the start.
CreateSynced(i) ==
  /\ ing[i].pc = "creating"
  /\ rows' = rows \union {i} /\ open' = i
  /\ index' = [index EXCEPT ![i] = "synced"]
  /\ ing' = [ing EXCEPT ![i] = [pc |-> "writing", seen |-> Nobody, art |-> i]]
  /\ UNCHANGED <<document, body, points, todo, run, reindexing, deletion, connection, blame,
                 events>>

\* The transaction closes the open version, if any, and creates a new one.
Create(i) ==
  /\ ing[i].pc = "creating"
  /\ rows' = rows \union {i} /\ open' = i
  /\ index' = [index EXCEPT ![i] = "pending"]
  /\ ing' = [ing EXCEPT ![i] = [pc |-> "writing", seen |-> Nobody, art |-> i]]
  /\ UNCHANGED <<document, body, points, todo, run, reindexing, deletion, connection, blame,
                 events>>

\* A version opened while the transaction was looking for one to close is not seen: the
\* unique index refuses the new row, and the ingest goes on with the winner's.
LoseRace(i) ==
  /\ ing[i].pc = "creating" /\ open \notin {ing[i].seen, Nobody}
  /\ ing' = [ing EXCEPT ![i] = [pc |-> "writing", seen |-> Nobody, art |-> open]]
  /\ UNCHANGED <<document, artifacts, points, todo, run, reindexing, deletion, connection, blame,
                 events>>

\* What becomes of blame when text is written under a version's name.
Verdict(a, text) ==
  IF a # open THEN {"overtaken"} ELSE IF text # says[a] THEN {"raced"} ELSE {}

\* upsert_chunks replaces the points, whatever has become of the version.
WriteRaw(i) ==
  /\ ing[i].pc = "writing"
  /\ points' = [of |-> ing[i].art, text |-> says[i]]
  /\ blame' = Verdict(ing[i].art, says[i])
  /\ Step(i, "deferring")
  /\ UNCHANGED <<document, artifacts, todo, run, reindexing, deletion, connection, events>>

\* The payload goes to the version's extra, and an enrichment job into the queue, unless
\* the policy or the organisation does without (the ingest counts its chunks, the worker
\* those of the text).  Only an upload stays pending until its enrichment is done.
DeferEnrichment(i) ==
  /\ ing[i].pc = "deferring"
  /\ body' = [body EXCEPT ![ing[i].art] = says[i]]
  /\ \/ /\ todo' = WithJob([art |-> ing[i].art, kind |-> "ingest",
                            key |-> IF Direct THEN Nobody ELSE i])
        /\ IF Upload THEN EndIngest(i) ELSE Step(i, "settling")
     \/ Step(i, "settling") /\ UNCHANGED todo
  /\ UNCHANGED <<document, rows, open, index, points, run, reindexing, deletion, connection,
                 blame, events>>

\* Mutant of Settle: a version that is gone gets a status too.
SettleAnyway(i) ==
  /\ ing[i].pc = "settling"
  /\ index' = [index EXCEPT ![ing[i].art] = "synced"]
  /\ EndIngest(i)
  /\ UNCHANGED <<document, rows, open, body, points, todo, run, reindexing, deletion, connection,
                 blame, events>>

\* set_artifact_ingest_status: by id, open or closed; a version that is gone is an error.
Settle(i) ==
  /\ ing[i].pc = "settling"
  /\ index' = IF ing[i].art \in rows THEN [index EXCEPT ![ing[i].art] = "synced"] ELSE index
  /\ EndIngest(i)
  /\ UNCHANGED <<document, rows, open, body, points, todo, run, reindexing, deletion, connection,
                 blame, events>>

\* An ingest fails or its process dies.
IngestFails(i) ==
  /\ ing[i].pc \notin {"new", "over"}
  /\ Event
  /\ blame' = IF ing[i].pc = "writing" /\ ing[i].art = open
               THEN blame \union {"unwritten"} ELSE blame
  /\ EndIngest(i)
  /\ UNCHANGED <<document, artifacts, points, todo, run, reindexing, deletion, connection>>

(***************************************************************************)
(* Enrichment                                                               *)
(***************************************************************************)

\* What _load_and_enrich does not send to the LLM: too many chunks, or no text.
Refused == Long \union Bodiless

\* _load_and_enrich takes the version as it is now, if it is still open ...
PickUp(w, j) ==
  /\ run[w] = Idle
  /\ todo' = todo \ {j}
  /\ open = j.art
  /\ run' = [run EXCEPT ![w] =
               [pc |-> IF body[j.art] \in Refused THEN "waiving" ELSE "enriching", job |-> j,
                text |-> body[j.art], sure |-> FALSE, aborting |-> FALSE]]
  /\ UNCHANGED <<document, artifacts, points, ing, reindexing, deletion, connection, blame,
                 events>>

\* ... and its connector may be active.
PickUpInVain(j) ==
  /\ open # j.art \/ MayRefuse
  /\ todo' = todo \ {j}
  /\ UNCHANGED <<document, artifacts, points, ing, run, reindexing, deletion, connection, blame,
                 events>>

EndJob(w) == run' = [run EXCEPT ![w] = Idle]

\* The open version has no points of its own yet: its ingest is still to write them, or
\* ended before.
Unwritten ==
  "unwritten" \in blame \/ \E i \in Ingests : ing[i].pc = "writing" /\ ing[i].art = open

\* The fence, asked anew: the connector's row and its generation.
FenceHolds(key) == key = Nobody \/ (connector = "active" /\ fence = key /\ ~fenced)

\* Mutant of Recheck: the version is not looked at again.
RecheckNot(w) ==
  /\ At(w, "enriching")
  /\ run' = [run EXCEPT ![w].pc = "writing", ![w].sure = open = Art(w)]
  /\ UNCHANGED <<document, artifacts, points, todo, ing, reindexing, deletion, connection, blame,
                 events>>

\* After the LLM: artifact_is_active, then the fence.
Recheck(w) ==
  /\ At(w, "enriching")
  /\ IF open = Art(w) /\ FenceHolds(run[w].job.key)
     THEN run' = [run EXCEPT ![w].pc = "writing", ![w].sure = TRUE]
     ELSE EndJob(w)
  /\ UNCHANGED <<document, artifacts, points, todo, ing, reindexing, deletion, connection, blame,
                 events>>

\* upsert_enriched_chunks.  Only a version that was open when looked at can be overtaken.
WriteEnriched(w) ==
  /\ At(w, "writing")
  /\ points' = [of |-> Art(w), text |-> run[w].text]
  /\ blame' = IF run[w].sure THEN Verdict(Art(w), run[w].text) ELSE {}
  /\ IF Direct THEN Moves(w, "settling") ELSE EndJob(w)
  /\ UNCHANGED <<document, artifacts, todo, ing, reindexing, deletion, connection, events>>

\* set_artifact_index_status, for what is no connector's: a closed version is opened again,
\* and whichever was open is closed.
Reopens(a, why) == IF open = a THEN {} ELSE {why}
SetStatus(a, s, why) ==
  /\ index' = [index EXCEPT ![a] = s]
  /\ open' = a
  /\ blame' = blame \union why

SettleEnriched(w) ==
  /\ At(w, "settling")
  /\ SetStatus(Art(w), "synced", Reopens(Art(w), "resurrected"))
  /\ EndJob(w)
  /\ UNCHANGED <<document, rows, body, points, todo, ing, reindexing, deletion, connection,
                 events>>

\* What is refused gets its status all the same, and no points: those of the ingest are to
\* do, if it came to write them.
Waive(w) ==
  /\ At(w, "waiving")
  /\ \/ ~Direct /\ UNCHANGED <<index, open, blame>>
     \/ /\ Direct /\ run[w].text \in Long
        /\ SetStatus(Art(w), "synced", IF open = Art(w) /\ Unwritten THEN {"waived"}
                                       ELSE Reopens(Art(w), "resurrected"))
     \/ /\ Direct /\ run[w].text \notin Long
        /\ SetStatus(Art(w), "failed", Reopens(Art(w), "resurrected"))
  /\ EndJob(w)
  /\ UNCHANGED <<document, rows, body, points, todo, ing, reindexing, deletion, connection,
                 events>>

\* The job is put back: for a retry, for another try when the LLM has capacity again, or
\* because its worker died (it stays in "doing" until the recovery of stalled jobs finds it).
PutBack(w) == todo' = WithJob(run[w].job) /\ EndJob(w)

\* An error of the LLM fails the version, whatever has become of it, unless it is a
\* connector's, and is retried a few times; any other is swallowed.
EnrichmentFails(w) ==
  /\ Busy(w) /\ run[w].pc \in {"enriching", "writing", "settling"}
  /\ Event
  /\ IF Direct THEN SetStatus(Art(w), "failed", Reopens(Art(w), "resurrected"))
     ELSE UNCHANGED <<index, open, blame>>
  /\ \/ run[w].pc = "enriching" /\ PutBack(w)
     \/ EndJob(w) /\ UNCHANGED todo
  /\ UNCHANGED <<document, rows, body, points, ing, reindexing, deletion, connection>>

\* No capacity, a killed worker, an exception before the handler, a shutdown.
Interrupted(w) ==
  /\ Busy(w)
  /\ Event
  /\ PutBack(w) \/ (EndJob(w) /\ UNCHANGED todo)
  /\ UNCHANGED <<document, artifacts, points, ing, reindexing, deletion, connection, blame>>

\* A cancellation reaches the running job at one of its awaits.
Aborted(w) ==
  /\ Busy(w) /\ run[w].aborting
  /\ EndJob(w)
  /\ UNCHANGED <<document, artifacts, points, todo, ing, reindexing, deletion, connection, blame,
                 events>>

\* Mutant of Stale: only uploads.
StaleUpload == Upload /\ open # Nobody /\ index[open] = "pending" /\ ~Live(open)

\* mark_stale_pending_artifacts_failed: pending and open, old enough, and no live job.
Stale == open # Nobody /\ index[open] = "pending" /\ ~Live(open)

Reap ==
  /\ Stale
  /\ index' = [index EXCEPT ![open] = "failed"]
  /\ UNCHANGED <<document, rows, open, body, points, todo, ing, run, reindexing, deletion,
                 connection, blame, events>>

(***************************************************************************)
(* Reindexing and deleting the document                                     *)
(***************************************************************************)

\* POST .../reindex: the version is pending (and open) again, ...
Reindex(a) ==
  /\ Direct /\ reindexing = Nobody /\ a \in rows
  /\ Event
  /\ SetStatus(a, "pending", Reopens(a, "reopened"))
  /\ reindexing' = a
  /\ UNCHANGED <<document, rows, body, points, todo, ing, run, deletion, connection>>

\* ... then an enrichment job is deferred, or is not.
DeferReindex ==
  /\ reindexing # Nobody
  /\ \/ /\ todo' = WithJob([art |-> reindexing, kind |-> "reindex", key |-> Nobody])
        /\ UNCHANGED events
     \/ Event /\ UNCHANGED todo
  /\ reindexing' = Nobody
  /\ UNCHANGED <<document, artifacts, points, ing, run, deletion, connection, blame>>

\* Deleting the document closes its row, ...
CloseDocument ==
  /\ deletion = "none" /\ open # Nobody
  /\ Event
  /\ open' = Nobody
  /\ deletion' = "closed"
  /\ UNCHANGED <<document, rows, index, body, points, todo, ing, run, reindexing, connection,
                 blame>>

\* The points of the path, of the document or of the connector, whoever wrote them.
Wipe ==
  /\ points' = Nothing
  /\ blame' = IF open = Nobody THEN {} ELSE {"wiped"}

\* ... then deletes the points, ...
WipeDocument ==
  /\ deletion = "closed"
  /\ Wipe
  /\ deletion' = IF Direct THEN "none" ELSE "wiped"
  /\ UNCHANGED <<document, artifacts, todo, ing, run, reindexing, connection, events>>

\* The rows are deleted; points written in between keep their place.
DropRows ==
  /\ rows' = {} /\ open' = Nobody
  /\ index' = [i \in Ingests |-> "none"]
  /\ UNCHANGED body

\* ... and a connector's rows, the versions that came meanwhile included.
DropDocument ==
  /\ deletion = "wiped"
  /\ DropRows
  /\ blame' = blame \union {"dropped"}
  /\ deletion' = "none"
  /\ UNCHANGED <<document, points, todo, ing, run, reindexing, connection, events>>

DeletionFails ==
  /\ deletion \in {"closed", "wiped"}
  /\ Event
  /\ deletion' = "none"
  /\ blame' = blame \union {"halted"}
  /\ UNCHANGED <<document, artifacts, points, todo, ing, run, reindexing, connection>>

(***************************************************************************)
(* Deleting the connector                                                   *)
(***************************************************************************)

\* DELETE: the connector is marked, ...
Remove ==
  /\ connector = "active" /\ removal = "none" /\ purge = "none"
  /\ Event
  /\ connector' = "deleting" /\ removal' = "marked"
  /\ UNCHANGED <<document, artifacts, points, todo, ing, run, reindexing, deletion, fence,
                 fenced, purge, blame>>

\* ... its purge put into the queue, ...
PurgeArrives ==
  /\ removal = "marked"
  /\ purge' = "queued" /\ removal' = "queued"
  /\ UNCHANGED <<document, artifacts, points, todo, ing, run, reindexing, deletion, connector,
                 fence, fenced, blame, events>>

\* ... and that answered.
PurgeAnswered ==
  /\ removal = "queued"
  /\ removal' = "none"
  /\ UNCHANGED <<document, artifacts, points, todo, ing, run, reindexing, deletion, connector,
                 fence, fenced, purge, blame, events>>

\* Without an answer the mark is taken back, although the purge may be under way.
RemovalFails ==
  /\ removal \in {"marked", "queued"}
  /\ Event
  /\ connector' = IF connector = "deleting" THEN "active" ELSE connector
  /\ removal' = "none"
  /\ UNCHANGED <<document, artifacts, points, todo, ing, run, reindexing, deletion, fence,
                 fenced, purge, blame>>

\* purge_connector lists the document's generations, fences the current one off and cancels
\* their jobs (a generation activated meanwhile might as well come after), ...
PurgeFences ==
  /\ purge = "queued"
  /\ fenced' = (fence # Nobody)
  /\ Cancel((rows \union {fence}) \ {Nobody})
  /\ purge' = "fenced"
  /\ UNCHANGED <<document, artifacts, points, ing, reindexing, deletion, connector,
                 fence, removal, blame, events>>

\* ... deletes the rows, ...
PurgeRows ==
  /\ purge = "fenced"
  /\ DropRows
  /\ purge' = "dropped"
  /\ UNCHANGED <<document, points, todo, ing, run, reindexing, deletion, connector, fence,
                 fenced, removal, blame, events>>

\* ... then the points, and at last the fence, ...
PurgePoints ==
  /\ purge = "dropped"
  /\ Wipe
  /\ fence' = Nobody /\ fenced' = FALSE
  /\ purge' = "wiped"
  /\ UNCHANGED <<document, artifacts, todo, ing, run, reindexing, deletion, connector,
                 removal, events>>

\* ... and has the portal delete the connector, unless that has been taken back: the job is
\* then retried too, from the start, and gives up some time.
Finalise ==
  /\ purge = "wiped"
  /\ IF connector = "active"
     THEN purge' \in {"queued", "none"} /\ UNCHANGED connector
     ELSE connector' = "gone" /\ purge' = "none"
  /\ UNCHANGED <<document, artifacts, points, todo, ing, run, reindexing, deletion, fence,
                 fenced, removal, blame, events>>

\* A step of the purge fails, or its worker dies; it is tried again from the start, up to
\* five times (MaxEvents stays below).
PurgeFails ==
  /\ purge \notin {"none", "queued"}
  /\ Event
  /\ blame' = IF purge = "dropped" THEN blame \union {"halted"} ELSE blame
  /\ purge' = "queued"
  /\ UNCHANGED <<document, artifacts, points, todo, ing, run, reindexing, deletion, connector,
                 fence, fenced, removal>>

IngestNext(i) ==
  Admit(i) \/ AdmitDirect(i) \/ SkipInactive(i) \/ Compare(i) \/ Create(i) \/ LoseRace(i)
  \/ WriteRaw(i) \/ DeferEnrichment(i) \/ Settle(i) \/ IngestFails(i)
WorkerStep(w) ==
  (\E j \in todo : PickUp(w, j) \/ PickUpInVain(j)) \/ Recheck(w) \/ WriteEnriched(w)
  \/ SettleEnriched(w) \/ Waive(w)
EnrichmentNext(w) == WorkerStep(w) \/ EnrichmentFails(w) \/ Interrupted(w) \/ Aborted(w)
DeletionNext == CloseDocument \/ WipeDocument \/ DropDocument \/ DeletionFails
RemovalNext == Remove \/ PurgeArrives \/ PurgeAnswered \/ RemovalFails
PurgeStep == PurgeFences \/ PurgeRows \/ PurgePoints \/ Finalise

Next ==
  \/ \E i \in Ingests : IngestNext(i)
  \/ \E w \in Workers : EnrichmentNext(w)
  \/ \E a \in Ingests : Reindex(a)
  \/ DeferReindex \/ Reap
  \/ DeletionNext \/ RemovalNext \/ PurgeStep \/ PurgeFails

Spec == Init /\ [][Next]_vars

\* Workers and the reaper go on; nobody has to ask for anything, and an ingest may hang.
FairSpec ==
  /\ Spec
  /\ \A w \in Workers : WF_vars(WorkerStep(w))
  /\ WF_vars(Reap)

(***************************************************************************)
(* Properties                                                               *)
(***************************************************************************)

\* The state is well typed: an open version is a stored one, and a version has a status as
\* long as it is stored.
TypeOK ==
  /\ [origin |-> origin, says |-> says] \in Documents
  /\ rows \subseteq Ingests /\ open \in rows \union {Nobody}
  /\ index \in [Ingests -> Statuses \union {"none"}]
  /\ \A i \in Ingests : i \in rows <=> index[i] # "none"
  /\ body \in [Ingests -> Texts]
  /\ points \in Points \union {Nothing}
  /\ todo \subseteq Jobs
  /\ ing \in [Ingests ->
       [pc : {"new", "comparing", "creating", "writing", "deferring", "settling", "over"},
        seen : Ingests \union {Nobody}, art : Ingests \union {Nobody}]]
  /\ run \in [Workers -> {Idle} \union
       [pc : {"waiving", "enriching", "writing", "settling"}, job : Jobs,
        text : Texts, sure : BOOLEAN, aborting : BOOLEAN]]
  /\ reindexing \in Ingests \union {Nobody}
  /\ deletion \in {"none", "closed", "wiped"}
  /\ connector \in {"none", "active", "deleting", "gone"}
  /\ fence \in Ingests \union {Nobody} /\ fenced \in BOOLEAN
  /\ removal \in {"none", "marked", "queued"}
  /\ purge \in {"none", "queued", "fenced", "dropped", "wiped"}
  /\ blame \subseteq {"overtaken", "raced", "unwritten", "halted", "resurrected", "reopened",
                      "wiped", "waived", "dropped"}
  /\ events \in 0 .. MaxEvents

\* "Only a synced artifact promises chunks in Qdrant" (consistency_reconcile.py): the open
\* version, when synced, is what queries find, with the text it was ingested with, unless
\* the last writer was overtaken by a newer version or a deletion, two ingests raced to
\* create the version, its points were deleted under it, a closed version was opened again
\* by a late enrichment or a reindex, or a text too long for enrichment was waived, on a
\* reindex, before its ingest had written it.
Excuses == {"overtaken", "raced", "wiped", "resurrected", "reopened", "waived"}
SyncedIsSearchable ==
  open # Nobody /\ index[open] = "synced" =>
    \/ points = [of |-> open, text |-> says[open]]
    \/ blame \intersect Excuses # {}

\* An ingest skipped as unchanged finds its text searchable, with the same exceptions.
UnchangedIsSearchable ==
  [][\A i \in Ingests :
       ing[i].pc = "comparing" /\ ing'[i].pc = "over" /\ events' = events =>
         \/ points # Nothing /\ points.text = says[i]
         \/ blame \intersect Excuses # {}]_vars

\* Between the stores: a version created and not yet written, a document or a connector
\* being deleted.
InBetween ==
  \/ \E i \in Ingests : ing[i].pc = "writing" /\ ing[i].art = open
  \/ deletion = "closed" \/ purge = "dropped"

\* The other half of the daily reconciliation: points belong to the open version, but in
\* the moments in between, unless a step between the stores failed for good, a deletion
\* dropped a version that came meanwhile, a closed version was opened again, or the last
\* writer was overtaken; an enrichment is overtaken only if its version was open after its
\* LLM calls.
PointsAreOwned ==
  points # Nothing =>
    \/ points.of = open \/ InBetween
    \/ blame \intersect {"overtaken", "resurrected", "reopened", "unwritten", "halted", "dropped"}
         # {}

\* An open version does not stay pending, whatever becomes of its ingest and its jobs: the
\* ingest, the enrichment or the reaper settles it, or it is closed.
Pending == open # Nobody /\ index[open] = "pending"
PendingSettles == Pending ~> ~Pending

=============================================================================
