----------------------- MODULE KnowledgeWrites_proofs -----------------------
(* What keeps a document's two stores together, for any number of ingests,   *)
(* workers and events.                                                       *)
EXTENDS KnowledgeWrites, TLAPS

IngestStates ==
  [pc : {"new", "comparing", "creating", "writing", "deferring", "settling", "over"},
   seen : Ingests \union {Nobody}, art : Ingests \union {Nobody}]
JobStates ==
  [pc : {"waiving", "enriching", "writing", "settling"}, job : Jobs, text : Texts, sure : BOOLEAN,
   aborting : BOOLEAN]

\* The purge and the last step of a deletion are for connectors' documents, so the rows of
\* others stay; only their jobs write a status.
OriginInv ==
  /\ Direct => connector = "none" /\ removal = "none" /\ purge = "none" /\ deletion # "wiped"
  /\ \A w \in Workers : Busy(w) /\ Direct => Art(w) \in rows
  /\ \A w \in Workers : At(w, "settling") => Direct

\* A version that is stored, written or enriched was created by its ingest, so no ingest
\* that is still to create its version finds it written.
Made == {i \in Ingests : ing[i].pc \in {"writing", "deferring", "settling", "over"}}
Writes(i) == ing[i].pc \in {"writing", "deferring", "settling"}
ReferenceInv ==
  /\ rows \subseteq Made
  /\ \A i \in Ingests : ing[i].art \in Made \union {Nobody}
  /\ \A i \in Ingests : Writes(i) => ing[i].art # Nobody
  /\ \A w \in Workers : Busy(w) => Art(w) \in Made

\* A job writes only when its version was open after its LLM calls.
SureInv == \A w \in Workers : At(w, "writing") \/ At(w, "settling") => run[w].sure

\* Whoever is about to report the open version as synced has written it, as queries find it
\* or with one of the exceptions.
Promised(a) ==
  \/ index[a] = "synced"
  \/ \E i \in Ingests : ing[i].pc \in {"deferring", "settling"} /\ ing[i].art = a
  \/ \E w \in Workers : At(w, "settling") /\ Art(w) = a
Searchable ==
  \/ points = [of |-> open, text |-> says[open]]
  \/ blame \intersect Excuses # {}
PromiseInv == open # Nobody /\ Promised(open) => Searchable

\* An open version without points of its own is one its ingest has not written, or has an
\* excuse.
WrittenInv == open # Nobody => Searchable \/ Unwritten

\* A purge is asked for only when the last one is over.
RemovalInv == removal = "marked" => purge = "none"

KnowledgeInv ==
  OriginInv /\ ReferenceInv /\ SureInv /\ RemovalInv /\ WrittenInv /\ PromiseInv
  /\ PointsAreOwned
-----------------------------------------------------------------------------
(* Ingests and jobs, one step at a time *)

\* What a document's origin and texts can be.
LEMMA DocumentIs ==
  ASSUME TypeOK
  PROVE  origin \in {"upload", "connector", "page"} /\ says \in [Ingests -> Texts]
BY DocumentsAssumption DEF TypeOK

\* An ingest stands at one of its points, with a version and what it has seen of the others.
LEMMA IngestTypes == ASSUME TypeOK PROVE ing \in [Ingests -> IngestStates]
BY DEF TypeOK, IngestStates

\* A worker is idle or executes one job.
LEMMA JobTypes == ASSUME TypeOK PROVE run \in [Workers -> {Idle} \union JobStates]
BY DEF TypeOK, JobStates

\* Where an ingest goes in one step, and the version it then has.
IngestGoes(i, x) ==
  \/ ing[i].pc = "new" /\ x.pc = "comparing" /\ x.art = ing[i].art
  \/ ing[i].pc = "comparing" /\ x.pc = "creating" /\ x.art = Nobody
  \/ ing[i].pc = "creating" /\ x.pc = "writing" /\ x.art \in {i, open} \ {Nobody}
  \/ ing[i].pc = "writing" /\ x.pc = "deferring" /\ x.art = ing[i].art
  \/ ing[i].pc = "deferring" /\ x.pc = "settling" /\ x.art = ing[i].art
  \/ x.pc = "over" /\ x.art = Nobody

\* An ingest takes its step alone, and stays well typed.
LEMMA IngestSteps ==
  ASSUME TypeOK, NEW i \in Ingests, IngestNext(i)
  PROVE  \E x \in IngestStates : ing' = [ing EXCEPT ![i] = x] /\ IngestGoes(i, x)
<1>t. ing \in [Ingests -> IngestStates] /\ open \in Ingests \union {Nobody}
  BY IngestTypes DEF TypeOK
<1> DEFINE y == ing[i]
           Goal == \E x \in IngestStates : ing' = [ing EXCEPT ![i] = x] /\ IngestGoes(i, x)
<1>y. y \in IngestStates
  BY <1>t
<1>s. ASSUME NEW p \in {"comparing", "deferring", "settling"}, Step(i, p),
             \/ y.pc = "new" /\ p = "comparing"
             \/ y.pc = "writing" /\ p = "deferring"
             \/ y.pc = "deferring" /\ p = "settling"
      PROVE  Goal
  <2>1. [y EXCEPT !.pc = p] \in IngestStates
    BY <1>y DEF IngestStates
  <2>2. [y EXCEPT !.pc = p].pc = p /\ [y EXCEPT !.pc = p].art = y.art
    BY <1>y DEF IngestStates
  <2>3. ing' = [ing EXCEPT ![i] = [y EXCEPT !.pc = p]]
    BY <1>s, <1>t DEF Step
  <2> QED
    BY <2>1, <2>2, <2>3, <1>s DEF IngestGoes
<1>e. ASSUME EndIngest(i) PROVE Goal
  <2>1. NoIngest("over") \in IngestStates
    BY DEF IngestStates, NoIngest
  <2>2. NoIngest("over").pc = "over" /\ NoIngest("over").art = Nobody
    BY DEF NoIngest
  <2> QED
    BY <1>e, <2>1, <2>2 DEF EndIngest, IngestGoes
<1>w. ASSUME NEW a \in {i, open} \ {Nobody}, y.pc = "creating",
             ing' = [ing EXCEPT ![i] = [pc |-> "writing", seen |-> Nobody, art |-> a]]
      PROVE  Goal
  <2>1. [pc |-> "writing", seen |-> Nobody, art |-> a] \in IngestStates
    BY <1>t DEF IngestStates
  <2> QED
    BY <1>w, <2>1 DEF IngestGoes
<1>1. CASE Admit(i)
  BY <1>1, <1>s DEF Admit
<1>2. CASE AdmitDirect(i)
  BY <1>2, <1>s DEF AdmitDirect
<1>3. CASE SkipInactive(i)
  BY <1>3, <1>e DEF SkipInactive
<1>4. CASE Compare(i)
  <2>1. CASE Unchanged(i)
    BY <1>4, <2>1, <1>e DEF Compare
  <2>2. CASE ~Unchanged(i)
    <3>1. [pc |-> "creating", seen |-> open, art |-> Nobody] \in IngestStates
      BY <1>t DEF IngestStates
    <3>2. /\ ing' = [ing EXCEPT ![i] = [pc |-> "creating", seen |-> open, art |-> Nobody]]
          /\ y.pc = "comparing"
      BY <1>4, <2>2 DEF Compare
    <3> QED
      BY <3>1, <3>2 DEF IngestGoes
  <2> QED
    BY <2>1, <2>2
<1>5. CASE Create(i)
  <2>1. i \in {i, open} \ {Nobody}
    BY NobodyAssumption
  <2> QED
    BY <1>5, <2>1, <1>w DEF Create
<1>6. CASE LoseRace(i)
  <2>1. open \in {i, open} \ {Nobody}
    BY <1>6 DEF LoseRace
  <2> QED
    BY <1>6, <2>1, <1>w DEF LoseRace
<1>7. CASE WriteRaw(i)
  BY <1>7, <1>s DEF WriteRaw
<1>8. CASE DeferEnrichment(i)
  <2>1. y.pc = "deferring" /\ (EndIngest(i) \/ Step(i, "settling"))
    BY <1>8 DEF DeferEnrichment
  <2> QED
    BY <2>1, <1>s, <1>e
<1>9. CASE Settle(i)
  BY <1>9, <1>e DEF Settle
<1>10. CASE IngestFails(i)
  BY <1>10, <1>e DEF IngestFails
<1> QED
  BY <1>1, <1>2, <1>3, <1>4, <1>5, <1>6, <1>7, <1>8, <1>9, <1>10 DEF IngestNext

\* Nobody else moves an ingest.
LEMMA IngestsMove ==
  ASSUME TypeOK, [Next]_vars
  PROVE  /\ ing' \in [Ingests -> IngestStates]
         /\ \A i \in Ingests : ing'[i] = ing[i] \/ IngestGoes(i, ing'[i])
<1>t. ing \in [Ingests -> IngestStates]
  BY IngestTypes
<1>1. ASSUME NEW i \in Ingests, IngestNext(i)
      PROVE  /\ ing' \in [Ingests -> IngestStates]
             /\ \A k \in Ingests : ing'[k] = ing[k] \/ IngestGoes(k, ing'[k])
  <2>1. PICK x \in IngestStates : ing' = [ing EXCEPT ![i] = x] /\ IngestGoes(i, x)
    BY <1>1, IngestSteps
  <2> QED
    BY <1>t, <2>1
<1>2. (\E i \in Ingests : IngestNext(i)) \/ UNCHANGED ing
  BY DEF Next, vars, EnrichmentNext, WorkerStep, PickUp, PickUpInVain, Recheck, WriteEnriched,
         SettleEnriched, Waive, EnrichmentFails, Interrupted, Aborted, Reindex, DeferReindex, Reap,
         DeletionNext, CloseDocument, WipeDocument, DropDocument, DeletionFails, RemovalNext,
         Remove, PurgeArrives, PurgeAnswered, RemovalFails, PurgeStep, PurgeFences, PurgeRows,
         PurgePoints, Finalise, PurgeFails
<1> QED
  BY <1>t, <1>1, <1>2

\* A job on its way: nothing but the cancellation may reach it, or it ends, begins with the
\* open version, or goes on with what it has.
SameJob(w) ==
  /\ Busy(w)' <=> Busy(w)
  /\ Busy(w) => /\ run'[w].pc = run[w].pc /\ run'[w].job = run[w].job
                /\ run'[w].text = run[w].text /\ run'[w].sure = run[w].sure
BeginsJob(w) ==
  /\ ~Busy(w) /\ Busy(w)'
  /\ run'[w].pc \in {"waiving", "enriching"} /\ run'[w].job.art = open /\ open # Nobody
GoesOn(w) ==
  /\ Busy(w) /\ Busy(w)' /\ run'[w].job = run[w].job
  /\ \/ run[w].pc = "enriching" /\ run'[w].pc = "writing" /\ run'[w].sure
     \/ run[w].pc = "writing" /\ run'[w].pc = "settling" /\ run'[w].sure = run[w].sure /\ Direct
JobGoes(w) == SameJob(w) \/ ~Busy(w)' \/ BeginsJob(w) \/ GoesOn(w)

\* A record of a job is not the idle one.
LEMMA JobsAreBusy == ASSUME NEW x \in JobStates PROVE x # Idle
<1>1. x.pc # "idle"
  BY DEF JobStates
<1>2. Idle.pc = "idle"
  BY DEF Idle
<1> QED
  BY <1>1, <1>2

\* A cancellation tells running jobs, and takes waiting ones.
LEMMA CancelKeepsJobs ==
  ASSUME TypeOK, NEW keys, Cancel(keys)
  PROVE  /\ run' \in [Workers -> {Idle} \union JobStates] /\ todo' \subseteq todo
         /\ \A w \in Workers : SameJob(w)
<1>t. run \in [Workers -> {Idle} \union JobStates]
  BY JobTypes
<1>1. ASSUME NEW w \in Workers
      PROVE  run'[w] \in {Idle} \union JobStates /\ SameJob(w)
  <2>1. CASE Busy(w) /\ run[w].job.key \in keys
    <3>1. run'[w] = [run[w] EXCEPT !.aborting = TRUE]
      BY <2>1 DEF Cancel
    <3>2. run[w] \in JobStates
      BY <2>1, <1>t DEF Busy
    <3>3. /\ run'[w] \in JobStates
          /\ run'[w].pc = run[w].pc /\ run'[w].job = run[w].job
          /\ run'[w].text = run[w].text /\ run'[w].sure = run[w].sure
      BY <3>1, <3>2 DEF JobStates
    <3>4. Busy(w)'
      BY <3>3, JobsAreBusy DEF Busy
    <3> QED
      BY <2>1, <3>3, <3>4 DEF SameJob
  <2>2. CASE ~(Busy(w) /\ run[w].job.key \in keys)
    BY <2>2, <1>t DEF Cancel, SameJob, Busy
  <2> QED
    BY <2>1, <2>2
<1>2. run' = [w \in Workers |-> run'[w]]
  BY DEF Cancel
<1>3. todo' \subseteq todo
  BY DEF Cancel
<1> QED
  BY <1>1, <1>2, <1>3

\* A worker's steps leave the other workers' jobs alone.
LEMMA WorkerSteps ==
  ASSUME TypeOK, NEW w \in Workers, EnrichmentNext(w)
  PROVE  \/ UNCHANGED run
         \/ \E x \in {Idle} \union JobStates : run' = [run EXCEPT ![w] = x] /\ JobGoes(w)
<1>t. run \in [Workers -> {Idle} \union JobStates]
  BY JobTypes
<1> DEFINE Goal == \E x \in {Idle} \union JobStates : run' = [run EXCEPT ![w] = x] /\ JobGoes(w)
<1>e. ASSUME EndJob(w) PROVE Goal
  <2>1. run' = [run EXCEPT ![w] = Idle] /\ run'[w] = Idle
    BY <1>e, <1>t DEF EndJob
  <2> QED
    BY <2>1 DEF JobGoes, Busy
<1>1. ASSUME NEW j \in todo, PickUp(w, j) PROVE Goal
  <2> DEFINE pc == IF body[j.art] \in Refused THEN "waiving" ELSE "enriching"
             x == [pc |-> pc, job |-> j, text |-> body[j.art], sure |-> FALSE,
                   aborting |-> FALSE]
  <2>1. j \in Jobs /\ j.art \in Ingests /\ body[j.art] \in Texts
    BY DEF TypeOK, Jobs
  <2>2. x \in JobStates
    BY <2>1 DEF JobStates
  <2>3. run' = [run EXCEPT ![w] = x] /\ run[w] = Idle /\ open = j.art
    BY <1>1 DEF PickUp
  <2>4. x # Idle
    BY <2>2, JobsAreBusy
  <2>5. x.pc \in {"waiving", "enriching"} /\ x.job = j
    OBVIOUS
  <2> HIDE DEF x
  <2>6. run'[w] = x
    BY <2>3, <1>t
  <2>7. BeginsJob(w)
    BY <2>1, <2>3, <2>4, <2>5, <2>6, NobodyAssumption DEF BeginsJob, Busy
  <2> QED
    BY <2>2, <2>3, <2>7 DEF JobGoes
<1>2. CASE Recheck(w)
  <2>1. CASE open = Art(w) /\ FenceHolds(run[w].job.key)
    <3> DEFINE x == [run[w] EXCEPT !.pc = "writing", !.sure = TRUE]
    <3>1. run' = [run EXCEPT ![w] = x] /\ Busy(w) /\ run[w].pc = "enriching"
      BY <1>2, <2>1, <1>t DEF Recheck, At
    <3>2. run[w] \in JobStates
      BY <3>1, <1>t DEF Busy
    <3>3. x \in JobStates /\ x.pc = "writing" /\ x.sure /\ x.job = run[w].job
      BY <3>2 DEF JobStates
    <3> HIDE DEF x
    <3>4. run'[w] = x /\ x # Idle
      BY <3>1, <3>3, <1>t, JobsAreBusy
    <3>5. GoesOn(w)
      BY <3>1, <3>3, <3>4 DEF GoesOn, Busy
    <3> QED
      BY <3>1, <3>3, <3>5 DEF JobGoes
  <2>2. CASE ~(open = Art(w) /\ FenceHolds(run[w].job.key))
    BY <1>2, <2>2, <1>e DEF Recheck
  <2> QED
    BY <2>1, <2>2
<1>3. CASE WriteEnriched(w)
  <2>1. CASE Direct
    <3> DEFINE x == [run[w] EXCEPT !.pc = "settling"]
    <3>1. run' = [run EXCEPT ![w] = x] /\ Busy(w) /\ run[w].pc = "writing"
      BY <1>3, <2>1, <1>t DEF WriteEnriched, Moves, At
    <3>2. run[w] \in JobStates
      BY <3>1, <1>t DEF Busy
    <3>3. x \in JobStates /\ x.pc = "settling" /\ x.sure = run[w].sure /\ x.job = run[w].job
      BY <3>2 DEF JobStates
    <3> HIDE DEF x
    <3>4. run'[w] = x /\ x # Idle
      BY <3>1, <3>3, <1>t, JobsAreBusy
    <3>5. GoesOn(w)
      BY <2>1, <3>1, <3>3, <3>4 DEF GoesOn, Busy
    <3> QED
      BY <3>1, <3>3, <3>5 DEF JobGoes
  <2>2. CASE ~Direct
    BY <1>3, <2>2, <1>e DEF WriteEnriched
  <2> QED
    BY <2>1, <2>2
<1>4. CASE SettleEnriched(w)
  BY <1>4, <1>e DEF SettleEnriched
<1>5. CASE EnrichmentFails(w)
  BY <1>5, <1>e DEF EnrichmentFails, PutBack
<1>9. CASE Waive(w)
  BY <1>9, <1>e DEF Waive
<1>6. CASE Interrupted(w)
  BY <1>6, <1>e DEF Interrupted, PutBack
<1>7. CASE Aborted(w)
  BY <1>7, <1>e DEF Aborted
<1>8. ASSUME NEW j \in todo, PickUpInVain(j) PROVE UNCHANGED run
  BY <1>8 DEF PickUpInVain
<1> QED
  BY <1>1, <1>2, <1>3, <1>4, <1>5, <1>6, <1>7, <1>8, <1>9 DEF EnrichmentNext, WorkerStep

\* In every step every job is on its way.
LEMMA JobsMove ==
  ASSUME TypeOK, [Next]_vars
  PROVE  /\ run' \in [Workers -> {Idle} \union JobStates]
         /\ \A w \in Workers : JobGoes(w)
<1>t. run \in [Workers -> {Idle} \union JobStates]
  BY JobTypes
<1> DEFINE Goal == /\ run' \in [Workers -> {Idle} \union JobStates]
                   /\ \A w \in Workers : JobGoes(w)
<1>s. ASSUME UNCHANGED run PROVE Goal
  BY <1>s, <1>t DEF JobGoes, SameJob, Busy
<1>1. ASSUME NEW w \in Workers, EnrichmentNext(w) PROVE Goal
  <2>1. CASE UNCHANGED run
    BY <2>1, <1>s
  <2>2. ASSUME NEW x \in {Idle} \union JobStates, run' = [run EXCEPT ![w] = x], JobGoes(w)
        PROVE  Goal
    <3>1. ASSUME NEW v \in Workers, v # w PROVE SameJob(v)
      BY <2>2, <3>1, <1>t DEF SameJob, Busy
    <3> QED
      BY <2>2, <3>1, <1>t DEF JobGoes
  <2> QED
    BY <1>1, <2>1, <2>2, WorkerSteps
<1>2. ASSUME NEW i \in Ingests, Admit(i) PROVE Goal
  BY <1>2, CancelKeepsJobs DEF Admit, JobGoes
<1>3. CASE PurgeFences
  BY <1>3, CancelKeepsJobs DEF PurgeFences, JobGoes
<1>4. \/ \E w \in Workers : EnrichmentNext(w)
      \/ \E i \in Ingests : Admit(i)
      \/ PurgeFences
      \/ UNCHANGED run
  BY DEF Next, vars, IngestNext, AdmitDirect, SkipInactive, Compare, Create, LoseRace, WriteRaw,
         DeferEnrichment, Settle, IngestFails, Reindex, DeferReindex, Reap, DeletionNext,
         CloseDocument, WipeDocument, DropDocument, DeletionFails, RemovalNext, Remove,
         PurgeArrives, PurgeAnswered, RemovalFails, PurgeStep, PurgeRows, PurgePoints, Finalise,
         PurgeFails
<1> QED
  BY <1>s, <1>1, <1>2, <1>3, <1>4

-----------------------------------------------------------------------------
(* Types *)

\* The parts of the type invariant that the ways of ingests and jobs leave open.
ArtifactTypes ==
  /\ rows \subseteq Ingests /\ open \in rows \union {Nobody}
  /\ index \in [Ingests -> Statuses \union {"none"}]
  /\ \A i \in Ingests : i \in rows <=> index[i] # "none"
PointTypes == body \in [Ingests -> Texts] /\ points \in Points \union {Nothing}
RequestTypes ==
  /\ reindexing \in Ingests \union {Nobody}
  /\ deletion \in {"none", "closed", "wiped"}
  /\ connector \in {"none", "active", "deleting", "gone"}
  /\ fence \in Ingests \union {Nobody} /\ fenced \in BOOLEAN
  /\ removal \in {"none", "marked", "queued"}
  /\ purge \in {"none", "queued", "fenced", "dropped", "wiped"}
HistoryTypes ==
  /\ blame \subseteq {"overtaken", "raced", "unwritten", "halted", "resurrected", "reopened",
                      "wiped", "waived", "dropped"}
  /\ events \in 0 .. MaxEvents

\* TypeOK falls into the document, and what each of the following lemmas keeps typed.
LEMMA TypeParts ==
  TypeOK <=> /\ [origin |-> origin, says |-> says] \in Documents
             /\ ArtifactTypes /\ PointTypes /\ todo \subseteq Jobs
             /\ ing \in [Ingests -> IngestStates] /\ run \in [Workers -> {Idle} \union JobStates]
             /\ RequestTypes /\ HistoryTypes
BY DEF TypeOK, ArtifactTypes, PointTypes, RequestTypes, HistoryTypes, IngestStates, JobStates

\* A status that is set, with the version open, is a status of a stored version.
LEMMA StatusSet ==
  ASSUME ArtifactTypes, NEW a \in rows, NEW s \in Statuses, NEW why, SetStatus(a, s, why),
         UNCHANGED rows
  PROVE  ArtifactTypes'
BY DEF ArtifactTypes, SetStatus, Statuses

\* The rows of knowledge.artifacts: only a stored version is open, and only a stored version
\* has a status.
LEMMA ArtifactsStayTyped ==
  ASSUME TypeOK, OriginInv, [Next]_vars
  PROVE  ArtifactTypes'
<1> USE DEF artifacts
<1>t. ArtifactTypes /\ "pending" \in Statuses /\ "synced" \in Statuses /\ "failed" \in Statuses
  BY TypeParts DEF Statuses
<1>1. ASSUME NEW i \in Ingests, Create(i) PROVE ArtifactTypes'
  BY <1>1, <1>t DEF Create, ArtifactTypes, Statuses
<1>2. ASSUME NEW i \in Ingests, Settle(i) PROVE ArtifactTypes'
  <2>1. CASE ing[i].art \in rows
    <3>1. index' = [index EXCEPT ![ing[i].art] = "synced"] /\ UNCHANGED <<rows, open>>
      BY <1>2, <2>1 DEF Settle
    <3> QED
      BY <1>t, <2>1, <3>1 DEF ArtifactTypes, Statuses
  <2>2. CASE ing[i].art \notin rows
    BY <1>2, <1>t, <2>2 DEF Settle, ArtifactTypes
  <2> QED
    BY <2>1, <2>2
<1>3. ASSUME NEW w \in Workers, SettleEnriched(w) PROVE ArtifactTypes'
  <2>1. Art(w) \in rows
    BY <1>3 DEF SettleEnriched, Waive, OriginInv, At
  <2> QED
    BY <1>3, <1>t, <2>1, StatusSet DEF SettleEnriched
<1>4. ASSUME NEW w \in Workers, EnrichmentFails(w) PROVE ArtifactTypes'
  <2>1. CASE Direct
    <3>1. Art(w) \in rows
      BY <1>4, <2>1 DEF EnrichmentFails, OriginInv
    <3> QED
      BY <1>4, <2>1, <1>t, <3>1, StatusSet DEF EnrichmentFails
  <2>2. CASE ~Direct
    BY <1>4, <2>2, <1>t DEF EnrichmentFails, ArtifactTypes
  <2> QED
    BY <2>1, <2>2
<1>10. ASSUME NEW w \in Workers, Waive(w) PROVE ArtifactTypes'
  <2>1. CASE Direct
    <3>1. Art(w) \in rows
      BY <1>10, <2>1 DEF Waive, OriginInv, At
    <3> QED
      BY <1>10, <2>1, <1>t, <3>1, StatusSet DEF Waive
  <2>2. CASE ~Direct
    BY <1>10, <2>2, <1>t DEF Waive, ArtifactTypes
  <2> QED
    BY <2>1, <2>2
<1>5. ASSUME NEW a \in Ingests, Reindex(a) PROVE ArtifactTypes'
  BY <1>5, <1>t, StatusSet DEF Reindex
<1>6. CASE Reap
  <2>1. open \in rows /\ index' = [index EXCEPT ![open] = "failed"] /\ UNCHANGED <<rows, open>>
    BY <1>6, <1>t DEF Reap, Stale, ArtifactTypes
  <2> QED
    BY <2>1, <1>t DEF ArtifactTypes, Statuses
<1>7. CASE CloseDocument
  BY <1>7, <1>t DEF CloseDocument, ArtifactTypes
<1>8. CASE DropDocument \/ PurgeRows
  BY <1>8, <1>t DEF DropDocument, PurgeRows, DropRows, ArtifactTypes
<1>9. \/ UNCHANGED <<rows, open, index>>
      \/ \E i \in Ingests : Create(i) \/ Settle(i)
      \/ \E w \in Workers : SettleEnriched(w) \/ Waive(w) \/ EnrichmentFails(w)
      \/ \E a \in Ingests : Reindex(a)
      \/ Reap \/ CloseDocument \/ DropDocument \/ PurgeRows
  BY DEF Next, vars, IngestNext, Admit, AdmitDirect, SkipInactive, Compare, LoseRace, WriteRaw,
         DeferEnrichment, IngestFails, EnrichmentNext, WorkerStep, PickUp, PickUpInVain, Recheck,
         WriteEnriched, Interrupted, Aborted, DeferReindex, DeletionNext, WipeDocument,
         DeletionFails, RemovalNext, Remove, PurgeArrives, PurgeAnswered, RemovalFails,
         PurgeStep, PurgeFences, PurgePoints, Finalise, PurgeFails
<1> QED
  BY <1>t, <1>1, <1>2, <1>3, <1>4, <1>5, <1>6, <1>7, <1>8, <1>9, <1>10 DEF ArtifactTypes

\* The points name an ingest's version, and hold a text that some ingest brought; so does what
\* a reindex would read back.
LEMMA PointsStayTyped ==
  ASSUME TypeOK, OriginInv, ReferenceInv, [Next]_vars
  PROVE  PointTypes'
<1> USE DEF artifacts
<1>t. PointTypes /\ says \in [Ingests -> Texts]
  BY TypeParts, DocumentIs
<1>a. \A i \in Ingests : Writes(i) => ing[i].art \in Ingests
  BY DEF ReferenceInv, Made
<1>1. ASSUME NEW i \in Ingests, WriteRaw(i) PROVE PointTypes'
  BY <1>1, <1>t, <1>a DEF WriteRaw, Writes, PointTypes, Points
<1>2. ASSUME NEW i \in Ingests, DeferEnrichment(i) PROVE PointTypes'
  BY <1>2, <1>t, <1>a DEF DeferEnrichment, Writes, PointTypes
<1>3. ASSUME NEW w \in Workers, WriteEnriched(w) PROVE PointTypes'
  <2>1. run[w] \in JobStates /\ points' = [of |-> Art(w), text |-> run[w].text] /\ UNCHANGED body
    BY <1>3, JobTypes DEF WriteEnriched, At, Busy
  <2>2. Art(w) \in Ingests /\ run[w].text \in Texts
    BY <2>1 DEF JobStates, Jobs, Art
  <2> QED
    BY <1>t, <2>1, <2>2 DEF PointTypes, Points
<1>4. CASE WipeDocument \/ PurgePoints
  BY <1>4, <1>t DEF WipeDocument, PurgePoints, Wipe, PointTypes
<1>5. \/ UNCHANGED <<body, points>>
      \/ \E i \in Ingests : WriteRaw(i) \/ DeferEnrichment(i)
      \/ \E w \in Workers : WriteEnriched(w)
      \/ WipeDocument \/ PurgePoints
  BY DEF Next, vars, IngestNext, Admit, AdmitDirect, SkipInactive, Compare, Create, LoseRace,
         Settle, IngestFails, EnrichmentNext, WorkerStep, PickUp, PickUpInVain, Recheck,
         SettleEnriched, Waive, EnrichmentFails, Interrupted, Aborted, Reindex, DeferReindex, Reap,
         DeletionNext, CloseDocument, DropDocument, DropRows, DeletionFails, RemovalNext, Remove,
         PurgeArrives, PurgeAnswered, RemovalFails, PurgeStep, PurgeFences, PurgeRows, Finalise,
         PurgeFails
<1> QED
  BY <1>t, <1>1, <1>2, <1>3, <1>4, <1>5 DEF PointTypes

\* Every enrichment that is deferred is one for a version that was made.
LEMMA QueueStaysTyped ==
  ASSUME TypeOK, ReferenceInv, [Next]_vars
  PROVE  todo' \subseteq Jobs
<1>t. todo \subseteq Jobs
  BY TypeParts
<1>w. \A j \in Jobs : WithJob(j) \subseteq Jobs
  BY <1>t DEF WithJob
<1>1. ASSUME NEW i \in Ingests, DeferEnrichment(i) PROVE todo' \subseteq Jobs
  <2>1. ing[i].art \in Ingests
    BY <1>1 DEF DeferEnrichment, ReferenceInv, Writes, Made
  <2>2. [art |-> ing[i].art, kind |-> "ingest", key |-> IF Direct THEN Nobody ELSE i] \in Jobs
    BY <2>1 DEF Jobs
  <2> QED
    BY <1>1, <1>t, <1>w, <2>2 DEF DeferEnrichment
<1>2. ASSUME NEW w \in Workers, EnrichmentFails(w) \/ Interrupted(w) PROVE todo' \subseteq Jobs
  <2>1. Busy(w) /\ (todo' = WithJob(run[w].job) \/ todo' = todo)
    BY <1>2 DEF EnrichmentFails, Interrupted, PutBack
  <2>2. run[w].job \in Jobs
    BY <2>1, JobTypes DEF Busy, JobStates
  <2> QED
    BY <1>t, <1>w, <2>1, <2>2
<1>3. CASE DeferReindex
  <2>1. [art |-> reindexing, kind |-> "reindex", key |-> Nobody] \in Jobs
    BY <1>3 DEF DeferReindex, TypeOK, Jobs
  <2> QED
    BY <1>3, <1>t, <1>w, <2>1 DEF DeferReindex
<1>4. \/ todo' \subseteq todo
      \/ \E i \in Ingests : DeferEnrichment(i)
      \/ \E w \in Workers : EnrichmentFails(w) \/ Interrupted(w)
      \/ DeferReindex
  BY DEF Next, vars, IngestNext, Admit, AdmitDirect, SkipInactive, Compare, Create, LoseRace,
         WriteRaw, Settle, IngestFails, EnrichmentNext, WorkerStep, PickUp, PickUpInVain, Recheck,
         WriteEnriched, SettleEnriched, Waive, Aborted, Reindex, Reap, DeletionNext, CloseDocument,
         WipeDocument, DropDocument, DeletionFails, RemovalNext, Remove, PurgeArrives,
         PurgeAnswered, RemovalFails, PurgeStep, PurgeFences, PurgeRows, PurgePoints, Finalise,
         PurgeFails, Cancel
<1> QED
  BY <1>t, <1>1, <1>2, <1>3, <1>4

\* Deletions, removals, purges and the fence move from one of their points to another.
LEMMA RequestsStayTyped ==
  ASSUME TypeOK, [Next]_vars
  PROVE  RequestTypes'
<1> USE DEF connection
<1>t. RequestTypes
  BY TypeParts
<1>1. ASSUME NEW i \in Ingests, IngestNext(i) PROVE RequestTypes'
  <2>1. CASE Admit(i)
    <3>1. /\ fence' = i /\ fenced' = FALSE
          /\ UNCHANGED <<reindexing, deletion, connector, removal, purge>>
      BY <2>1 DEF Admit
    <3> QED
      BY <3>1, <1>t DEF RequestTypes
  <2>2. Admit(i) \/ UNCHANGED <<reindexing, deletion, connection>>
    BY <1>1 DEF IngestNext, AdmitDirect, SkipInactive, Compare, Create, LoseRace, WriteRaw,
                DeferEnrichment, Settle, IngestFails
  <2> QED
    BY <2>1, <2>2, <1>t DEF RequestTypes
<1>2. ASSUME NEW w \in Workers, EnrichmentNext(w) PROVE RequestTypes'
  BY <1>2, <1>t DEF RequestTypes, EnrichmentNext, WorkerStep, PickUp, PickUpInVain, Recheck,
       WriteEnriched, SettleEnriched, Waive, EnrichmentFails, Interrupted, Aborted
<1>3. ASSUME NEW a \in Ingests, Reindex(a) PROVE RequestTypes'
  BY <1>3, <1>t DEF Reindex, RequestTypes
<1>4. CASE DeferReindex \/ Reap
  BY <1>4, <1>t DEF DeferReindex, Reap, RequestTypes
<1>5. CASE DeletionNext \/ RemovalNext
  BY <1>5, <1>t DEF RequestTypes, DeletionNext, CloseDocument, WipeDocument, DropDocument,
       DeletionFails, RemovalNext, Remove, PurgeArrives, PurgeAnswered, RemovalFails
<1>6. CASE PurgeStep \/ PurgeFails
  BY <1>6, <1>t DEF RequestTypes, PurgeStep, PurgeFences, PurgeRows, PurgePoints, Finalise,
       PurgeFails
<1>7. CASE UNCHANGED vars
  BY <1>7, <1>t DEF vars, RequestTypes
<1> QED
  BY <1>1, <1>2, <1>3, <1>4, <1>5, <1>6, <1>7 DEF Next

\* What is kept of the past stays within its bounds.
LEMMA HistoryStaysTyped ==
  ASSUME TypeOK, [Next]_vars
  PROVE  HistoryTypes'
<1> DEFINE Blames == {"overtaken", "raced", "unwritten", "halted", "resurrected", "reopened",
                      "wiped", "waived", "dropped"}
<1>t. blame \subseteq Blames /\ events \in 0 .. MaxEvents
  BY TypeParts DEF HistoryTypes
<1>v. \A a, text : Verdict(a, text) \subseteq Blames
  BY DEF Verdict
<1>1. blame' \subseteq Blames
  <2>1. ASSUME NEW i \in Ingests, IngestNext(i) PROVE blame' \subseteq Blames
    BY <2>1, <1>t, <1>v DEF IngestNext, Admit, AdmitDirect, SkipInactive, Compare, Create,
         LoseRace, WriteRaw, DeferEnrichment, Settle, IngestFails
  <2>2. ASSUME NEW w \in Workers, EnrichmentNext(w) PROVE blame' \subseteq Blames
    BY <2>2, <1>t, <1>v DEF EnrichmentNext, WorkerStep, PickUp, PickUpInVain, Recheck,
         WriteEnriched, SettleEnriched, Waive, EnrichmentFails, Interrupted, Aborted, SetStatus, Reopens
  <2>3. CASE (\E a \in Ingests : Reindex(a)) \/ DeferReindex \/ Reap \/ UNCHANGED vars
    BY <2>3, <1>t DEF Reindex, SetStatus, Reopens, DeferReindex, Reap, vars
  <2>4. CASE DeletionNext \/ RemovalNext \/ PurgeStep \/ PurgeFails
    BY <2>4, <1>t DEF DeletionNext, CloseDocument, WipeDocument, DropDocument, DeletionFails,
         RemovalNext, Remove, PurgeArrives, PurgeAnswered, RemovalFails, PurgeStep, PurgeFences,
         PurgeRows, PurgePoints, Finalise, PurgeFails, Wipe
  <2> QED
    BY <2>1, <2>2, <2>3, <2>4 DEF Next
<1>2. UNCHANGED events \/ Event
  BY DEF Next, vars, IngestNext, Admit, AdmitDirect, SkipInactive, Compare, Create, LoseRace,
         WriteRaw, DeferEnrichment, Settle, IngestFails, EnrichmentNext, WorkerStep, PickUp,
         PickUpInVain, Recheck, WriteEnriched, SettleEnriched, Waive, EnrichmentFails, Interrupted,
         Aborted, Reindex, DeferReindex, Reap, DeletionNext, CloseDocument, WipeDocument,
         DropDocument, DeletionFails, RemovalNext, Remove, PurgeArrives, PurgeAnswered,
         RemovalFails, PurgeStep, PurgeFences, PurgeRows, PurgePoints, Finalise, PurgeFails
<1>3. events' \in 0 .. MaxEvents
  BY <1>2, <1>t, EventsAssumption DEF Event
<1> QED
  BY <1>1, <1>3 DEF HistoryTypes

\* What the document is, and what each ingest says, is settled from the start.
LEMMA DocumentStays == ASSUME [Next]_vars PROVE UNCHANGED document
BY DEF Next, vars, IngestNext, Admit, AdmitDirect, SkipInactive, Compare, Create, LoseRace,
       WriteRaw, DeferEnrichment, Settle, IngestFails, EnrichmentNext, WorkerStep, PickUp,
       PickUpInVain, Recheck, WriteEnriched, SettleEnriched, Waive, EnrichmentFails, Interrupted,
       Aborted, Reindex, DeferReindex, Reap, DeletionNext, CloseDocument, WipeDocument,
       DropDocument, DeletionFails, RemovalNext, Remove, PurgeArrives, PurgeAnswered,
       RemovalFails, PurgeStep, PurgeFences, PurgeRows, PurgePoints, Finalise, PurgeFails

\* Every step keeps the types, given that versions are made before anybody refers to them.
LEMMA TypesPreserved ==
  ASSUME TypeOK, OriginInv, ReferenceInv, [Next]_vars
  PROVE  TypeOK'
<1>1. ([origin |-> origin, says |-> says] \in Documents)'
  BY DocumentStays DEF document, TypeOK
<1>2. TypeOK' <=> /\ ([origin |-> origin, says |-> says] \in Documents)'
                  /\ ArtifactTypes' /\ PointTypes' /\ todo' \subseteq Jobs
                  /\ ing' \in [Ingests -> IngestStates]
                  /\ run' \in [Workers -> {Idle} \union JobStates]
                  /\ RequestTypes' /\ HistoryTypes'
  BY DEF TypeOK, ArtifactTypes, PointTypes, RequestTypes, HistoryTypes, IngestStates, JobStates
<1> QED
  BY <1>1, <1>2, ArtifactsStayTyped, PointsStayTyped, QueueStaysTyped, RequestsStayTyped,
     HistoryStaysTyped, IngestsMove, JobsMove

-----------------------------------------------------------------------------
(* The invariant *)

\* Only connectors are removed, and only their documents lose their rows: no step mixes the two.
LEMMA OriginPreserved ==
  ASSUME TypeOK, OriginInv, [Next]_vars
  PROVE  OriginInv'
<1> USE DEF document, artifacts, connection
<1>u. Direct' <=> Direct
  BY DocumentStays DEF Direct
<1>1. Direct => connector' = "none" /\ removal' = "none" /\ purge' = "none" /\ deletion' # "wiped"
  <2> SUFFICES ASSUME Direct
               PROVE  /\ connector' = "none" /\ removal' = "none" /\ purge' = "none"
                      /\ deletion' # "wiped"
    OBVIOUS
  <2>t. connector = "none" /\ removal = "none" /\ purge = "none" /\ deletion # "wiped"
    BY DEF OriginInv
  <2>1. ASSUME NEW i \in Ingests, IngestNext(i)
        PROVE  UNCHANGED <<connector, removal, purge, deletion>>
    BY <2>1 DEF IngestNext, Admit, AdmitDirect, SkipInactive, Compare, Create, LoseRace,
       WriteRaw,
         DeferEnrichment, Settle, IngestFails
  <2>2. ASSUME NEW w \in Workers, EnrichmentNext(w)
        PROVE  UNCHANGED <<connector, removal, purge, deletion>>
    BY <2>2 DEF EnrichmentNext, WorkerStep, PickUp, PickUpInVain, Recheck, WriteEnriched,
         SettleEnriched, Waive, EnrichmentFails, Interrupted, Aborted
  <2>3. ASSUME NEW a \in Ingests, Reindex(a) PROVE UNCHANGED <<connector, removal, purge, deletion>>
    BY <2>3 DEF Reindex
  <2>4. CASE DeferReindex \/ Reap
    BY <2>4, <2>t DEF DeferReindex, Reap
  <2>5. CASE DeletionNext
    BY <2>5, <2>t DEF DeletionNext, CloseDocument, WipeDocument, DropDocument, DeletionFails
  <2>6. ~RemovalNext /\ ~PurgeStep /\ ~PurgeFails
    BY <2>t DEF RemovalNext, Remove, PurgeArrives, PurgeAnswered, RemovalFails, PurgeStep,
         PurgeFences, PurgeRows, PurgePoints, Finalise, PurgeFails
  <2> QED
    BY <2>t, <2>1, <2>2, <2>3, <2>4, <2>5, <2>6 DEF Next, vars
<1>2. Direct => rows \subseteq rows'
  <2>1. Direct => ~DropDocument /\ ~PurgeRows
    BY DEF OriginInv, DropDocument, PurgeRows
  <2>2. rows \subseteq rows' \/ DropDocument \/ PurgeRows
    BY DEF Next, vars, IngestNext, Admit, AdmitDirect, SkipInactive, Compare, Create, LoseRace,
         WriteRaw, DeferEnrichment, Settle, IngestFails, EnrichmentNext, WorkerStep, PickUp,
         PickUpInVain, Recheck, WriteEnriched, SettleEnriched, Waive, EnrichmentFails, Interrupted,
         Aborted, Reindex, DeferReindex, Reap, DeletionNext, CloseDocument, WipeDocument,
         DeletionFails, RemovalNext, Remove, PurgeArrives, PurgeAnswered, RemovalFails,
         PurgeStep, PurgeFences, PurgePoints, Finalise, PurgeFails
  <2> QED
    BY <2>1, <2>2
<1>3. ASSUME NEW w \in Workers, Busy(w)', Direct PROVE Art(w)' \in rows'
  <2>1. open \in rows \union {Nobody} /\ JobGoes(w)
    BY JobsMove DEF TypeOK
  <2>2. CASE Busy(w) /\ run'[w].job = run[w].job
    BY <2>2, <1>2, <1>3 DEF OriginInv, Art
  <2>3. CASE BeginsJob(w)
    BY <2>1, <2>3, <1>2, <1>3 DEF BeginsJob, Art
  <2> QED
    BY <2>1, <2>2, <2>3, <1>3 DEF JobGoes, SameJob, GoesOn
<1>4. ASSUME NEW w \in Workers, At(w, "settling")' PROVE Direct
  <2>1. JobGoes(w) /\ Busy(w)' /\ run'[w].pc = "settling"
    BY <1>4, JobsMove DEF At
  <2>2. CASE Busy(w) /\ run[w].pc = "settling"
    BY <2>2 DEF OriginInv, At
  <2> QED
    BY <2>1, <2>2 DEF JobGoes, SameJob, BeginsJob, GoesOn
<1> QED
  BY <1>u, <1>1, <1>3, <1>4 DEF OriginInv

\* A job writes only after it has looked at its version again.
LEMMA SurePreserved ==
  ASSUME TypeOK, SureInv, [Next]_vars
  PROVE  SureInv'
<1> SUFFICES ASSUME NEW w \in Workers, At(w, "writing")' \/ At(w, "settling")'
             PROVE  run'[w].sure
  BY DEF SureInv
<1>1. JobGoes(w) /\ Busy(w)' /\ run'[w].pc \in {"writing", "settling"}
  BY JobsMove DEF At
<1>2. Busy(w) /\ run[w].pc \in {"writing", "settling"} => run[w].sure
  BY DEF SureInv, At
<1> QED
  BY <1>1, <1>2 DEF JobGoes, SameJob, BeginsJob, GoesOn

\* Once made, a version stays made, and a new one is its ingest's own.
LEMMA ReferencePreserved ==
  ASSUME TypeOK, ReferenceInv, [Next]_vars
  PROVE  ReferenceInv'
<1>i. \A i \in Ingests : ing'[i] = ing[i] \/ IngestGoes(i, ing'[i])
  BY IngestsMove
<1>o. open \in Made \union {Nobody}
  BY DEF TypeOK, ReferenceInv
<1>1. Made \subseteq Made'
  BY <1>i DEF Made, IngestGoes
<1>2. rows' \subseteq Made'
  <2>1. ASSUME NEW i \in Ingests, Create(i) PROVE rows' \subseteq Made'
    <3>1. rows' = rows \union {i} /\ ing' = [ing EXCEPT ![i] = [pc |-> "writing", seen |-> Nobody, art |-> i]]
      BY <2>1 DEF Create
    <3>2. i \in Made'
      BY <3>1, IngestTypes DEF Made
    <3> QED
      BY <1>1, <3>1, <3>2 DEF ReferenceInv
  <2>2. rows' \subseteq rows \/ \E i \in Ingests : Create(i)
    BY DEF Next, vars, artifacts, IngestNext, Admit, AdmitDirect, SkipInactive, Compare,
       LoseRace,
         WriteRaw, DeferEnrichment, Settle, IngestFails, EnrichmentNext, WorkerStep, PickUp,
         PickUpInVain, Recheck, WriteEnriched, SettleEnriched, Waive, EnrichmentFails, Interrupted,
         Aborted, Reindex, DeferReindex, Reap, DeletionNext, CloseDocument, WipeDocument,
         DropDocument, DropRows, DeletionFails, RemovalNext, Remove, PurgeArrives,
         PurgeAnswered, RemovalFails, PurgeStep, PurgeFences, PurgeRows, PurgePoints, Finalise,
         PurgeFails
  <2> QED
    BY <1>1, <2>1, <2>2 DEF ReferenceInv
<1>3. ASSUME NEW i \in Ingests
      PROVE  ing'[i].art \in Made' \union {Nobody} /\ (Writes(i)' => ing'[i].art # Nobody)
  <2>0. ing[i].art \in Made \union {Nobody} /\ (Writes(i) => ing[i].art # Nobody)
    BY DEF ReferenceInv
  <2>1. CASE ing'[i] = ing[i]
    BY <2>0, <2>1, <1>1 DEF Writes
  <2>2. CASE ing[i].pc = "creating" /\ ing'[i].pc = "writing" /\ ing'[i].art \in {i, open} \ {Nobody}
    <3>1. i \in Made'
      BY <2>2 DEF Made
    <3> QED
      BY <2>2, <3>1, <1>1, <1>o
  <2>3. CASE IngestGoes(i, ing'[i]) /\ ing[i].pc # "creating"
    BY <2>0, <2>3, <1>1 DEF IngestGoes, Writes
  <2>4. CASE ing'[i].pc = "over" /\ ing'[i].art = Nobody
    BY <2>4 DEF Writes
  <2> QED
    BY <1>i, <2>1, <2>2, <2>3, <2>4 DEF IngestGoes
<1>4. ASSUME NEW w \in Workers, Busy(w)' PROVE Art(w)' \in Made'
  <2>1. JobGoes(w)
    BY JobsMove
  <2>2. CASE Busy(w) /\ run'[w].job = run[w].job
    BY <2>2, <1>1 DEF ReferenceInv, Art
  <2>3. CASE BeginsJob(w)
    BY <2>3, <1>1, <1>o DEF BeginsJob, Art
  <2> QED
    BY <2>1, <2>2, <2>3, <1>4 DEF JobGoes, SameJob, GoesOn
<1> QED
  BY <1>2, <1>3, <1>4 DEF ReferenceInv

\* Only a write makes an ingest or a job come to promise a version.
LEMMA PromisesComeFromWrites ==
  ASSUME TypeOK, [Next]_vars, \A i \in Ingests : ~WriteRaw(i), \A w \in Workers : ~WriteEnriched(w),
         NEW a \in Ingests, Promised(a)', index'[a] # "synced"
  PROVE  Promised(a)
<1>1. ASSUME NEW i \in Ingests, ing'[i].pc \in {"deferring", "settling"}, ing'[i].art = a
      PROVE  ing[i].pc \in {"deferring", "settling"} /\ ing[i].art = a
  <2>1. ing'[i] = ing[i] \/ IngestGoes(i, ing'[i])
    BY IngestsMove
  <2>2. ~(ing[i].pc = "writing" /\ ing'[i].pc = "deferring")
    <3> SUFFICES ASSUME ing[i].pc = "writing", ing'[i].pc = "deferring" PROVE FALSE
      OBVIOUS
    <3>1. ASSUME NEW k \in Ingests, IngestNext(k) PROVE FALSE
      <4>1. PICK x \in IngestStates : ing' = [ing EXCEPT ![k] = x]
        BY <3>1, IngestSteps
      <4>2. k = i
        BY <4>1, IngestTypes
      <4>3. IngestFails(i)
        BY <3>1, <4>2 DEF IngestNext, Admit, AdmitDirect, SkipInactive, Compare, Create,
             LoseRace, DeferEnrichment, Settle
      <4>4. ing'[i].pc = "over"
        BY <4>3, IngestTypes DEF IngestFails, EndIngest, NoIngest
      <4> QED
        BY <4>4
    <3>2. UNCHANGED ing \/ \E k \in Ingests : IngestNext(k)
      BY DEF Next, vars, EnrichmentNext, WorkerStep, PickUp, PickUpInVain, Recheck,
         WriteEnriched,
         SettleEnriched, Waive, EnrichmentFails, Interrupted, Aborted, Reindex, DeferReindex, Reap,
         DeletionNext, CloseDocument, WipeDocument, DropDocument, DeletionFails, RemovalNext,
         Remove, PurgeArrives, PurgeAnswered, RemovalFails, PurgeStep, PurgeFences, PurgeRows,
         PurgePoints, Finalise, PurgeFails
    <3> QED
      BY <3>1, <3>2
  <2> QED
    BY <1>1, <2>1, <2>2 DEF IngestGoes
<1>2. ASSUME NEW w \in Workers, At(w, "settling")', Art(w)' = a
      PROVE  At(w, "settling") /\ Art(w) = a
  <2>1. JobGoes(w) /\ run'[w].pc = "settling" /\ Busy(w)'
    BY <1>2, JobsMove DEF At
  <2>2. ~(At(w, "writing") /\ GoesOn(w))
    <3> SUFFICES ASSUME At(w, "writing"), GoesOn(w) PROVE FALSE
      OBVIOUS
    <3>1. run[w].pc = "writing" /\ Busy(w) /\ Busy(w)' /\ run'[w].pc = "settling"
      BY DEF At, GoesOn
    <3>2. ASSUME NEW v \in Workers, EnrichmentNext(v) PROVE FALSE
      <4>1. CASE v = w
        <5>1. Recheck(w) \/ EndJob(w) \/ UNCHANGED run \/ \E j \in todo : PickUp(w, j)
          BY <3>2, <4>1 DEF EnrichmentNext, WorkerStep, PickUpInVain, SettleEnriched, Waive,
               EnrichmentFails, Interrupted, Aborted, PutBack
        <5>2. ~Recheck(w) /\ \A j \in todo : ~PickUp(w, j)
          BY <3>1 DEF Recheck, At, PickUp, Busy
        <5>3. ~EndJob(w)
          BY <3>1, JobTypes DEF EndJob, Busy
        <5> QED
          BY <3>1, <5>1, <5>2, <5>3
      <4>2. CASE v # w
        <5>1. UNCHANGED run \/ \E x : run' = [run EXCEPT ![v] = x]
          BY <3>2, WorkerSteps
        <5>2. run'[w] = run[w]
          BY <4>2, <5>1, JobTypes
        <5> QED
          BY <3>1, <5>2
      <4> QED
        BY <4>1, <4>2
    <3>3. ASSUME NEW keys, Cancel(keys) PROVE FALSE
      <4>1. SameJob(w)
        BY <3>3, CancelKeepsJobs
      <4> QED
        BY <3>1, <4>1 DEF SameJob
    <3>4. \/ \E v \in Workers : EnrichmentNext(v)
          \/ \E keys : Cancel(keys)
          \/ UNCHANGED run
      BY DEF Next, vars, IngestNext, Admit, AdmitDirect, SkipInactive, Compare, Create,
         LoseRace,
         DeferEnrichment, Settle, IngestFails, Reindex, DeferReindex, Reap, DeletionNext,
         CloseDocument, WipeDocument, DropDocument, DeletionFails, RemovalNext, Remove,
         PurgeArrives, PurgeAnswered, RemovalFails, PurgeStep, PurgeFences, PurgeRows,
         PurgePoints, Finalise, PurgeFails
    <3> QED
      BY <3>1, <3>2, <3>3, <3>4
  <2> QED
    BY <1>2, <2>1, <2>2 DEF JobGoes, SameJob, BeginsJob, GoesOn, At, Art
<1> QED
  BY <1>1, <1>2 DEF Promised

\* Opening a version again is noted; on the open one, a status is reported only by a job
\* that has written it.
LEMMA StatusKeepsPromise ==
  ASSUME TypeOK, PromiseInv, [Next]_vars, NEW a \in Ingests, NEW s, NEW why, SetStatus(a, s, why),
         UNCHANGED points, open # a => why \intersect Excuses # {},
         s = "synced" => \E w \in Workers : At(w, "settling") /\ Art(w) = a,
         \A i \in Ingests : ~WriteRaw(i), \A w \in Workers : ~WriteEnriched(w)
  PROVE  PromiseInv'
<1> SUFFICES ASSUME Promised(a)' PROVE Searchable'
  BY DEF PromiseInv, SetStatus
<1>1. CASE open # a
  BY <1>1 DEF SetStatus, Searchable
<1>2. CASE open = a
  <2>1. index'[a] = s
    BY DEF SetStatus, TypeOK
  <2>2. Promised(a)
    BY <2>1, PromisesComeFromWrites DEF Promised
  <2>3. Searchable /\ blame \subseteq blame' /\ open' = open
    BY <1>2, <2>2, NobodyAssumption DEF PromiseInv, SetStatus
  <2> QED
    BY <2>3, DocumentStays DEF Searchable, document
<1> QED
  BY <1>1, <1>2

\* Whoever reports a version as synced has written its points before, and whoever replaces
\* them since says why.
LEMMA PromisePreserved ==
  ASSUME TypeOK, KnowledgeInv, [Next]_vars
  PROVE  PromiseInv'
<1> USE DEF artifacts
<1>t. PromiseInv /\ WrittenInv /\ SureInv /\ ReferenceInv /\ OriginInv /\ says' = says
  BY DocumentStays DEF KnowledgeInv, document
<1>1. ASSUME NEW i \in Ingests, WriteRaw(i) PROVE PromiseInv'
  <2>1. /\ points' = [of |-> ing[i].art, text |-> says[i]] /\ open' = open
        /\ blame' = Verdict(ing[i].art, says[i])
    BY <1>1 DEF WriteRaw
  <2>2. Searchable'
    BY <2>1, <1>t DEF Searchable, Verdict, Excuses
  <2> QED
    BY <2>2 DEF PromiseInv
<1>2. ASSUME NEW w \in Workers, WriteEnriched(w) PROVE PromiseInv'
  <2>1. /\ points' = [of |-> Art(w), text |-> run[w].text] /\ open' = open
        /\ blame' = Verdict(Art(w), run[w].text)
    BY <1>2, <1>t DEF WriteEnriched, SureInv
  <2>2. Searchable'
    BY <2>1, <1>t DEF Searchable, Verdict, Excuses
  <2> QED
    BY <2>2 DEF PromiseInv
<1>3. CASE WipeDocument \/ PurgePoints
  BY <1>3 DEF WipeDocument, PurgePoints, Wipe, PromiseInv, Searchable, Excuses
<1> DEFINE NoWrite == /\ \A i \in Ingests : ~WriteRaw(i)
                      /\ \A w \in Workers : ~WriteEnriched(w)
<1>4. ASSUME NoWrite, NEW w \in Workers, SettleEnriched(w) PROVE PromiseInv'
  <2>1. Art(w) \in Ingests /\ At(w, "settling")
    BY <1>4, <1>t DEF SettleEnriched, Waive, At, ReferenceInv, Made
  <2> QED
    BY <1>4, <1>t, <2>1, StatusKeepsPromise DEF SettleEnriched, Reopens, Excuses
<1>5. ASSUME NoWrite, NEW w \in Workers, EnrichmentFails(w), Direct PROVE PromiseInv'
  <2>1. Art(w) \in Ingests
    BY <1>5, <1>t DEF EnrichmentFails, ReferenceInv, Made
  <2> QED
    BY <1>5, <1>t, <2>1, StatusKeepsPromise DEF EnrichmentFails, Reopens, Excuses
<1>w. ASSUME NoWrite, NEW w \in Workers, Waive(w), Direct PROVE PromiseInv'
  <2>0. Art(w) \in Ingests
    BY <1>w, <1>t DEF Waive, At, ReferenceInv, Made
  <2>1. CASE run[w].text \notin Long
    BY <1>w, <1>t, <2>0, <2>1, StatusKeepsPromise DEF Waive, Reopens, Excuses
  <2>2. CASE run[w].text \in Long /\ open # Art(w)
    <3>1. "resurrected" \in blame'
      BY <1>w, <2>2 DEF Waive, SetStatus, Reopens
    <3> QED
      BY <3>1 DEF PromiseInv, Searchable, Excuses
  <2>3. CASE run[w].text \in Long /\ open = Art(w)
    <3>1. /\ UNCHANGED points /\ open' = open /\ blame \subseteq blame'
          /\ Unwritten => "waived" \in blame'
      BY <1>w, <2>3 DEF Waive, SetStatus
    <3>2. Searchable \/ Unwritten
      BY <1>t, <2>0, <2>3, NobodyAssumption DEF WrittenInv
    <3>3. Searchable'
      BY <3>1, <3>2, <1>t DEF Searchable, Excuses
    <3> QED
      BY <3>3 DEF PromiseInv
  <2> QED
    BY <2>1, <2>2, <2>3
<1>6. ASSUME NoWrite, NEW a \in Ingests, Reindex(a) PROVE PromiseInv'
  BY <1>6, <1>t, StatusKeepsPromise DEF Reindex, Reopens, Excuses
<1>7. ASSUME NoWrite, NEW i \in Ingests, Create(i) PROVE PromiseInv'
  <2>1. i \notin Made /\ open' = i /\ index' = [index EXCEPT ![i] = "pending"]
    BY <1>7 DEF Create, Made
  <2>2. ~Promised(i)
    <3>1. index[i] # "synced"
      BY <2>1, <1>t DEF ReferenceInv, TypeOK
    <3>2. \A k \in Ingests : ing[k].art # i
      BY <2>1, <1>t, NobodyAssumption DEF ReferenceInv
    <3>3. \A w \in Workers : Busy(w) => Art(w) # i
      BY <2>1, <1>t DEF ReferenceInv
    <3> QED
      BY <3>1, <3>2, <3>3 DEF Promised, At
  <2>3. index'[i] # "synced"
    BY <2>1 DEF TypeOK
  <2> QED
    BY <1>7, <2>1, <2>2, <2>3, PromisesComeFromWrites DEF PromiseInv
<1>8. ASSUME NoWrite, open' \in {open, Nobody}, UNCHANGED points, blame \subseteq blame',
             open # Nobody /\ index'[open] = "synced" => Promised(open)
      PROVE  PromiseInv'
  <2> SUFFICES ASSUME open' = open, open # Nobody, Promised(open)' PROVE Searchable'
    BY <1>8 DEF PromiseInv
  <2>1. open \in Ingests
    BY DEF TypeOK
  <2> DEFINE a == open
  <2>2. Promised(a)'
    BY DEF Promised
  <2> HIDE DEF a
  <2>3. Promised(a)
    BY <1>8, <2>1, <2>2, PromisesComeFromWrites DEF a
  <2>4. Searchable
    BY <2>3, <1>t DEF PromiseInv, a
  <2> QED
    BY <2>4, <1>8, <1>t DEF Searchable
<1>9. ASSUME NoWrite, NEW i \in Ingests, Settle(i) PROVE PromiseInv'
  <2>1. open' = open /\ UNCHANGED <<points, blame>>
    BY <1>9 DEF Settle
  <2>2. open # Nobody /\ index'[open] = "synced" => Promised(open)
    BY <1>9 DEF Settle, Promised, TypeOK
  <2> QED
    BY <1>8, <1>9, <2>1, <2>2
<1>10. CASE NoWrite /\ Reap
  <2>1. open' = open /\ UNCHANGED <<points, blame>> /\ index'[open] = "failed"
    BY <1>10 DEF Reap, Stale, TypeOK
  <2> QED
    BY <1>8, <1>10, <2>1
<1>11. ASSUME NoWrite, CloseDocument \/ DropDocument \/ PurgeRows PROVE PromiseInv'
  BY <1>11 DEF CloseDocument, DropDocument, PurgeRows, DropRows, PromiseInv
<1>12. ASSUME NoWrite, UNCHANGED <<open, index, points>>, blame \subseteq blame' PROVE PromiseInv'
  BY <1>8, <1>12 DEF Promised
<1>13. \/ \E i \in Ingests : WriteRaw(i) \/ Create(i) \/ Settle(i)
       \/ \E w \in Workers : \/ WriteEnriched(w) \/ SettleEnriched(w)
                             \/ (EnrichmentFails(w) \/ Waive(w)) /\ Direct
       \/ \E a \in Ingests : Reindex(a)
       \/ WipeDocument \/ PurgePoints \/ Reap \/ CloseDocument \/ DropDocument \/ PurgeRows
       \/ UNCHANGED <<open, index, points>> /\ blame \subseteq blame'
  BY DEF Next, vars, IngestNext, Admit, AdmitDirect, SkipInactive, Compare, LoseRace,
         DeferEnrichment, IngestFails, EnrichmentNext, WorkerStep, PickUp, PickUpInVain, Recheck,
         Waive, EnrichmentFails, Interrupted, Aborted, DeferReindex, DeletionNext,
         DeletionFails, RemovalNext, Remove, PurgeArrives, PurgeAnswered, RemovalFails, PurgeStep, PurgeFences,
         Finalise, PurgeFails
<1> QED
  BY <1>1, <1>2, <1>3, <1>4, <1>5, <1>w, <1>6, <1>7, <1>9, <1>10, <1>11, <1>12, <1>13

\* An open version stays written, or unwritten until its ingest writes it or ends.
LEMMA WrittenPreserved ==
  ASSUME TypeOK, KnowledgeInv, [Next]_vars
  PROVE  WrittenInv'
<1> USE DEF artifacts
<1>t. WrittenInv /\ SureInv /\ says' = says
  BY DocumentStays DEF KnowledgeInv, document
<1>1. ASSUME NEW a, NEW text, points' = [of |-> a, text |-> text], open' = open,
             blame' = Verdict(a, text)
      PROVE  WrittenInv'
  <2>1. Searchable'
    BY <1>1, <1>t DEF Searchable, Verdict, Excuses
  <2> QED
    BY <2>1 DEF WrittenInv
<1>2. ASSUME NEW i \in Ingests, WriteRaw(i) PROVE WrittenInv'
  BY <1>1, <1>2 DEF WriteRaw
<1>3. ASSUME NEW w \in Workers, WriteEnriched(w) PROVE WrittenInv'
  <2>1. run[w].sure
    BY <1>3, <1>t DEF WriteEnriched, SureInv
  <2> QED
    BY <1>1, <1>3, <2>1 DEF WriteEnriched
<1>4. CASE WipeDocument \/ PurgePoints
  BY <1>4 DEF WipeDocument, PurgePoints, Wipe, WrittenInv, Searchable, Excuses
<1>5. ASSUME NEW i \in Ingests, Create(i) PROVE WrittenInv'
  <2>1. ing'[i].pc = "writing" /\ ing'[i].art = open'
    BY <1>5, IngestTypes DEF Create
  <2> QED
    BY <2>1 DEF WrittenInv, Unwritten
<1>6. CASE CloseDocument \/ DropDocument \/ PurgeRows
  BY <1>6 DEF CloseDocument, DropDocument, PurgeRows, DropRows, WrittenInv
<1>7. ASSUME UNCHANGED <<points, open>>, blame \subseteq blame', Unwritten => Unwritten'
      PROVE  WrittenInv'
  BY <1>7, <1>t DEF WrittenInv, Searchable
<1>8. ASSUME UNCHANGED <<points, ing>>, NEW a, NEW s, NEW why, SetStatus(a, s, why),
             open # a => why \intersect Excuses # {}
      PROVE  WrittenInv'
  <2>1. CASE open = a
    <3>1. UNCHANGED open /\ blame \subseteq blame'
      BY <1>8, <2>1 DEF SetStatus
    <3> QED
      BY <1>7, <1>8, <3>1 DEF Unwritten
  <2>2. CASE open # a
    BY <1>8, <2>2 DEF SetStatus, WrittenInv, Searchable
  <2> QED
    BY <2>1, <2>2
<1>9. ASSUME NEW i \in Ingests, IngestNext(i), ~WriteRaw(i), ~Create(i) PROVE WrittenInv'
  <2>1. UNCHANGED <<points, open>> /\ blame \subseteq blame'
    BY <1>9 DEF IngestNext, Admit, AdmitDirect, SkipInactive, Compare, LoseRace,
         DeferEnrichment, Settle, IngestFails
  <2>2. ing[i].pc = "writing" /\ ing[i].art = open => "unwritten" \in blame'
    BY <1>9 DEF IngestNext, Admit, AdmitDirect, SkipInactive, Compare, LoseRace,
         DeferEnrichment, Settle, IngestFails
  <2>3. \A k \in Ingests : k # i => ing'[k] = ing[k]
    BY <1>9, IngestSteps, IngestTypes
  <2> QED
    BY <1>7, <2>1, <2>2, <2>3 DEF Unwritten
<1>10. ASSUME NEW w \in Workers, EnrichmentNext(w), ~WriteEnriched(w) PROVE WrittenInv'
  <2>1. UNCHANGED <<points, ing>>
    BY <1>10 DEF EnrichmentNext, WorkerStep, PickUp, PickUpInVain, Recheck, SettleEnriched,
         Waive, EnrichmentFails, Interrupted, Aborted
  <2>2. \/ UNCHANGED <<open, blame>>
        \/ \E s, why : SetStatus(Art(w), s, why)
                      /\ (open # Art(w) => why \intersect Excuses # {})
    BY <1>10 DEF EnrichmentNext, WorkerStep, PickUp, PickUpInVain, Recheck, SettleEnriched,
         Waive, EnrichmentFails, Interrupted, Aborted, Reopens, Excuses
  <2> QED
    BY <1>7, <1>8, <2>1, <2>2 DEF Unwritten
<1>11. ASSUME NEW a \in Ingests, Reindex(a) PROVE WrittenInv'
  BY <1>8, <1>11 DEF Reindex, Reopens, Excuses
<1>12. CASE DeferReindex \/ Reap \/ RemovalNext \/ DeletionFails \/ PurgeFences \/ Finalise
            \/ PurgeFails \/ UNCHANGED vars
  <2>1. UNCHANGED <<points, open, ing>> /\ blame \subseteq blame'
    BY <1>12 DEF DeferReindex, Reap, RemovalNext, Remove, PurgeArrives, PurgeAnswered,
         RemovalFails, DeletionFails, PurgeFences, Finalise, PurgeFails, vars
  <2> QED
    BY <1>7, <2>1 DEF Unwritten
<1> QED
  BY <1>2, <1>3, <1>4, <1>5, <1>6, <1>9, <1>10, <1>11, <1>12 DEF Next, DeletionNext, PurgeStep

\* Only the deletion of an active connector without a purge marks one for a purge.
LEMMA RemovalPreserved ==
  ASSUME RemovalInv, [Next]_vars
  PROVE  RemovalInv'
<1> USE DEF connection
<1>1. Remove \/ removal' # "marked" \/ UNCHANGED <<removal, purge>> \/ purge # "none"
  BY DEF Next, vars, IngestNext, Admit, AdmitDirect, SkipInactive, Compare, Create, LoseRace,
       WriteRaw, DeferEnrichment, Settle, IngestFails, EnrichmentNext, WorkerStep, PickUp,
       PickUpInVain, Recheck, WriteEnriched, SettleEnriched, Waive, EnrichmentFails, Interrupted,
       Aborted, Reindex, DeferReindex, Reap, DeletionNext, CloseDocument, WipeDocument,
       DropDocument, DeletionFails, RemovalNext, PurgeArrives, PurgeAnswered,
       RemovalFails, PurgeStep, PurgeFences, PurgeRows, PurgePoints, Finalise, PurgeFails
<1>2. purge # "none" => removal' # "marked"
  BY DEF RemovalInv, Next, vars, IngestNext, Admit, AdmitDirect, SkipInactive, Compare, Create,
       LoseRace, WriteRaw, DeferEnrichment, Settle, IngestFails, EnrichmentNext, WorkerStep,
       PickUp, PickUpInVain, Recheck, WriteEnriched, SettleEnriched, Waive, EnrichmentFails, Interrupted,
       Aborted, Reindex, DeferReindex, Reap, DeletionNext, CloseDocument, WipeDocument,
       DropDocument, DeletionFails, RemovalNext, Remove, PurgeArrives, PurgeAnswered,
       RemovalFails, PurgeStep, PurgeFences, PurgeRows, PurgePoints, Finalise, PurgeFails
<1> QED
  BY <1>1, <1>2 DEF RemovalInv, Remove

\* When the points stay and the open version stays, only the end of a moment in between, or a
\* failure for good in it, could leave points behind.
LEMMA OwnershipPreserved ==
  ASSUME TypeOK, KnowledgeInv, [Next]_vars
  PROVE  PointsAreOwned'
<1> USE DEF artifacts, connection
<1>t. PointsAreOwned /\ SureInv /\ RemovalInv
  BY DEF KnowledgeInv
<1>1. ASSUME NEW i \in Ingests, WriteRaw(i) PROVE PointsAreOwned'
  <2>1. /\ points' = [of |-> ing[i].art, text |-> says[i]] /\ open' = open
        /\ blame' = Verdict(ing[i].art, says[i])
    BY <1>1 DEF WriteRaw
  <2>2. points'.of = open' \/ "overtaken" \in blame'
    BY <2>1 DEF Verdict
  <2> QED
    BY <2>2 DEF PointsAreOwned
<1>2. ASSUME NEW w \in Workers, WriteEnriched(w) PROVE PointsAreOwned'
  <2>1. /\ points' = [of |-> Art(w), text |-> run[w].text] /\ open' = open
        /\ blame' = Verdict(Art(w), run[w].text)
    BY <1>2, <1>t DEF WriteEnriched, SureInv
  <2>2. points'.of = open' \/ "overtaken" \in blame'
    BY <2>1 DEF Verdict
  <2> QED
    BY <2>2 DEF PointsAreOwned
<1>3. CASE WipeDocument \/ PurgePoints
  BY <1>3 DEF WipeDocument, PurgePoints, Wipe, PointsAreOwned
<1>4. ASSUME NEW i \in Ingests, Create(i) PROVE PointsAreOwned'
  <2>1. ing'[i].pc = "writing" /\ ing'[i].art = open'
    BY <1>4, IngestTypes DEF Create
  <2> QED
    BY <2>1 DEF PointsAreOwned, InBetween
<1>5. ASSUME UNCHANGED points, NEW a, NEW s, NEW why, SetStatus(a, s, why),
             open # a => why \intersect {"resurrected", "reopened"} # {},
             UNCHANGED <<ing, deletion, purge>>
      PROVE  PointsAreOwned'
  <2>1. /\ blame \subseteq blame'
        /\ open' = open \/ blame' \intersect {"resurrected", "reopened"} # {}
    BY <1>5 DEF SetStatus
  <2> QED
    BY <1>5, <1>t, <2>1 DEF PointsAreOwned, InBetween
<1>6. ASSUME UNCHANGED <<points, open>>, blame \subseteq blame',
             InBetween => InBetween' \/ blame' \intersect {"unwritten", "halted"} # {}
      PROVE  PointsAreOwned'
  BY <1>6, <1>t DEF PointsAreOwned
<1>7. ASSUME NEW i \in Ingests, IngestNext(i), ~WriteRaw(i), ~Create(i) PROVE PointsAreOwned'
  <2>1. UNCHANGED <<points, open, deletion, purge>> /\ blame \subseteq blame'
    BY <1>7 DEF IngestNext, Admit, AdmitDirect, SkipInactive, Compare, LoseRace,
       DeferEnrichment,
         Settle, IngestFails
  <2>2. ing[i].pc = "writing" /\ ing[i].art = open => "unwritten" \in blame'
    BY <1>7 DEF IngestNext, Admit, AdmitDirect, SkipInactive, Compare, LoseRace,
       DeferEnrichment,
         Settle, IngestFails
  <2>3. \A k \in Ingests : k # i => ing'[k] = ing[k]
    BY <1>7, IngestSteps, IngestTypes
  <2> QED
    BY <1>6, <2>1, <2>2, <2>3 DEF InBetween
<1>8. ASSUME NEW w \in Workers, EnrichmentNext(w), ~WriteEnriched(w) PROVE PointsAreOwned'
  <2>1. UNCHANGED <<points, ing, deletion, purge>>
    BY <1>8 DEF EnrichmentNext, WorkerStep, PickUp, PickUpInVain, Recheck, SettleEnriched,
       Waive,
         EnrichmentFails, Interrupted, Aborted
  <2>2. \/ UNCHANGED <<open, blame>>
        \/ \E s, why : SetStatus(Art(w), s, why)
                      /\ (open # Art(w) => why \intersect {"resurrected", "reopened"} # {})
    BY <1>8 DEF EnrichmentNext, WorkerStep, PickUp, PickUpInVain, Recheck, SettleEnriched,
       Waive,
         EnrichmentFails, Interrupted, Aborted, Reopens
  <2> QED
    BY <1>5, <1>6, <2>1, <2>2 DEF InBetween
<1>9. ASSUME NEW a \in Ingests, Reindex(a) PROVE PointsAreOwned'
  BY <1>5, <1>9 DEF Reindex, Reopens
<1>10. CASE DeferReindex \/ Reap \/ RemovalNext \/ UNCHANGED vars
  <2>1. /\ UNCHANGED <<points, open, ing, deletion, blame>>
        /\ purge' = purge \/ purge = "none"
    BY <1>10, <1>t DEF RemovalInv, DeferReindex, Reap, RemovalNext, Remove, PurgeArrives,
       PurgeAnswered,
         RemovalFails, vars
  <2> QED
    BY <1>6, <2>1 DEF InBetween
<1>11. CASE CloseDocument
  BY <1>11 DEF CloseDocument, PointsAreOwned, InBetween
<1>12. CASE DropDocument
  BY <1>12 DEF DropDocument, PointsAreOwned
<1>13. CASE DeletionFails
  BY <1>13 DEF DeletionFails, PointsAreOwned
<1>14. CASE PurgeRows
  BY <1>14 DEF PurgeRows, PointsAreOwned, InBetween
<1>15. CASE PurgeFences \/ Finalise \/ PurgeFails
  <2>1. /\ UNCHANGED <<points, open, ing, deletion>> /\ blame \subseteq blame'
        /\ purge = "dropped" => "halted" \in blame'
    BY <1>15 DEF PurgeFences, Finalise, PurgeFails
  <2> QED
    BY <1>6, <2>1 DEF InBetween
<1> QED
  BY <1>1, <1>2, <1>3, <1>4, <1>7, <1>8, <1>9, <1>10, <1>11, <1>12, <1>13, <1>14, <1>15
  DEF Next, DeletionNext, PurgeStep
-----------------------------------------------------------------------------
(* Theorems *)

\* In every interleaving of ingests, enrichments, deletions, purges and failures, the state is
\* well typed, whoever reports a version as synced has written it, and points without a version
\* have a reason.
THEOREM KnowledgeInvariant == Spec => [](TypeOK /\ KnowledgeInv)
<1>1. Init => TypeOK /\ KnowledgeInv
  <2> SUFFICES ASSUME Init PROVE TypeOK /\ KnowledgeInv
    OBVIOUS
  <2>1. PICK d \in Documents : origin = d.origin /\ says = d.says
    BY DEF Init
  <2>2. [origin |-> origin, says |-> says] = d /\ says \in [Ingests -> Texts]
    BY <2>1, DocumentsAssumption
  <2>3. ArtifactTypes /\ PointTypes /\ todo \subseteq Jobs
    BY <2>2 DEF Init, ArtifactTypes, PointTypes
  <2>4. ing \in [Ingests -> IngestStates] /\ run \in [Workers -> {Idle} \union JobStates]
    BY DEF Init, IngestStates, NoIngest
  <2>5. RequestTypes /\ HistoryTypes
    <3>1. connector \in {"none", "active"}
      BY DEF Init
    <3>2. RequestTypes
      BY <3>1 DEF Init, RequestTypes
    <3>3. HistoryTypes
      BY EventsAssumption DEF Init, HistoryTypes
    <3> QED
      BY <3>2, <3>3
  <2>6. TypeOK
    BY <2>1, <2>2, <2>3, <2>4, <2>5, TypeParts
  <2>7. \A w \in Workers : ~Busy(w)
    BY DEF Init, Busy
  <2>8. \A i \in Ingests : ing[i].pc = "new" /\ ing[i].art = Nobody
    BY DEF Init, NoIngest
  <2>9. OriginInv /\ SureInv /\ RemovalInv /\ ReferenceInv
    BY <2>7, <2>8 DEF Init, OriginInv, SureInv, RemovalInv, ReferenceInv, Writes, At
  <2>10. PromiseInv /\ WrittenInv /\ PointsAreOwned
    BY DEF Init, PromiseInv, WrittenInv, PointsAreOwned
  <2> QED
    BY <2>6, <2>9, <2>10 DEF KnowledgeInv
<1>2. TypeOK /\ KnowledgeInv /\ [Next]_vars => (TypeOK /\ KnowledgeInv)'
  BY TypesPreserved, OriginPreserved, ReferencePreserved, SurePreserved, PromisePreserved,
     WrittenPreserved, RemovalPreserved, OwnershipPreserved DEF KnowledgeInv
<1> QED
  BY <1>1, <1>2, PTL DEF Spec

\* The state of a document, its versions and its jobs is well typed: an open version is a stored
\* one, and only a stored version has a status.
THEOREM TypeCorrect == Spec => []TypeOK
  BY KnowledgeInvariant, PTL

\* "Only a synced artifact promises chunks in Qdrant": the promise is kept, but where a writer was
\* overtaken, raced or wiped away, or a closed version opened again.
THEOREM SyncedSearchable == Spec => []SyncedIsSearchable
<1>1. KnowledgeInv => SyncedIsSearchable
  BY DEF KnowledgeInv, PromiseInv, Promised, Searchable, SyncedIsSearchable
<1> QED
  BY <1>1, KnowledgeInvariant, PTL

\* Points belong to the open version, but for the moments in between and the named reasons.
THEOREM PointsOwned == Spec => []PointsAreOwned
<1>1. KnowledgeInv => PointsAreOwned
  BY DEF KnowledgeInv
<1> QED
  BY <1>1, KnowledgeInvariant, PTL

\* An ingest that is skipped as unchanged leaves a searchable text behind, with the same exceptions.
THEOREM UnchangedSearchable == Spec => UnchangedIsSearchable
<1> DEFINE Found ==
      \A i \in Ingests :
        ing[i].pc = "comparing" /\ ing'[i].pc = "over" /\ events' = events =>
          \/ points # Nothing /\ points.text = says[i]
          \/ blame \intersect Excuses # {}
<1>1. TypeOK /\ KnowledgeInv /\ [Next]_vars => [Found]_vars
  <2> SUFFICES ASSUME TypeOK, KnowledgeInv, Next, NEW i \in Ingests,
                      ing[i].pc = "comparing", ing'[i].pc = "over", events' = events
               PROVE  \/ points # Nothing /\ points.text = says[i]
                      \/ blame \intersect Excuses # {}
    OBVIOUS
  <2>1. PICK k \in Ingests : IngestNext(k)
    <3>1. UNCHANGED ing \/ \E k \in Ingests : IngestNext(k)
      BY DEF Next, EnrichmentNext, WorkerStep, PickUp, PickUpInVain, Recheck, WriteEnriched,
         SettleEnriched, Waive, EnrichmentFails, Interrupted, Aborted, Reindex, DeferReindex, Reap,
         DeletionNext, CloseDocument, WipeDocument, DropDocument, DeletionFails, RemovalNext,
         Remove, PurgeArrives, PurgeAnswered, RemovalFails, PurgeStep, PurgeFences, PurgeRows,
         PurgePoints, Finalise, PurgeFails
    <3> QED
      BY <3>1
  <2>2. k = i
    BY <2>1, IngestSteps, IngestTypes
  <2>3. events \in Nat /\ events' # events + 1
    BY EventsAssumption DEF TypeOK
  <2>4. Compare(i)
    BY <2>1, <2>2, <2>3 DEF IngestNext, Admit, AdmitDirect, SkipInactive, Create, LoseRace,
         WriteRaw, DeferEnrichment, Settle, IngestFails, Event
  <2>5. Unchanged(i)
    BY <2>4, IngestTypes DEF Compare
  <2>6. Searchable /\ open # Nobody /\ says[open] = says[i]
    BY <2>5 DEF Unchanged, KnowledgeInv, PromiseInv, Promised
  <2>7. points = [of |-> open, text |-> says[open]] => points # Nothing /\ points.text = says[i]
    <3>1. Nothing.of = Nobody
      BY DEF Nothing
    <3> QED
      BY <2>6, <3>1
  <2> QED
    BY <2>6, <2>7 DEF Searchable
<1> QED
  BY <1>1, KnowledgeInvariant, PTL DEF Spec, UnchangedIsSearchable

=============================================================================
