---------------------------- MODULE ReplacePoints ----------------------------
(***************************************************************************)
(* The points of one document in Qdrant and the calls that replace them     *)
(* (qdrant_store._replace_points).  Nothing serialises the calls: an ingest *)
(* of a new version runs next to an enrichment of the old one, and two      *)
(* enrichment jobs of one version next to each other.  Each call reads the  *)
(* ids it is to replace page by page, writes its own points, and deletes    *)
(* the ids it read; any of its HTTP calls may fail, applied or not, and the *)
(* worker may die between them.  A call for a batch of a large version has  *)
(* no text of its own: it reads it from the points it finds, in the order   *)
(* of their indices, and writes it back from its offset on.                 *)
(*                                                                          *)
(* A point is <<w, i, t>>: call w wrote it, under the artifact w writes     *)
(* for, with chunk_index i and the text of chunk t.  Vectors and the rest   *)
(* of the payload are left out.  Deleting a whole document, connector or    *)
(* knowledge base is another component's.                                   *)
(***************************************************************************)
EXTENDS Naturals, Sequences

CONSTANTS
  Calls,           \* calls of _replace_points on this document, retries included
  Artifacts,       \* the versions of the document
  ChunksOf,        \* the chunk indices a version has
  VersionOf,       \* the version a call writes
  Whole,           \* calls of upsert_chunks, or of upsert_enriched_chunks without chunk_offset
  OffsetOf,        \* the chunk_offset of the others
  BatchSize        \* enrichment_batch_size

ASSUME VersionsAssumption ==
  /\ VersionOf \in [Calls -> Artifacts]
  /\ ChunksOf \in [Artifacts -> SUBSET Nat]
  /\ \A a \in Artifacts : ChunksOf[a] # {}       \* ingest_document returns early on no chunks
  /\ Whole \subseteq Calls
  /\ OffsetOf \in [Calls -> Nat]
  /\ BatchSize \in Nat \ {0}

VARIABLES
  points,          \* the document's points in the collection
  pc,              \* where a call stands
  batch,           \* the texts a call for a batch has read, in order
  staleIds,        \* the ids a call has read so far
  before,          \* history: the points to replace that were there as the call began
  upserted,        \* history: the calls whose upsert took effect
  disturbed        \* history: a call began while another was under way, or after a failed one

vars == <<points, pc, batch, staleIds, before, upserted, disturbed>>

Point == Calls \X Nat \X Nat
Steps == {"idle", "batched", "reading", "read", "written", "done", "failed"}

\* What a call writes: every chunk of its version, or what it has read, one index after
\* another.
PointsOf(w) ==
  IF w \in Whole THEN {<<w, i, i>> : i \in ChunksOf[VersionOf[w]]}
  ELSE {<<w, OffsetOf[w] + j - 1, batch[w][j]>> : j \in DOMAIN batch[w]}

\* Mutant of Matches: a batch does not ask for its own artifact.
MatchesAnyVersion(w, p) == w \in Whole \/ \E q \in PointsOf(w) : q[2] = p[2]

\* The filter: org, knowledge base and path; for a batch also artifact and the range of
\* indices it writes.
Matches(w, p) ==
  w \in Whole \/ (VersionOf[p[1]] = VersionOf[w] /\ \E q \in PointsOf(w) : q[2] = p[2])

\* Mutant of Matching: the ids are not filtered.
AllPoints(w) == points

Matching(w) == {p \in points : Matches(w, p)}

Init ==
  /\ points = {}
  /\ pc = [w \in Calls |-> "idle"]
  /\ batch = [w \in Calls |-> <<>>]
  /\ staleIds = [w \in Calls |-> {}]
  /\ before = [w \in Calls |-> {}]
  /\ upserted = {}
  /\ disturbed = FALSE

Starts(w) ==
  /\ pc[w] = "idle"
  /\ disturbed' = (disturbed \/ \E v \in Calls : pc[v] \notin {"idle", "done"})

\* The range of a batch, and the points of its artifact in it.
Range(w) == OffsetOf[w] .. OffsetOf[w] + BatchSize - 1
InRange(w) == {p \in points : VersionOf[p[1]] = VersionOf[w] /\ p[2] \in Range(w)}

\* Mutant of Sorted: the points come as they are found.
Found(f, n) == \A j, k \in 1 .. n : j < k => f[j] # f[k]

\* read_chunk_batch: at most as many points as the range is long, any of them if there are
\* more, sorted by their index.
Sorted(f, n) == \A j, k \in 1 .. n : j < k => f[j] # f[k] /\ f[j][2] <= f[k][2]
ReadBatch(w) ==
  /\ w \notin Whole /\ Starts(w)
  /\ \E n \in 1 .. BatchSize : \E found \in [1 .. n -> InRange(w)] :
       /\ Sorted(found, n)
       /\ n = BatchSize \/ \A p \in InRange(w) : \E j \in 1 .. n : found[j] = p
       /\ batch' = [batch EXCEPT ![w] = [j \in 1 .. n |-> found[j][3]]]
  /\ pc' = [pc EXCEPT ![w] = "batched"]
  /\ UNCHANGED <<points, staleIds, before, upserted>>

\* A batch without points has nothing to do.
EmptyBatch(w) ==
  /\ w \notin Whole /\ Starts(w)
  /\ InRange(w) = {}
  /\ pc' = [pc EXCEPT ![w] = "done"]
  /\ UNCHANGED <<points, batch, staleIds, before, upserted>>

\* The scroll begins; for a batch, after its LLM calls.
Begin(w) ==
  /\ \/ w \in Whole /\ Starts(w)
     \/ pc[w] = "batched" /\ UNCHANGED disturbed
  /\ pc' = [pc EXCEPT ![w] = "reading"]
  /\ before' = [before EXCEPT ![w] = Matching(w)]
  /\ UNCHANGED <<points, batch, staleIds, upserted>>

\* The next id of the scroll.  A page is several of these with nothing in between.
ScrollNext(w) ==
  /\ pc[w] = "reading"
  /\ \E p \in Matching(w) \ staleIds[w] : staleIds' = [staleIds EXCEPT ![w] = @ \union {p}]
  /\ UNCHANGED <<points, pc, batch, before, upserted, disturbed>>

\* Mutant of ScrollEnds: only the first page is read.
FirstPageOnly(w) ==
  /\ pc[w] = "reading"
  /\ pc' = [pc EXCEPT ![w] = "read"]
  /\ UNCHANGED <<points, batch, staleIds, before, upserted, disturbed>>

\* The last page: a point that was there all along has been on one of them.
ScrollEnds(w) ==
  /\ pc[w] = "reading"
  /\ before[w] \intersect points \subseteq staleIds[w]
  /\ pc' = [pc EXCEPT ![w] = "read"]
  /\ UNCHANGED <<points, batch, staleIds, before, upserted, disturbed>>

Store(w) ==
  /\ points' = points \union PointsOf(w)
  /\ upserted' = upserted \union {w}

\* Mutant of Remove: delete everything but the call's own points.
RemoveOthers(w) ==
  /\ points' = {p \in points : p[1] = w \/ ~Matches(w, p)}
  /\ UNCHANGED upserted

Remove(w) == points' = points \ staleIds[w] /\ UNCHANGED upserted

Upsert(w) ==
  /\ pc[w] = "read"
  /\ Store(w)
  /\ pc' = [pc EXCEPT ![w] = "written"]
  /\ UNCHANGED <<batch, staleIds, before, disturbed>>

DeleteStale(w) ==
  /\ pc[w] = "written"
  /\ Remove(w)
  /\ pc' = [pc EXCEPT ![w] = "done"]
  /\ UNCHANGED <<batch, staleIds, before, disturbed>>

\* A timeout or a dead worker ends the call; the request under way may have been applied.
Fail(w) ==
  /\ pc[w] \in {"batched", "reading", "read", "written"}
  /\ pc' = [pc EXCEPT ![w] = "failed"]
  /\ \/ UNCHANGED <<points, upserted>>
     \/ pc[w] = "read" /\ Store(w)
     \/ pc[w] = "written" /\ Remove(w)
  /\ UNCHANGED <<batch, staleIds, before, disturbed>>

Next == \E w \in Calls :
  \/ ReadBatch(w) \/ EmptyBatch(w) \/ Begin(w) \/ ScrollNext(w) \/ ScrollEnds(w)
  \/ Upsert(w) \/ DeleteStale(w) \/ Fail(w)

Spec == Init /\ [][Next]_vars

(***************************************************************************)
(* Properties                                                               *)
(***************************************************************************)

\* Every variable stays in its domain, and a call only ever reads, and so only ever
\* deletes, ids its filter matches.
TypeOK ==
  /\ points \subseteq Point
  /\ pc \in [Calls -> Steps]
  /\ batch \in [Calls -> Seq(Nat)]
  /\ staleIds \in [Calls -> SUBSET Point]
  /\ \A w \in Calls : \A p \in staleIds[w] : Matches(w, p)
  /\ before \in [Calls -> SUBSET Point]
  /\ upserted \subseteq Calls
  /\ disturbed \in BOOLEAN

\* "One writer's points always survive" (_replace_points): of the calls that have written,
\* there is one all of whose points are there, in every interleaving of calls, failures and
\* batches.
OneWriterSurvives == upserted # {} => \E w \in upserted : PointsOf(w) \subseteq points

\* A batch is misread when it does not hold the chunks of its range, in their places.
Misread(w) ==
  w \notin Whole /\ PointsOf(w) # {<<w, i, i>> : i \in ChunksOf[VersionOf[w]] \intersect Range(w)}

\* What a version has of its text, and whether some batch of it was written misread.
VersionComplete(a) ==
  \A t \in ChunksOf[a] : \E p \in points : VersionOf[p[1]] = a /\ p[3] = t
Mixed(a) == \E w \in upserted : VersionOf[w] = a /\ Misread(w)

\* "Never leaving none", and none with only a part of its text: once the document has been
\* written as a whole, the text of every chunk of one of its versions is there, or there are
\* points of a version a batch of which was misread.
DocumentStaysComplete ==
  upserted \intersect Whole # {} =>
    \E a \in Artifacts :
      VersionComplete(a) \/ (Mixed(a) /\ \E p \in points : VersionOf[p[1]] = a)

\* A batch is misread only after calls overlapped or one failed: what read_chunk_batch
\* finds then may be several points of one chunk, or none.
BatchesAreExact == (\E a \in Artifacts : Mixed(a)) => disturbed

\* Why one call and one version survive: their points are in no ids that a call which has already written is about to delete,
\* a point is in nobody's ids before it is written, and has its own text unless its version
\* is mixed.
Doomed(p) == \E v \in Calls : pc[v] = "written" /\ p \in staleIds[v]
WriterIsSafe ==
  upserted # {} => \E w \in upserted : \A p \in PointsOf(w) : p \in points /\ ~Doomed(p)
SafelyComplete(a) ==
  \A t \in ChunksOf[a] : \E p \in points : VersionOf[p[1]] = a /\ p[3] = t /\ ~Doomed(p)
SafelyMixed(a) == Mixed(a) /\ \E p \in points : VersionOf[p[1]] = a /\ ~Doomed(p)
VersionIsSafe ==
  upserted \intersect Whole # {} => \E a \in Artifacts : SafelyComplete(a) \/ SafelyMixed(a)
PointsAreOwned ==
  /\ \A p \in points : p[1] \in upserted /\ (p[2] = p[3] \/ Mixed(VersionOf[p[1]]))
  /\ \A v \in Calls : \A p \in staleIds[v] : p[1] \in upserted
  /\ \A w \in upserted : pc[w] \in {"written", "done", "failed"}
SurvivorInv == WriterIsSafe /\ VersionIsSafe /\ PointsAreOwned

\* A call that ends well has retired every point it was to replace.
OldPointsRetired == \A w \in Calls : pc[w] = "done" => before[w] \intersect points = {}
==============================================================================
