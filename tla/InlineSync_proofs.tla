------------------------- MODULE InlineSync_proofs -------------------------
(***************************************************************************)
(* Whatever is done with documents, the engine stays the one of            *)
(* ConnectorSync: a run of InlineSync is a run of ConnectorSync, whose     *)
(* theorems hold here.                                                     *)
(*                                                                         *)
(* About the documents: the cursors of completed runs, and what a run at   *)
(* work has read, listed and stored, say the truth of the knowledge base.  *)
(* The invariant InlineInv is inductive because the lock keeps two runs of *)
(* a connector apart (WorksAlone, from the engine's theorems), so a run's  *)
(* own steps are the only ones that disturb what it knows; a change to a   *)
(* source comes at a later time than all cursors.  The steps are taken in  *)
(* three kinds (EveryStep): the sources move, the engine moves, or a run   *)
(* works on documents.                                                     *)
(***************************************************************************)
EXTENDS InlineSync, ConnectorSync_proofs, WellFoundedInduction

USE DEF vars, rows, finalising, counters

\* Every step of InlineSync is one of ConnectorSync's, or leaves its variables alone.
LEMMA StepsAreTheEngines == [InlineNext]_all => [Next]_vars
<1> SUFFICES ASSUME [InlineNext]_all PROVE [Next]_vars
  OBVIOUS
<1>1. ASSUME NEW d \in Docs, Edit(d) \/ Unlist(d) \/ Relist(d) PROVE UNCHANGED vars
  BY <1>1 DEF Edit, Unlist, Relist
<1>2. ASSUME NEW k \in Callers, NEW c \in Connectors, Open(k, c) PROVE Next
  BY <1>2 DEF Open, Next
<1>3. ASSUME NEW k \in Callers, InsertRun(k) PROVE Next
  BY <1>3 DEF Next
<1>4. ASSUME NEW r \in Runs, Waits(r) PROVE Next
  BY <1>4 DEF Waits, Next, Engine
<1>5. ASSUME NEW r \in Runs, Documents(r) PROVE [Next]_vars
  <2>1. CASE EndUnchanged(r) \/ Finish(r) \/ FailRun(r)
    <3>1. EndRun(r)
      BY <2>1 DEF EndUnchanged, Finish, FailRun
    <3>2. QED
      BY <3>1 DEF Next, Engine, Work
  <2>2. CASE ReadCursors(r) \/ List(r) \/ Checkpoint(r) \/ EndLoop(r)
    BY <2>2 DEF ReadCursors, List, Checkpoint, EndLoop
  <2>3. ASSUME NEW d \in Docs, IngestDoc(r, d) \/ SkipShort(r, d) \/ FailDoc(r, d)
        PROVE UNCHANGED vars
    BY <2>3 DEF IngestDoc, SkipShort, FailDoc
  <2>4. ASSUME NEW d \in Docs, Retire(r, d) \/ RetireFails(r, d) PROVE UNCHANGED vars
    BY <2>4 DEF Retire, RetireFails
  <2>5. QED
    BY <1>5, <2>1, <2>2, <2>3, <2>4 DEF Documents
<1>6. ASSUME NEW r \in Runs, Breaks(r) PROVE Next
  BY <1>6 DEF Breaks, Next, Engine
<1>7. CASE RestartAll
  BY <1>7 DEF RestartAll, Next
<1>8. CASE UNCHANGED all
  BY <1>8 DEF all
<1>9. QED
  BY <1>1, <1>2, <1>3, <1>4, <1>5, <1>6, <1>7, <1>8 DEF InlineNext

\* Documents change nothing about how runs are opened, admitted, ended and set aside.
THEOREM InlineImplementsEngine == InlineSpec => Spec
<1>1. InlineInit => Init
  BY DEF InlineInit
<1>2. QED
  BY <1>1, StepsAreTheEngines, PTL DEF InlineSpec, Spec

\* So an inline sync, too, is alone with its connector, and one of MaxConcurrent.
THEOREM InlineRespectsLimits == InlineSpec => []EngineLimits
  BY InlineImplementsEngine, EngineRespectsLimits, PTL

(***************************************************************************)
(* Documents.  What a run knows stays true while it works: nobody else has  *)
(* its connector's lock, and the sources change only with the clock.        *)
(***************************************************************************)
Of(c) == {d \in Docs : SourceOf[d] = c}
Plain(d) == excuse[d] \subseteq {"unrecorded"}
Lists(r) == work[r].pc = "listing"
Loops(r) == work[r].pc \in {"ingesting", "saving"}
Retires(r) == work[r].pc = "retiring"

Snapshots == UNION {[L -> 1..(MaxChanges + 1)] : L \in SUBSET Docs}
Listings ==
  [pc : {"listing"}, since : Nat, at : Nat, prevAt : Nat, prev : SUBSET Docs,
   resume : SUBSET Docs]
Loopings ==
  [pc : {"ingesting", "saving"}, since : Nat, at : Nat, prev : SUBSET Docs,
   resume : SUBSET Docs, seen : Snapshots, todo : SUBSET Docs, ok : Nat, failed : BOOLEAN]
Retirings ==
  [pc : {"retiring"}, since : Nat, at : Nat, seen : SUBSET Docs, failed : BOOLEAN,
   gone : SUBSET Docs, kept : SUBSET Docs]

Stages == {Resting} \union Listings \union Loopings \union Retirings

WorkTypes ==
  /\ clock \in 1..(MaxChanges + 1) /\ began \in [Runs -> Nat]
  /\ work \in [Runs -> Stages]

\* Runs that have been opened are told apart by when, and there is a last one.
BeganInv ==
  /\ \A r \in Runs : began[r] <= MaxOpened
  /\ \A r, s \in Runs : began[r] = began[s] /\ began[r] # 0 => r = s
  /\ \A r \in Runs : status[r] # "unused" => began[r] # 0
  /\ \A k \in Callers : \A r \in opening[k] : began[r] # 0

\* What a cursor says, with the time it was read at, is still so, but for the excuses.
Backed(c, at, D) ==
  /\ at <= clock /\ D \subseteq Of(c)
  /\ adapter[c] = "stamped" =>
       \A d \in D : edited[d] <= at /\ Plain(d) => stored[d] = edited[d]
  /\ adapter[c] = "tree" /\ at = clock =>
       \A d \in Listing(c) : Plain(d) => stored[d] = edited[d]
CursorInv ==
  \A r \in Runs :
    status[r] = "completed" => Backed(ConnectorOf[r], cursor[r].at, cursor[r].synced)

\* A document the run is through with is as it was edited, unless it was edited since.
Through(r, D) ==
  \A d \in D : Plain(d) => edited[d] > work[r].since \/ stored[d] = edited[d]

\* What a run at work has read, listed and kept.
RunsWorkInv(r) ==
  LET c == ConnectorOf[r]
  IN /\ work[r].at <= work[r].since /\ work[r].since <= clock
     /\ adapter[c] = "tree" => work[r].at = work[r].since
     /\ \A s \in RunsOf(c) : status[s] = "completed" => cursor[s].at <= work[r].since
     /\ Lists(r) => Backed(c, work[r].prevAt, work[r].prev)
     /\ Lists(r) \/ Loops(r) => work[r].prev = Done(c).synced
     /\ Loops(r) =>
          /\ work[r].todo \subseteq DOMAIN work[r].seen /\ DOMAIN work[r].seen \subseteq Of(c)
          /\ work[r].since = clock => DOMAIN work[r].seen = Listing(c)
          /\ \A d \in DOMAIN work[r].seen :
               /\ work[r].seen[d] \in 1..clock
               /\ work[r].seen[d] = edited[d] \/ edited[d] > work[r].since
          /\ work[r].failed \/ Through(r, DOMAIN work[r].seen \ work[r].todo)
     /\ Retires(r) =>
          /\ work[r].seen \union work[r].gone \union work[r].kept \subseteq Of(c)
          /\ work[r].seen \intersect work[r].gone = {}
          /\ work[r].since = clock => work[r].seen = Listing(c)
          /\ work[r].failed \/ Through(r, work[r].seen)
          /\ work[r].gone # {} \/ work[r].kept # {} => adapter[c] = "snapshot"
          /\ adapter[c] = "snapshot" /\ ~work[r].failed =>
               \A d \in Of(c) : stored[d] # 0 /\ "unrecorded" \notin excuse[d] =>
                 d \in work[r].seen \union work[r].gone \union work[r].kept
WorkInv == \A r \in Runs : work[r] # Resting => RunsWorkInv(r)

InlineInv == WorkOK /\ WorkTypes /\ BeganInv /\ CursorInv /\ WorkInv /\ StoredIsRecorded

-----------------------------------------------------------------------------
(* The last completed run *)

\* A bounded set of numbers has a greatest.
LEMMA GreatestExists ==
  ASSUME NEW S, S \subseteq Nat, S # {}, NEW n \in Nat, \A x \in S : x <= n
  PROVE  \E m \in S : \A x \in S : x <= m
<1> DEFINE T == {n - x : x \in S}
<1>0. \A x \in S : n - x \in Nat
  OBVIOUS
<1>1. T \subseteq Nat /\ T # {}
  BY <1>0
<1> HIDE DEF T
<1>2. PICK t \in T : \A y \in T : ~(<<y, t>> \in OpToRel(<, Nat))
  BY <1>1, NatLessThanWellFounded, WFMin
<1>3. \A y \in T : ~(y < t)
  BY <1>1, <1>2, Zenon DEF OpToRel
<1>4. PICK m \in S : t = n - m
  BY DEF T
<1>5. \A x \in S : n - x \in T
  BY DEF T
<1>6. \A x \in S : ~(n - x < n - m)
  BY <1>3, <1>4, <1>5
<1>7. \A x \in S : x <= m
  BY <1>6, <1>4
<1> QED
  BY <1>7

\* Of some runs, one was opened last.
LEMMA LastExists ==
  ASSUME WorkTypes, BeganInv, NEW R, R \subseteq Runs, R # {}
  PROVE  \E r \in R : \A q \in R : began[q] <= began[r]
<1> DEFINE S == {began[r] : r \in R}
<1>t. began \in [Runs -> Nat] /\ MaxOpened \in Nat
  BY ChangesAssumption DEF WorkTypes
<1>1. S \subseteq Nat /\ S # {} /\ \A x \in S : x <= MaxOpened
  BY <1>t DEF BeganInv
<1>2. PICK m \in S : \A x \in S : x <= m
  BY <1>t, <1>1, GreatestExists
<1> QED
  BY <1>2

CompletedRuns(c) == {r \in RunsOf(c) : status[r] = "completed"}
LastDone(c, r) == r \in CompletedRuns(c) /\ \A q \in CompletedRuns(c) : began[q] <= began[r]

\* _get_last_successful_run finds the completed run opened last, if there is one, and only that.
DoneIsLast ==
  \A c \in Connectors :
    /\ CompletedRuns(c) = {} => Done(c) = NoCursor
    /\ CompletedRuns(c) # {} => \E r \in Runs : LastDone(c, r)
    /\ \A r \in Runs : LastDone(c, r) => Done(c) = cursor[r]

\* Runs are opened one after the other, so the last one is the one the query finds.
LEMMA DoneIs == WorkTypes /\ BeganInv => DoneIsLast
<1> SUFFICES ASSUME WorkTypes, BeganInv, NEW c \in Connectors
             PROVE  /\ CompletedRuns(c) = {} => Done(c) = NoCursor
                    /\ CompletedRuns(c) # {} => \E r \in Runs : LastDone(c, r)
                    /\ \A r \in Runs : LastDone(c, r) => Done(c) = cursor[r]
  BY DEF DoneIsLast
<1> DEFINE R == CompletedRuns(c)
           pick == CHOOSE r \in R : \A q \in R : began[q] <= began[r]
<1>1. R \subseteq Runs /\ \A r \in R : status[r] = "completed"
  BY DEF CompletedRuns, RunsOf
<1>2. Done(c) = IF R = {} THEN NoCursor ELSE cursor[pick]
  BY DEF Done, CursorOfLast, CompletedRuns
<1>t. began \in [Runs -> Nat] /\ MaxOpened \in Nat
  BY ChangesAssumption DEF WorkTypes
<1>3. ASSUME R # {} PROVE \E r \in R : \A q \in R : began[q] <= began[r]
  BY <1>1, <1>3, LastExists
<1>4. ASSUME NEW r \in R, \A q \in R : began[q] <= began[r] PROVE pick = r
  <2>1. pick \in R /\ \A q \in R : began[q] <= began[pick]
    BY <1>4
  <2>2. began[pick] = began[r]
    BY <1>1, <1>4, <1>t, <2>1
  <2>3. began[r] # 0
    BY <1>1, <1>4 DEF BeganInv
  <2> QED
    BY <1>1, <2>1, <2>2, <2>3 DEF BeganInv
<1> QED
  BY <1>1, <1>2, <1>3, <1>4 DEF LastDone

\* It is another run, or its cursor another, only when the completed runs change.
LEMMA DoneStays ==
  ASSUME WorkTypes, BeganInv, WorkTypes', BeganInv', NEW c \in Connectors,
         \A r \in RunsOf(c) : status'[r] = "completed" <=> status[r] = "completed",
         \A r \in CompletedRuns(c) : cursor'[r] = cursor[r] /\ began'[r] = began[r]
  PROVE  Done(c)' = Done(c)
<1>0. WorkTypes' /\ BeganInv' => DoneIsLast'
  BY DoneIs, PTL
<1>1. DoneIsLast /\ DoneIsLast'
  BY <1>0, DoneIs
<1>2. CompletedRuns(c)' = CompletedRuns(c)
  BY DEF CompletedRuns, RunsOf
<1>3. CASE CompletedRuns(c) = {}
  <2>1. Done(c) = NoCursor
    BY <1>3, <1>1 DEF DoneIsLast
  <2>2. Done(c)' = NoCursor
    BY <1>1, <1>2, <1>3 DEF DoneIsLast, NoCursor
  <2> QED
    BY <2>1, <2>2
<1>4. CASE CompletedRuns(c) # {}
  <2>1. PICK r \in Runs : LastDone(c, r)
    BY <1>4, <1>1 DEF DoneIsLast
  <2>2. LastDone(c, r)'
    BY <1>2, <2>1 DEF LastDone
  <2>3. Done(c) = cursor[r] /\ Done(c)' = cursor'[r]
    BY <2>1, <2>2, <1>1 DEF DoneIsLast
  <2> QED
    BY <2>1, <2>3 DEF LastDone
<1> QED
  BY <1>3, <1>4

-----------------------------------------------------------------------------
(* What is read *)

\* A run at work is listing, ingesting or retiring, and its fields have their types.
LEMMA Fields ==
  ASSUME WorkTypes, NEW r \in Runs
  PROVE  /\ work[r] = Resting <=> work[r].pc = "resting"
         /\ Lists(r) => work[r] \in Listings
         /\ Loops(r) => work[r] \in Loopings
         /\ Retires(r) => work[r] \in Retirings
         /\ work[r] # Resting => Lists(r) \/ Loops(r) \/ Retires(r)
BY DEF WorkTypes, Stages, Lists, Loops, Retires, Listings, Loopings, Retirings, Resting

\* The cursor a run reads is one some run has written.
LEMMA CursorsTyped ==
  ASSUME WorkTypes, BeganInv, WorkOK, NEW c, NEW s
  PROVE  CursorOfLast(c, s) \in Cursors
<1> DEFINE R == {r \in RunsOf(c) : status[r] = s}
           pick == CHOOSE r \in R : \A q \in R : began[q] <= began[r]
<1>1. R \subseteq Runs
  BY DEF RunsOf
<1>2. NoCursor \in Cursors
  BY DEF NoCursor, Cursors
<1>3. CursorOfLast(c, s) = IF R = {} THEN NoCursor ELSE cursor[pick]
  BY DEF CursorOfLast
<1>4. R # {} => pick \in R
  BY <1>1, LastExists
<1> QED
  BY <1>1, <1>2, <1>3, <1>4 DEF WorkOK

\* The source's own cursor is not ahead of the source.
LEMMA MarkerBounds ==
  ASSUME WorkTypes, WorkOK, NEW c \in Connectors
  PROVE  /\ Marker(c) \in Nat /\ Marker(c) <= clock
         /\ adapter[c] = "tree" => Marker(c) = clock
<1> DEFINE S == {edited[d] : d \in Listing(c)}
<1>1. clock \in Nat /\ edited \in [Docs -> 1..clock] /\ Listing(c) \subseteq Docs
  BY DEF WorkOK, Listing
<1>2. CASE adapter[c] = "tree" \/ adapter[c] = "snapshot" \/ Listing(c) = {}
  BY <1>1, <1>2 DEF Marker
<1>3. CASE adapter[c] # "tree" /\ adapter[c] # "snapshot" /\ Listing(c) # {}
  <2> DEFINE m == CHOOSE t \in S : \A d \in Listing(c) : edited[d] <= t
  <2>1. Marker(c) = m
    BY <1>3 DEF Marker
  <2>2. S \subseteq Nat /\ S # {} /\ \A x \in S : x <= clock
    BY <1>1, <1>3
  <2>3. \E t \in S : \A x \in S : x <= t
    BY <1>1, <2>2, GreatestExists
  <2>4. m \in S
    BY <2>3
  <2> HIDE DEF m, S
  <2> QED
    BY <1>3, <2>1, <2>2, <2>4
<1> QED
  BY <1>2, <1>3

-----------------------------------------------------------------------------
(* What a run does with its own work *)

Others(r) == \A q \in Runs \ {r} : work'[q] = work[q]

\* A step on the work of one run leaves the others' alone.
LEMMA OneMoves ==
  ASSUME WorkTypes, NEW r \in Runs, NEW x \in Stages, work' = [work EXCEPT ![r] = x]
  PROVE  work' \in [Runs -> Stages] /\ work'[r] = x /\ Others(r)
BY DEF WorkTypes, Others

\* Runs whose work is over rest.
LEMMA RestWay ==
  ASSUME WorkTypes, NEW R, Rest(R)
  PROVE  /\ work' \in [Runs -> Stages]
         /\ \A r \in Runs : work'[r] = IF r \in R THEN Resting ELSE work[r]
BY DEF WorkTypes, Rest, Stages

\* What a run keeps while it ingests.
Keeps(r) ==
  /\ work'[r].since = work[r].since /\ work'[r].at = work[r].at
  /\ work'[r].prev = work[r].prev /\ work'[r].seen = work[r].seen

\* Reading the cursors begins the listing: the source's cursor now, and the last one's.
LEMMA ReadWay ==
  ASSUME WorkTypes, BeganInv, WorkOK, NEW r \in Runs, ReadCursors(r)
  PROVE  LET c == ConnectorOf[r]
         IN /\ work' \in [Runs -> Stages] /\ Others(r) /\ work'[r].pc = "listing"
            /\ work'[r].since = clock /\ work'[r].at = Marker(c)
            /\ work'[r].prevAt = Done(c).at /\ work'[r].prev = Done(c).synced
<1> DEFINE c == ConnectorOf[r]
           x == [pc |-> "listing", since |-> clock, at |-> Marker(c), prevAt |-> Done(c).at,
                 prev |-> Done(c).synced, resume |-> CursorOfLast(c, "pending").ingested]
<1>1. work' = [work EXCEPT ![r] = x]
  BY DEF ReadCursors
<1>2. clock \in Nat /\ Marker(c) \in Nat
  BY MarkerBounds, RunsAssumption DEF WorkOK
<1>3. /\ Done(c).at \in Nat /\ Done(c).synced \subseteq Docs
      /\ CursorOfLast(c, "pending").ingested \subseteq Docs
  BY CursorsTyped DEF Done, Cursors
<1>4. x \in Listings
  BY <1>2, <1>3 DEF Listings
<1>5. /\ x.pc = "listing" /\ x.since = clock /\ x.at = Marker(c)
      /\ x.prevAt = Done(c).at /\ x.prev = Done(c).synced
  OBVIOUS
<1> HIDE DEF x
<1> QED
  BY <1>1, <1>4, <1>5, OneMoves DEF Stages

\* Listing begins the loop, over what has changed and was not ingested before.
LEMMA ListWay ==
  ASSUME WorkTypes, WorkOK, NEW r \in Runs, List(r)
  PROVE  LET L == Listing(ConnectorOf[r])
             w == work'[r]
         IN /\ work' \in [Runs -> Stages] /\ Others(r) /\ w.pc = "ingesting"
            /\ w.since = work[r].since /\ w.at = work[r].at /\ w.prev = work[r].prev
            /\ w.seen = [d \in L |-> edited[d]] /\ w.failed = FALSE
            /\ w.todo = {d \in L \ (L \intersect work[r].resume) : Changed(r, d)}
<1> DEFINE L == Listing(ConnectorOf[r])
           passed == L \intersect work[r].resume
           x == [pc |-> "ingesting", since |-> work[r].since, at |-> work[r].at,
                 prev |-> work[r].prev, resume |-> work[r].resume,
                 seen |-> [d \in L |-> edited[d]],
                 todo |-> {d \in L \ passed : Changed(r, d)},
                 ok |-> Cardinality(passed) % CheckpointEvery, failed |-> FALSE]
<1>0. Lists(r)
  BY DEF List, Lists
<1>1. work' = [work EXCEPT ![r] = x]
  BY DEF List
<1>2. /\ work[r].since \in Nat /\ work[r].at \in Nat /\ work[r].prev \subseteq Docs
      /\ work[r].resume \subseteq Docs
  BY <1>0, Fields DEF Listings
<1>3. L \subseteq Docs
  BY DEF Listing, WorkOK
<1>4. [d \in L |-> edited[d]] \in Snapshots
  <2>1. \A d \in L : edited[d] \in 1..(MaxChanges + 1)
    BY <1>3, ChangesAssumption DEF WorkOK, WorkTypes
  <2>2. [d \in L |-> edited[d]] \in [L -> 1..(MaxChanges + 1)]
    BY <2>1
  <2> QED
    BY <2>2, <1>3 DEF Snapshots
<1>5. Cardinality(passed) % CheckpointEvery \in Nat
  <2>1. IsFiniteSet(passed)
    BY <1>3, SourcesAssumption, FS_Subset
  <2>2. Cardinality(passed) \in Nat
    BY <2>1, FS_CardinalityType
  <2> QED
    BY <2>2, ChangesAssumption
<1>6. x \in Loopings
  BY <1>2, <1>3, <1>4, <1>5 DEF Loopings
<1>7. /\ x.pc = "ingesting" /\ x.since = work[r].since /\ x.at = work[r].at
      /\ x.prev = work[r].prev /\ x.seen = [d \in L |-> edited[d]] /\ x.failed = FALSE
      /\ x.todo = {d \in L \ passed : Changed(r, d)}
  OBVIOUS
<1> HIDE DEF x
<1> QED
  BY <1>1, <1>6, <1>7, OneMoves DEF Stages

\* Being through with a document, in one of three ways, leaves a run in its loop.
LEMMA LoopWays ==
  ASSUME WorkTypes, NEW r \in Runs, NEW d \in Docs,
         IngestDoc(r, d) \/ SkipShort(r, d) \/ FailDoc(r, d)
  PROVE  /\ Loops(r) /\ d \in work[r].todo
         /\ work' \in [Runs -> Stages] /\ Others(r) /\ Loops(r)' /\ Keeps(r)
         /\ work'[r].todo = work[r].todo \ {d}
         /\ \/ work'[r].failed = work[r].failed
            \/ FailDoc(r, d) /\ work'[r].failed
<1>0. Loops(r) /\ d \in work[r].todo /\ work[r].pc = "ingesting"
  BY DEF IngestDoc, SkipShort, FailDoc, Loops
<1>1. work[r] \in Loopings
  BY <1>0, Fields
<1> DEFINE y == work[r]
           Goal == /\ work' \in [Runs -> Stages] /\ Others(r) /\ Loops(r)' /\ Keeps(r)
                   /\ work'[r].todo = y.todo \ {d}
<1>2. ASSUME NEW x \in Loopings, work' = [work EXCEPT ![r] = x],
             x.since = y.since, x.at = y.at, x.prev = y.prev, x.seen = y.seen,
             x.todo = y.todo \ {d}
      PROVE  Goal /\ work'[r].failed = x.failed
  <2>1. work' \in [Runs -> Stages] /\ work'[r] = x /\ Others(r)
    BY <1>2, OneMoves DEF Stages
  <2>2. x.pc \in {"ingesting", "saving"}
    BY DEF Loopings
  <2> QED
    BY <1>2, <2>1, <2>2 DEF Loops, Keeps
<1>3. y.ok \in Nat /\ y.resume \subseteq Docs /\ y.todo \subseteq Docs
  BY <1>1 DEF Loopings
<1>4. CASE IngestDoc(r, d)
  <2> DEFINE n == (y.ok + 1) % CheckpointEvery
             p == IF n = 0 THEN "saving" ELSE "ingesting"
             x == [y EXCEPT !.pc = p, !.todo = y.todo \ {d}, !.resume = y.resume \union {d},
                            !.ok = n]
  <2>1. work' = [work EXCEPT ![r] = x]
    BY <1>4, Zenon DEF IngestDoc
  <2>2. n \in Nat /\ p \in {"ingesting", "saving"}
    BY <1>3, ChangesAssumption
  <2> HIDE DEF n, p
  <2>3. x \in Loopings
    BY <1>1, <1>3, <2>2 DEF Loopings
  <2>4. /\ x.since = y.since /\ x.at = y.at /\ x.prev = y.prev /\ x.seen = y.seen
        /\ x.todo = y.todo \ {d} /\ x.failed = y.failed
    BY <1>1 DEF Loopings
  <2> HIDE DEF x
  <2> QED
    BY <1>0, <1>2, <2>1, <2>3, <2>4
<1>5. CASE SkipShort(r, d)
  <2> DEFINE x == [y EXCEPT !.todo = y.todo \ {d}, !.resume = y.resume \union {d}]
  <2>1. work' = [work EXCEPT ![r] = x]
    BY <1>5, Zenon DEF SkipShort
  <2>3. x \in Loopings
    BY <1>1, <1>3 DEF Loopings
  <2>4. /\ x.since = y.since /\ x.at = y.at /\ x.prev = y.prev /\ x.seen = y.seen
        /\ x.todo = y.todo \ {d} /\ x.failed = y.failed
    BY <1>1 DEF Loopings
  <2> HIDE DEF x
  <2> QED
    BY <1>0, <1>2, <2>1, <2>3, <2>4
<1>6. CASE FailDoc(r, d)
  <2> DEFINE x == [y EXCEPT !.todo = y.todo \ {d}, !.failed = TRUE]
  <2>1. work' = [work EXCEPT ![r] = x]
    BY <1>6, Zenon DEF FailDoc
  <2>3. x \in Loopings
    BY <1>1, <1>3 DEF Loopings
  <2>4. /\ x.since = y.since /\ x.at = y.at /\ x.prev = y.prev /\ x.seen = y.seen
        /\ x.todo = y.todo \ {d} /\ x.failed
    BY <1>1 DEF Loopings
  <2> HIDE DEF x
  <2> QED
    BY <1>0, <1>2, <1>6, <2>1, <2>3, <2>4
<1> QED
  BY <1>4, <1>5, <1>6

\* A checkpoint goes back to the loop with everything as it was.
LEMMA CheckpointWay ==
  ASSUME WorkTypes, NEW r \in Runs, Checkpoint(r)
  PROVE  /\ Loops(r) /\ work' \in [Runs -> Stages] /\ Others(r) /\ Loops(r)' /\ Keeps(r)
         /\ work'[r].todo = work[r].todo /\ work'[r].failed = work[r].failed
<1> DEFINE y == work[r]
           x == [y EXCEPT !.pc = "ingesting"]
<1>1. Loops(r) /\ work' = [work EXCEPT ![r] = x]
  BY DEF Checkpoint, Loops, Does
<1>2. y \in Loopings
  BY <1>1, Fields
<1>3. x \in Loopings /\ x.pc = "ingesting"
  BY <1>2 DEF Loopings
<1>4. /\ x.since = y.since /\ x.at = y.at /\ x.prev = y.prev /\ x.seen = y.seen
      /\ x.todo = y.todo /\ x.failed = y.failed
  BY <1>2 DEF Loopings
<1> HIDE DEF x
<1>5. work' \in [Runs -> Stages] /\ work'[r] = x /\ Others(r)
  BY <1>1, <1>3, OneMoves DEF Stages
<1> QED
  BY <1>1, <1>3, <1>4, <1>5 DEF Loops, Keeps

\* The end of the loop begins the retirement.
LEMMA EndLoopWay ==
  ASSUME WorkTypes, NEW r \in Runs, EndLoop(r)
  PROVE  LET w == work'[r]
         IN /\ Loops(r) /\ work[r].todo = {}
            /\ work' \in [Runs -> Stages] /\ Others(r) /\ w.pc = "retiring"
            /\ w.since = work[r].since /\ w.at = work[r].at /\ w.failed = work[r].failed
            /\ w.seen = DOMAIN work[r].seen
            /\ w.gone = IF MayRetire(r) /\ ~Shrunk(r) THEN Gone(r) ELSE {}
            /\ w.kept = IF MayRetire(r) /\ Shrunk(r) THEN work[r].prev ELSE {}
<1> DEFINE y == work[r]
           g == IF MayRetire(r) /\ ~Shrunk(r) THEN Gone(r) ELSE {}
           k == IF MayRetire(r) /\ Shrunk(r) THEN y.prev ELSE {}
           x == [pc |-> "retiring", since |-> y.since, at |-> y.at, seen |-> DOMAIN y.seen,
                 failed |-> y.failed, gone |-> g, kept |-> k]
<1>1. Loops(r) /\ y.todo = {} /\ work' = [work EXCEPT ![r] = x]
  BY DEF EndLoop, Loops
<1>2. /\ y.since \in Nat /\ y.at \in Nat /\ y.prev \subseteq Docs /\ y.failed \in BOOLEAN
      /\ y.seen \in Snapshots
  BY <1>1, Fields DEF Loopings
<1>3. DOMAIN y.seen \subseteq Docs
  BY <1>2 DEF Snapshots
<1>4. g \subseteq Docs /\ k \subseteq Docs
  BY <1>2 DEF Gone
<1> HIDE DEF g, k
<1>5. x \in Retirings
  BY <1>2, <1>3, <1>4 DEF Retirings
<1>6. /\ x.pc = "retiring" /\ x.since = y.since /\ x.at = y.at /\ x.failed = y.failed
      /\ x.seen = DOMAIN y.seen /\ x.gone = g /\ x.kept = k
  OBVIOUS
<1> HIDE DEF x
<1>7. work' \in [Runs -> Stages] /\ work'[r] = x /\ Others(r)
  BY <1>1, <1>5, OneMoves DEF Stages
<1> QED
  BY <1>1, <1>6, <1>7 DEF g, k

\* A document is retired, or the retirement ends with a failure.
LEMMA RetireWays ==
  ASSUME WorkTypes, NEW r \in Runs, NEW d \in Docs, Retire(r, d) \/ RetireFails(r, d)
  PROVE  LET w == work'[r]
         IN /\ Retires(r) /\ d \in work[r].gone
            /\ work' \in [Runs -> Stages] /\ Others(r) /\ w.pc = "retiring"
            /\ w.since = work[r].since /\ w.at = work[r].at /\ w.seen = work[r].seen
            /\ w.kept = work[r].kept
            /\ \/ Retire(r, d) /\ w.gone = work[r].gone \ {d} /\ w.failed = work[r].failed
               \/ w.gone = {} /\ w.failed
<1> DEFINE y == work[r]
<1>0. Retires(r) /\ d \in y.gone
  BY DEF Retire, RetireFails, Retires
<1>1. y \in Retirings
  BY <1>0, Fields
<1>2. CASE Retire(r, d)
  <2> DEFINE x == [y EXCEPT !.gone = y.gone \ {d}]
  <2>1. work' = [work EXCEPT ![r] = x]
    BY <1>2 DEF Retire
  <2>2. x \in Retirings /\ x.pc = "retiring"
    BY <1>1 DEF Retirings
  <2>3. /\ x.since = y.since /\ x.at = y.at /\ x.seen = y.seen /\ x.kept = y.kept
        /\ x.gone = y.gone \ {d} /\ x.failed = y.failed
    BY <1>1 DEF Retirings
  <2> HIDE DEF x
  <2>4. work' \in [Runs -> Stages] /\ work'[r] = x /\ Others(r)
    BY <2>1, <2>2, OneMoves DEF Stages
  <2> QED
    BY <1>0, <1>2, <2>2, <2>3, <2>4
<1>3. CASE RetireFails(r, d)
  <2> DEFINE x == [y EXCEPT !.gone = {}, !.failed = TRUE]
  <2>1. work' = [work EXCEPT ![r].gone = {}, ![r].failed = TRUE]
    BY <1>3 DEF RetireFails
  <2>2. work' = [work EXCEPT ![r] = x]
    BY <1>1, <2>1 DEF WorkTypes
  <2>3. x \in Retirings /\ x.pc = "retiring"
    BY <1>1 DEF Retirings
  <2>4. /\ x.since = y.since /\ x.at = y.at /\ x.seen = y.seen /\ x.kept = y.kept
        /\ x.gone = {} /\ x.failed
    BY <1>1 DEF Retirings
  <2> HIDE DEF x
  <2>5. work' \in [Runs -> Stages] /\ work'[r] = x /\ Others(r)
    BY <2>2, <2>3, OneMoves DEF Stages
  <2> QED
    BY <1>0, <2>3, <2>4, <2>5
<1> QED
  BY <1>2, <1>3

-----------------------------------------------------------------------------
(* Three kinds of steps: the sources move, the engine moves, or a run works on its documents. *)

\* What the engine guarantees of every state (ConnectorSync_proofs).
Engaged == TypeOK /\ LedgerInv /\ EngineLimits

SourceMoves ==
  /\ UNCHANGED <<vars, adapter, stored, cursors, work, excuse>>
  /\ clock' = clock + 1 /\ clock <= MaxChanges
  /\ listed' \subseteq Docs /\ edited' \in [Docs -> 1..clock']
  /\ \A d \in Docs : edited'[d] \in {edited[d], clock + 1}

EngineMoves ==
  /\ UNCHANGED <<source, stored, cursor, excuse>>
  /\ work' \in [Runs -> Stages]
  /\ \A r \in Runs : /\ work'[r] \in {work[r], Resting}
                     /\ work'[r] # Resting => task'[r] = "working"
                     /\ status'[r] = "completed" <=> status[r] = "completed"
                     /\ status[r] = "completed" => began'[r] = began[r]

\* A change to a source ticks the clock, and edits at most at the new time.
LEMMA SourcesMove ==
  ASSUME WorkTypes, WorkOK, NEW d \in Docs, Edit(d) \/ Unlist(d) \/ Relist(d)
  PROVE  SourceMoves
<1>1. clock \in Nat /\ listed \subseteq Docs /\ edited \in [Docs -> 1..clock]
  BY DEF WorkOK
<1>2. clock' = clock + 1 /\ clock <= MaxChanges
      /\ UNCHANGED <<vars, adapter, stored, cursors, work, excuse>>
  BY DEF Edit, Unlist, Relist, Change
<1>3. listed' \subseteq Docs
  BY <1>1 DEF Edit, Unlist, Relist
<1>4. edited' = edited \/ \E t \in {edited[d], clock + 1} : edited' = [edited EXCEPT ![d] = t]
  BY DEF Edit, Unlist, Relist
<1>5. /\ edited' \in [Docs -> 1..(clock + 1)]
      /\ \A e \in Docs : edited'[e] \in {edited[e], clock + 1}
  BY <1>1, <1>4
<1> QED
  BY <1>2, <1>3, <1>5 DEF SourceMoves

\* A run whose task works is open, and no other of its connector has work.
LEMMA WorksAlone ==
  ASSUME Engaged, WorkOK, NEW r \in Runs, task[r] = "working"
  PROVE  /\ status[r] = "running"
         /\ \A q \in Runs \ {r} : work[q] # Resting => ConnectorOf[q] # ConnectorOf[r]
<1>1. \A q \in Runs : work[q] # Resting => task[q] = "working"
  BY DEF WorkOK
<1>2. status[r] = "running"
  BY DEF Engaged, LedgerInv, RowInv, MayWrite
<1>3. \A q \in Siblings(r) : ~(task[r] \in HoldsLock /\ task[q] \in HoldsLock)
  BY DEF Engaged, EngineLimits
<1> QED
  BY <1>1, <1>2, <1>3 DEF Siblings, RunsOf, HoldsLock, HoldsSlot

\* Runs that open, wait, break or are set aside touch no document and complete nothing.
LEMMA EngineMovesOn ==
  ASSUME Engaged, WorkTypes, WorkOK,
         \/ \E k \in Callers, c \in Connectors : Open(k, c)
         \/ \E k \in Callers : InsertRun(k) /\ UNCHANGED documents
         \/ \E r \in Runs : (Waits(r) /\ UNCHANGED documents) \/ Breaks(r)
         \/ RestartAll \/ UNCHANGED all
  PROVE  EngineMoves
<1> USE DEF documents, source, cursors
<1>w. work \in [Runs -> Stages] /\ \A r \in Runs : work[r] # Resting => task[r] = "working"
  BY DEF WorkTypes, WorkOK
<1>t. task \in [Runs -> TaskStates] /\ status \in [Runs -> Statuses]
  BY DEF Engaged, TypeOK
<1>1. ASSUME NEW k \in Callers, NEW c \in Connectors, Open(k, c) PROVE EngineMoves
  <2>1. PICK r \in Fresh(c) : opening' = [opening EXCEPT ![k] = {r}]
    BY <1>1 DEF Open, CheckActive
  <2>2. opening'[k] = {r} /\ r \in Runs /\ status[r] = "unused"
    BY <2>1 DEF Fresh, RunsOf, Engaged, TypeOK
  <2>3. UNCHANGED <<status, task, source, stored, cursor, work, excuse>>
    BY <1>1 DEF Open, CheckActive
  <2>4. \A q \in Runs : status[q] = "completed" => began'[q] = began[q]
    BY <1>1, <2>2 DEF Open
  <2> QED
    BY <1>w, <2>3, <2>4 DEF EngineMoves
<1>2. ASSUME NEW k \in Callers, InsertRun(k), UNCHANGED documents PROVE EngineMoves
  <2>1. PICK r \in opening[k] : /\ status' = [status EXCEPT ![r] = "running"]
                                /\ task' = [task EXCEPT ![r] = "queued"]
    BY <1>2 DEF InsertRun
  <2>2. r \in Runs /\ status[r] = "unused" /\ task[r] = "none"
    BY <2>1 DEF Engaged, LedgerInv, OpeningInv, RowInv, TypeOK
  <2> QED
    BY <1>2, <1>w, <1>t, <2>1, <2>2 DEF EngineMoves
<1>3. ASSUME NEW r \in Runs, Waits(r), UNCHANGED documents PROVE EngineMoves
  <2>1. UNCHANGED status /\ task[r] # "working" /\ \A q \in Runs \ {r} : task'[q] = task[q]
    BY <1>3, <1>t DEF Waits, StartTask, AcquireSlot, SendReport, ReportReturns
  <2> QED
    BY <1>3, <1>w, <2>1 DEF EngineMoves
<1>4. ASSUME NEW r \in Runs, Breaks(r) PROVE EngineMoves
  <2>1. UNCHANGED status /\ \A q \in Runs \ {r} : task'[q] = task[q]
    BY <1>4, <1>t DEF Breaks, TaskBreaks
  <2>2. /\ work' \in [Runs -> Stages]
        /\ \A q \in Runs : work'[q] = IF q = r THEN Resting ELSE work[q]
    BY <1>4, RestWay DEF Breaks
  <2>3. UNCHANGED <<source, stored, cursors, excuse>>
    BY <1>4 DEF Breaks
  <2> QED
    BY <1>w, <2>1, <2>2, <2>3 DEF EngineMoves
<1>5. CASE RestartAll
  <2>1. \A q \in Runs : status'[q] = "completed" <=> status[q] = "completed"
    BY <1>5, <1>t DEF RestartAll, Restart
  <2>2. work' \in [Runs -> Stages] /\ \A q \in Runs : work'[q] = Resting
    BY <1>5, RestWay DEF RestartAll
  <2>3. UNCHANGED <<source, stored, cursors, excuse>>
    BY <1>5 DEF RestartAll
  <2> QED
    BY <2>1, <2>2, <2>3 DEF EngineMoves
<1>6. CASE UNCHANGED all
  BY <1>6, <1>w DEF all, EngineMoves
<1> QED
  BY <1>1, <1>2, <1>3, <1>4, <1>5, <1>6

-----------------------------------------------------------------------------
(* The order in which runs were opened *)

\* The latest opening is the time of one, and of none later.
LEMMA LatestIs ==
  ASSUME WorkTypes, BeganInv, Runs # {}
  PROVE  Latest \in Nat /\ \A r \in Runs : began[r] <= Latest
<1>1. \E r \in Runs : \A q \in Runs : began[q] <= began[r]
  BY LastExists
<1>2. \E n \in {began[r] : r \in Runs} : \A r \in Runs : began[r] <= n
  BY <1>1
<1> QED
  BY <1>2 DEF Latest, WorkTypes

\* A run that is opened comes after all others; and a row is inserted by who opened it.
LEMMA BeganStays ==
  ASSUME Engaged, WorkTypes, BeganInv, [InlineNext]_all
  PROVE  began' \in [Runs -> Nat] /\ BeganInv'
<1>t. began \in [Runs -> Nat] /\ MaxOpened \in Nat
  BY ChangesAssumption DEF WorkTypes
<1>o. opening \in [Callers -> SUBSET Runs] /\ status \in [Runs -> Statuses]
      /\ task \in [Runs -> TaskStates]
  BY DEF Engaged, TypeOK
<1>1. ASSUME NEW k \in Callers, NEW c \in Connectors, Open(k, c)
      PROVE  began' \in [Runs -> Nat] /\ BeganInv'
  <2>1. PICK r \in Fresh(c) : opening' = [opening EXCEPT ![k] = {r}]
    BY <1>1 DEF Open, CheckActive
  <2>2. opening'[k] = {r} /\ r \in Runs /\ status[r] = "unused"
    BY <2>1, <1>o DEF Fresh, RunsOf
  <2>3. UNCHANGED status
    BY <1>1 DEF Open, CheckActive
  <2>4. Latest \in Nat /\ Latest < MaxOpened /\ \A q \in Runs : began[q] <= Latest
    BY <2>2, LatestIs, <1>1 DEF Open
  <2>5. began' = [q \in Runs |-> IF q = r THEN Latest + 1 ELSE began[q]]
    BY <1>1, <2>2 DEF Open
  <2>6. began' \in [Runs -> Nat] /\ \A q \in Runs : began'[q] <= MaxOpened
    BY <2>4, <2>5, <1>t
  <2>7. \A p, q \in Runs : began'[p] = began'[q] /\ began'[p] # 0 => p = q
    BY <2>4, <2>5, <1>t DEF BeganInv
  <2>8. \A q \in Runs : began[q] # 0 => began'[q] # 0
    BY <2>4, <2>5
  <2>9. began'[r] # 0
    BY <2>2, <2>4, <2>5
  <2>10. \A l \in Callers : \A q \in opening'[l] : q = r \/ q \in opening[l]
    BY <2>1, <1>o
  <2>11. \A l \in Callers : opening[l] \subseteq Runs
    BY <1>o
  <2> HIDE DEF Latest
  <2> QED
    BY <2>2, <2>3, <2>6, <2>7, <2>8, <2>9, <2>10, <2>11 DEF BeganInv
<1>2. ASSUME UNCHANGED began, \A k \in Callers : opening'[k] \subseteq opening[k],
             \A r \in Runs : \/ status'[r] = "unused" \/ status[r] # "unused"
                             \/ \E k \in Callers : r \in opening[k]
      PROVE  began' \in [Runs -> Nat] /\ BeganInv'
  BY <1>2, <1>t DEF BeganInv
<1>3. ASSUME NEW k \in Callers, InsertRun(k), UNCHANGED documents
      PROVE  began' \in [Runs -> Nat] /\ BeganInv'
  <2>1. PICK r \in opening[k] : /\ status' = [status EXCEPT ![r] = "running"]
                                /\ opening' = [opening EXCEPT ![k] = {}]
    BY <1>3 DEF InsertRun
  <2>2. UNCHANGED began /\ \A l \in Callers : opening'[l] \subseteq opening[l]
    BY <1>3, <1>o, <2>1 DEF documents, cursors
  <2>3. \A q \in Runs : q = r \/ status'[q] = status[q]
    BY <1>o, <2>1
  <2> QED
    BY <1>2, <2>1, <2>2, <2>3
<1>4. ASSUME UNCHANGED <<began, opening>>,
             \/ UNCHANGED status
             \/ \E r \in Runs : EndRun(r)
      PROVE  began' \in [Runs -> Nat] /\ BeganInv'
  <2>1. ASSUME NEW r \in Runs, EndRun(r)
        PROVE  status[r] # "unused" /\ \A q \in Runs \ {r} : status'[q] = status[q]
    <3>1. task[r] = "working"
      BY <2>1 DEF EndRun
    <3>2. status[r] = "running"
      BY <3>1 DEF Engaged, LedgerInv, RowInv, MayWrite
    <3>3. \A q \in Runs \ {r} : status'[q] = status[q]
      BY <2>1, <1>o DEF EndRun, CloseRow
    <3> QED
      BY <3>2, <3>3
  <2>2. \A q \in Runs : status'[q] = "unused" \/ status[q] # "unused"
    BY <1>4, <2>1
  <2> QED
    BY <1>2, <1>4, <2>2
<1>5. ASSUME NEW r \in Runs, Waits(r), UNCHANGED documents
      PROVE  UNCHANGED <<began, opening, status>>
  BY <1>5 DEF Waits, StartTask, AcquireSlot, SendReport, ReportReturns, documents, cursors
<1>6. ASSUME NEW r \in Runs, Breaks(r) PROVE UNCHANGED <<began, opening, status>>
  BY <1>6 DEF Breaks, TaskBreaks, cursors
<1>7. ASSUME NEW r \in Runs, Documents(r)
      PROVE  UNCHANGED <<began, opening>> /\ (UNCHANGED status \/ EndRun(r))
  <2>1. CASE EndUnchanged(r) \/ Finish(r) \/ FailRun(r)
    <3>1. EndRun(r) /\ UNCHANGED began
      BY <2>1 DEF EndUnchanged, Finish, FailRun
    <3> QED
      BY <3>1 DEF EndRun
  <2>2. CASE ReadCursors(r) \/ List(r) \/ Checkpoint(r) \/ EndLoop(r)
    BY <2>2 DEF ReadCursors, List, Checkpoint, EndLoop, cursors
  <2>3. ASSUME NEW d \in Docs, IngestDoc(r, d) \/ SkipShort(r, d) \/ FailDoc(r, d)
        PROVE  UNCHANGED <<began, opening, status>>
    BY <2>3 DEF IngestDoc, SkipShort, FailDoc, cursors
  <2>4. ASSUME NEW d \in Docs, Retire(r, d) \/ RetireFails(r, d)
        PROVE  UNCHANGED <<began, opening, status>>
    BY <2>4 DEF Retire, RetireFails, cursors
  <2>5. QED
    BY <1>7, <2>1, <2>2, <2>3, <2>4 DEF Documents
<1>8. CASE RestartAll
  <2>1. /\ UNCHANGED began /\ \A k \in Callers : opening'[k] = {}
        /\ \A r \in Runs : status'[r] = IF status[r] = "running" /\ r \notin handed
                                        THEN "pending" ELSE status[r]
    BY <1>8 DEF RestartAll, Restart, cursors
  <2> QED
    BY <1>2, <2>1
<1>9. ASSUME NEW d \in Docs, Edit(d) \/ Unlist(d) \/ Relist(d)
      PROVE  UNCHANGED <<began, opening, status>>
  BY <1>9 DEF Edit, Unlist, Relist, cursors
<1>10. CASE UNCHANGED all
  BY <1>4, <1>10 DEF all, documents, cursors
<1> QED
  BY <1>1, <1>3, <1>4, <1>5, <1>6, <1>7, <1>8, <1>9, <1>10 DEF InlineNext

-----------------------------------------------------------------------------
(* Types *)

\* What a run stores is the document as it is, or as it was when it was listed, and then it
\* was not edited before the run began.
LEMMA FetchedIs ==
  ASSUME WorkOK, WorkInv, WorkTypes, NEW r \in Runs, Loops(r), NEW d \in work[r].todo
  PROVE  /\ d \in Docs /\ SourceOf[d] = ConnectorOf[r] /\ d \in DOMAIN work[r].seen
         /\ Fetched(r, d) \in 1..clock
         /\ AdapterOf(r) = "stamped" => Fetched(r, d) = edited[d]
         /\ Fetched(r, d) = edited[d] \/ edited[d] > work[r].since
<1>1. work[r] # Resting
  BY Fields DEF Loops
<1>2. RunsWorkInv(r)
  BY <1>1 DEF WorkInv
<1>3. /\ work[r].todo \subseteq DOMAIN work[r].seen
      /\ DOMAIN work[r].seen \subseteq Of(ConnectorOf[r])
      /\ \A e \in DOMAIN work[r].seen :
           /\ work[r].seen[e] \in 1..clock
           /\ work[r].seen[e] = edited[e] \/ edited[e] > work[r].since
  BY <1>2 DEF RunsWorkInv
<1>4. d \in DOMAIN work[r].seen /\ d \in Docs /\ SourceOf[d] = ConnectorOf[r]
  BY <1>3 DEF Of
<1>5. edited[d] \in 1..clock
  BY <1>4 DEF WorkOK
<1> QED
  BY <1>3, <1>4, <1>5 DEF Fetched

\* Work on documents stores times there have been, and cursors of documents there are.
LEMMA DocumentsTyped ==
  ASSUME Engaged, InlineInv, NEW r \in Runs, Documents(r)
  PROVE  /\ UNCHANGED source /\ UNCHANGED began
         /\ stored' \in [Docs -> 0..clock] /\ cursor' \in [Runs -> Cursors]
         /\ excuse' \in [Docs -> SUBSET Excuses] /\ work' \in [Runs -> Stages]
         /\ \A q \in Runs : work'[q] # Resting => task'[q] = "working"
<1> USE DEF cursors
<1>i. WorkOK /\ WorkTypes /\ BeganInv /\ WorkInv
  BY DEF InlineInv
<1>c. /\ clock \in Nat /\ stored \in [Docs -> 0..clock] /\ cursor \in [Runs -> Cursors]
      /\ excuse \in [Docs -> SUBSET Excuses]
      /\ \A q \in Runs : work[q] # Resting => task[q] = "working"
  BY <1>i DEF WorkOK
<1>t. task \in [Runs -> TaskStates]
  BY DEF Engaged, TypeOK
<1>u. \A d \in Docs : Unrecorded(d) \subseteq {"unrecorded"}
  BY DEF Unrecorded
<1>e. \A D, why : why \in Excuses => Excused(D, why) \in [Docs -> SUBSET Excuses]
  BY <1>c DEF Excused
<1>f. ASSUME NEW d \in Docs, NEW t \in 0..clock, Store(d, t)
      PROVE  stored' \in [Docs -> 0..clock]
  BY <1>c, <1>f DEF Store
<1>1. CASE EndUnchanged(r) \/ Finish(r) \/ FailRun(r)
  <2>1. EndRun(r) /\ Rest({r}) /\ UNCHANGED <<source, stored, began>>
    BY <1>1 DEF EndUnchanged, Finish, FailRun
  <2>2. /\ work' \in [Runs -> Stages]
        /\ \A q \in Runs : work'[q] = IF q = r THEN Resting ELSE work[q]
    BY <2>1, <1>i, RestWay
  <2>3. \A q \in Runs \ {r} : task'[q] = task[q]
    BY <2>1, <1>t DEF EndRun
  <2>4. ASSUME NEW a \in Nat, NEW S \in SUBSET Docs
        PROVE  [NoCursor EXCEPT !.at = a, !.synced = S] \in Cursors
               /\ [NoCursor EXCEPT !.at = a] \in Cursors /\ NoCursor \in Cursors
    BY DEF NoCursor, Cursors
  <2>5. cursor' \in [Runs -> Cursors]
    <3>1. CASE EndUnchanged(r)
      <4>1. work[r].at \in Nat
        BY <1>i, <3>1, Fields DEF EndUnchanged, Lists, Listings
      <4> QED
        BY <1>c, <3>1, <4>1, <2>4 DEF EndUnchanged
    <3>2. CASE Finish(r)
      <4>1. work[r].at \in Nat /\ Named(r) \subseteq Docs
        BY <1>i, <3>2, Fields DEF Finish, Retires, Retirings, Named
      <4> DEFINE x == IF work[r].failed THEN NoCursor
                      ELSE [NoCursor EXCEPT !.at = work[r].at, !.synced = Named(r)]
      <4>2. x \in Cursors
        BY <4>1, <2>4
      <4>3. cursor' = [cursor EXCEPT ![r] = x]
        BY <3>2 DEF Finish
      <4> HIDE DEF x
      <4> QED
        BY <1>c, <4>2, <4>3
    <3>3. CASE FailRun(r)
      BY <1>c, <3>3, <2>4 DEF FailRun
    <3> QED
      BY <1>1, <3>1, <3>2, <3>3
  <2>6. excuse' \in [Docs -> SUBSET Excuses]
    <3>1. CASE Finish(r)
      <4> DEFINE keep == [d \in Docs |-> IF d \in Named(r) THEN excuse[d] \ {"unrecorded"}
                                         ELSE excuse[d]]
      <4>1. excuse' = excuse \/ excuse' = keep
        BY <3>1 DEF Finish
      <4>2. keep \in [Docs -> SUBSET Excuses]
        BY <1>c
      <4> QED
        BY <1>c, <4>1, <4>2
    <3>2. CASE EndUnchanged(r) \/ FailRun(r)
      BY <1>c, <3>2 DEF EndUnchanged, FailRun
    <3> QED
      BY <1>1, <3>1, <3>2
  <2> QED
    BY <1>c, <2>1, <2>2, <2>3, <2>5, <2>6
<1>2. ASSUME UNCHANGED vars, work' \in [Runs -> Stages], Others(r), task[r] = "working"
      PROVE  \A q \in Runs : work'[q] # Resting => task'[q] = "working"
  BY <1>2, <1>c DEF Others
<1>w. work[r].pc # "resting" => task[r] = "working"
  BY <1>c, <1>i, Fields
<1>3. CASE ReadCursors(r)
  <2>1. task[r] = "working" /\ UNCHANGED <<vars, source, stored, cursors, excuse>>
    BY <1>3 DEF ReadCursors
  <2>2. work' \in [Runs -> Stages] /\ Others(r)
    BY <1>i, <1>3, ReadWay
  <2> QED
    BY <1>2, <1>c, <2>1, <2>2
<1>4. CASE List(r)
  <2>1. work[r].pc = "listing" /\ UNCHANGED <<vars, source, stored, cursors>>
    BY <1>4 DEF List
  <2>2. work' \in [Runs -> Stages] /\ Others(r)
    BY <1>i, <1>4, ListWay
  <2>3. excuse' \in [Docs -> SUBSET Excuses]
    BY <1>4, <1>e DEF List, Excuses
  <2> QED
    BY <1>2, <1>c, <1>w, <2>1, <2>2, <2>3
<1>5. CASE Checkpoint(r)
  <2>1. /\ work[r].pc = "saving" /\ UNCHANGED <<vars, source, stored, began, excuse>>
        /\ cursor' = [cursor EXCEPT ![r] = [NoCursor EXCEPT !.ingested = work[r].resume]]
    BY <1>5 DEF Checkpoint
  <2>2. work' \in [Runs -> Stages] /\ Others(r)
    BY <1>i, <1>5, CheckpointWay
  <2>3. work[r].resume \subseteq Docs
    BY <1>i, <2>1, Fields DEF Loops, Loopings
  <2>4. [NoCursor EXCEPT !.ingested = work[r].resume] \in Cursors
    BY <2>3 DEF NoCursor, Cursors
  <2> QED
    BY <1>2, <1>c, <1>w, <2>1, <2>2, <2>4
<1>6. CASE EndLoop(r)
  <2>1. work[r].pc = "ingesting" /\ UNCHANGED <<vars, source, stored, cursors, excuse>>
    BY <1>6 DEF EndLoop
  <2>2. work' \in [Runs -> Stages] /\ Others(r)
    BY <1>i, <1>6, EndLoopWay
  <2> QED
    BY <1>2, <1>c, <1>w, <2>1, <2>2
<1>7. ASSUME NEW d \in Docs, Retire(r, d) \/ RetireFails(r, d)
      PROVE  /\ UNCHANGED <<vars, source, cursors, excuse>> /\ work[r].pc = "retiring"
             /\ stored' \in [Docs -> 0..clock] /\ work' \in [Runs -> Stages] /\ Others(r)
  <2>1. /\ UNCHANGED <<vars, source, cursors, excuse>> /\ work[r].pc = "retiring"
        /\ UNCHANGED stored \/ Store(d, 0)
    BY <1>7 DEF Retire, RetireFails
  <2>2. work' \in [Runs -> Stages] /\ Others(r)
    BY <1>i, <1>7, RetireWays
  <2> QED
    BY <1>c, <1>f, <2>1, <2>2
<1>8. ASSUME NEW d \in Docs, IngestDoc(r, d) \/ SkipShort(r, d) \/ FailDoc(r, d)
      PROVE  /\ UNCHANGED <<vars, source, cursors>> /\ work[r].pc = "ingesting"
             /\ stored' \in [Docs -> 0..clock] /\ work' \in [Runs -> Stages] /\ Others(r)
             /\ excuse' \in [Docs -> SUBSET Excuses]
  <2>1. UNCHANGED <<vars, source, cursors>> /\ work[r].pc = "ingesting"
    BY <1>8 DEF IngestDoc, SkipShort, FailDoc
  <2>2. Loops(r) /\ d \in work[r].todo /\ work' \in [Runs -> Stages] /\ Others(r)
    BY <1>i, <1>8, LoopWays
  <2>3. Fetched(r, d) \in 0..clock
    BY <1>i, <1>c, <2>2, FetchedIs
  <2>4. UNCHANGED stored \/ Store(d, Fetched(r, d))
    BY <1>8 DEF IngestDoc, SkipShort, FailDoc
  <2>5. stored' \in [Docs -> 0..clock]
    BY <1>c, <1>f, <2>3, <2>4
  <2>6. excuse' \in [Docs -> SUBSET Excuses]
    <3>1. CASE IngestDoc(r, d)
      BY <3>1, <1>c, <1>u DEF IngestDoc, Excuses
    <3>2. CASE SkipShort(r, d)
      BY <3>2, <1>e DEF SkipShort, Excuses
    <3>3. CASE FailDoc(r, d)
      BY <3>3, <1>c, <1>u DEF FailDoc, Excuses
    <3> QED
      BY <1>8, <3>1, <3>2, <3>3
  <2> QED
    BY <2>1, <2>2, <2>5, <2>6
<1> QED
  BY <1>1, <1>2, <1>c, <1>w, <1>3, <1>4, <1>5, <1>6, <1>7, <1>8 DEF Documents

\* There is no fourth kind of step.
LEMMA EveryStep ==
  ASSUME Engaged, InlineInv, [InlineNext]_all
  PROVE  SourceMoves \/ EngineMoves \/ \E r \in Runs : Documents(r)
<1>1. WorkOK /\ WorkTypes
  BY DEF InlineInv
<1>2. (\E d \in Docs : Edit(d) \/ Unlist(d) \/ Relist(d)) => SourceMoves
  BY <1>1, SourcesMove
<1>3. \/ \E k \in Callers, c \in Connectors : Open(k, c)
      \/ \E k \in Callers : InsertRun(k) /\ UNCHANGED documents
      \/ \E r \in Runs : (Waits(r) /\ UNCHANGED documents) \/ Breaks(r)
      \/ RestartAll \/ UNCHANGED all
      => EngineMoves
  BY <1>1, EngineMovesOn
<1> QED
  BY <1>2, <1>3 DEF InlineNext

\* Every step keeps the types.
LEMMA TypesStay ==
  ASSUME Engaged, InlineInv, [InlineNext]_all
  PROVE  WorkOK' /\ WorkTypes' /\ BeganInv'
<1>i. WorkOK /\ WorkTypes /\ BeganInv
  BY DEF InlineInv
<1>b. began' \in [Runs -> Nat] /\ BeganInv'
  BY <1>i, BeganStays
<1>c. /\ clock \in Nat /\ clock \in 1..(MaxChanges + 1) /\ MaxChanges \in Nat
      /\ stored \in [Docs -> 0..clock]
  BY <1>i, ChangesAssumption DEF WorkOK, WorkTypes
<1>1. CASE SourceMoves
  <2>1. UNCHANGED <<task, adapter, stored, cursor, work, excuse>>
    BY <1>1 DEF SourceMoves, cursors
  <2>2. /\ clock' \in Nat /\ clock' \in 1..(MaxChanges + 1) /\ listed' \subseteq Docs
        /\ edited' \in [Docs -> 1..clock']
    BY <1>1, <1>c DEF SourceMoves
  <2>3. stored \in [Docs -> 0..clock']
    <3>1. clock' = clock + 1
      BY <1>1 DEF SourceMoves
    <3> QED
      BY <1>c, <3>1
  <2> QED
    BY <1>b, <1>i, <2>1, <2>2, <2>3 DEF WorkOK, WorkTypes
<1>2. CASE EngineMoves
  <2>1. UNCHANGED <<adapter, clock, listed, edited, stored, cursor, excuse>>
    BY <1>2 DEF EngineMoves, source
  <2>2. work' \in [Runs -> Stages] /\ \A r \in Runs : work'[r] # Resting => task'[r] = "working"
    BY <1>2 DEF EngineMoves
  <2>3. Resting' = Resting /\ Stages' = Stages
    BY DEF Resting, Stages, Listings, Loopings, Retirings, Snapshots
  <2> QED
    BY <1>b, <1>i, <2>1, <2>2, <2>3 DEF WorkOK, WorkTypes
<1>3. ASSUME NEW r \in Runs, Documents(r) PROVE WorkOK' /\ WorkTypes'
  <2>1. /\ UNCHANGED <<adapter, clock, listed, edited>>
        /\ stored' \in [Docs -> 0..clock] /\ cursor' \in [Runs -> Cursors]
        /\ excuse' \in [Docs -> SUBSET Excuses] /\ work' \in [Runs -> Stages]
        /\ \A q \in Runs : work'[q] # Resting => task'[q] = "working"
    BY <1>3, DocumentsTyped DEF source
  <2> QED
    BY <1>b, <1>i, <2>1 DEF WorkOK, WorkTypes
<1> QED
  BY <1>1, <1>2, <1>3, <1>b, EveryStep

-----------------------------------------------------------------------------
(* What steps leave alone *)

\* Backed, of a cursor that was read before the step.
BackedThen(c, at, D) ==
  /\ at <= clock' /\ D \subseteq Of(c)
  /\ adapter'[c] = "stamped" =>
       \A d \in D : edited'[d] <= at /\ excuse'[d] \subseteq {"unrecorded"} =>
         stored'[d] = edited'[d]
  /\ adapter'[c] = "tree" /\ at = clock' =>
       \A d \in listed' : SourceOf[d] = c /\ excuse'[d] \subseteq {"unrecorded"} =>
         stored'[d] = edited'[d]

\* A change to a source is later than every cursor.
LEMMA SourceKeepsBacked ==
  ASSUME WorkOK, SourceMoves, NEW c, NEW at \in Nat, NEW D, Backed(c, at, D)
  PROVE  BackedThen(c, at, D)
<1>1. /\ clock \in Nat /\ clock' = clock + 1 /\ at <= clock /\ D \subseteq Of(c)
      /\ UNCHANGED <<adapter, stored, excuse>>
  BY DEF Backed, SourceMoves, WorkOK
<1>2. at <= clock' /\ at # clock'
  BY <1>1
<1>3. \A d \in D : edited'[d] \in {edited[d], clock + 1}
  BY <1>1 DEF SourceMoves, Of
<1>4. ASSUME NEW d \in D, edited'[d] <= at PROVE edited'[d] = edited[d]
  BY <1>1, <1>3, <1>4
<1>5. adapter[c] = "stamped" =>
        \A d \in D : edited[d] <= at /\ excuse[d] \subseteq {"unrecorded"} =>
          stored[d] = edited[d]
  BY DEF Backed, Plain
<1> QED
  BY <1>1, <1>2, <1>4, <1>5 DEF BackedThen

\* What a run at work stores is no worse than what was there.
StoresWell(r) ==
  \A d \in Of(ConnectorOf[r]) : excuse'[d] \subseteq {"unrecorded"} =>
    \/ Plain(d) /\ stored'[d] = stored[d]
    \/ stored'[d] = edited[d]
    \/ AdapterOf(r) = "tree" /\ edited[d] > work[r].since
    \/ AdapterOf(r) = "snapshot"

\* What is stored well leaves every cursor read before the run began as backed as it was.
LEMMA StoringKeepsBacked ==
  ASSUME WorkOK, NEW r \in Runs, StoresWell(r), UNCHANGED source,
         work[r].since \in Nat, work[r].since <= clock,
         NEW at \in Nat, at <= work[r].since, NEW D, Backed(ConnectorOf[r], at, D)
  PROVE  BackedThen(ConnectorOf[r], at, D)
<1> DEFINE c == ConnectorOf[r]
<1>1. /\ clock \in Nat /\ edited \in [Docs -> 1..clock] /\ at <= clock /\ D \subseteq Of(c)
      /\ UNCHANGED <<adapter, clock, listed, edited>>
  BY DEF Backed, WorkOK, source
<1>2. ASSUME adapter[c] = "stamped", NEW d \in D, edited[d] <= at,
             excuse'[d] \subseteq {"unrecorded"}
      PROVE  stored'[d] = edited[d]
  <2>1. Plain(d) => stored[d] = edited[d]
    BY <1>2 DEF Backed
  <2> QED
    BY <1>1, <1>2, <2>1 DEF StoresWell, AdapterOf
<1>3. ASSUME adapter[c] = "tree", at = clock, NEW d \in listed, SourceOf[d] = c,
             excuse'[d] \subseteq {"unrecorded"}
      PROVE  stored'[d] = edited[d]
  <2>1. d \in Of(c) /\ edited[d] \in 1..clock
    BY <1>1, <1>3 DEF WorkOK, Of
  <2>2. Plain(d) => stored[d] = edited[d]
    BY <1>3 DEF Backed, Listing
  <2>3. work[r].since = clock
    BY <1>1, <1>3
  <2>4. ~(edited[d] > work[r].since)
    BY <1>1, <2>1, <2>3
  <2> QED
    BY <1>3, <2>1, <2>2, <2>4 DEF StoresWell, AdapterOf
<1> QED
  BY <1>1, <1>2, <1>3 DEF BackedThen

\* What a run knows stays true where nothing happens to its connector.
LEMMA WorkUndisturbed ==
  ASSUME NEW q \in Runs, RunsWorkInv(q), UNCHANGED source, work'[q] = work[q],
         \A d \in Of(ConnectorOf[q]) : stored'[d] = stored[d] /\ excuse'[d] = excuse[d],
         Done(ConnectorOf[q])' = Done(ConnectorOf[q]),
         \A s \in RunsOf(ConnectorOf[q]) :
           status'[s] = "completed" => status[s] = "completed" /\ cursor'[s] = cursor[s],
         WorkOK
  PROVE  RunsWorkInv(q)'
<1> DEFINE c == ConnectorOf[q]
<1>1. UNCHANGED <<adapter, clock, listed, edited>>
  BY DEF source
<1>2. Listing(c)' = Listing(c) /\ Of(c)' = Of(c) /\ Listing(c) \subseteq Of(c)
  BY <1>1 DEF Listing, Of, WorkOK
<1>3. \A d \in Of(c) : Plain(d)' <=> Plain(d)
  BY DEF Plain
<1>4. (Lists(q)' <=> Lists(q)) /\ (Loops(q)' <=> Loops(q)) /\ (Retires(q)' <=> Retires(q))
  BY DEF Lists, Loops, Retires
<1>5. /\ work'[q].at <= work'[q].since /\ work'[q].since <= clock'
      /\ adapter'[c] = "tree" => work'[q].at = work'[q].since
  BY <1>1 DEF RunsWorkInv
<1>6. \A s \in RunsOf(c)' : status'[s] = "completed" => cursor'[s].at <= work'[q].since
  BY DEF RunsWorkInv, RunsOf
<1>7. Lists(q)' => Backed(c, work[q].prevAt, work[q].prev)'
  <2> SUFFICES ASSUME Lists(q) PROVE BackedThen(c, work'[q].prevAt, work'[q].prev)
    BY <1>4 DEF Backed, BackedThen, Plain, Listing, Of
  <2>1. Backed(c, work[q].prevAt, work[q].prev)
    BY DEF RunsWorkInv
  <2> QED
    BY <2>1, <1>1, <1>2, <1>3 DEF Backed, BackedThen, Plain, Listing
<1>8. Lists(q)' \/ Loops(q)' => work'[q].prev = Done(c)'.synced
  BY <1>4 DEF RunsWorkInv
<1>9. ASSUME NEW D, D \subseteq Of(c), Through(q, D)
      PROVE  \A d \in D : Plain(d)' => edited'[d] > work'[q].since \/ stored'[d] = edited'[d]
  BY <1>1, <1>3, <1>9 DEF Through
<1>10. ASSUME Loops(q)
       PROVE  /\ work'[q].todo \subseteq DOMAIN work'[q].seen
              /\ DOMAIN work'[q].seen \subseteq Of(c)
              /\ work'[q].since = clock' => DOMAIN work'[q].seen = Listing(c)'
              /\ \A d \in DOMAIN work'[q].seen :
                   /\ work'[q].seen[d] \in 1..clock'
                   /\ work'[q].seen[d] = edited'[d] \/ edited'[d] > work'[q].since
              /\ work'[q].failed \/ Through(q, DOMAIN work[q].seen \ work[q].todo)'
  <2>1. DOMAIN work[q].seen \ work[q].todo \subseteq Of(c)
    BY <1>10 DEF RunsWorkInv
  <2>2. work[q].failed \/ Through(q, DOMAIN work[q].seen \ work[q].todo)
    BY <1>10 DEF RunsWorkInv
  <2>3. work'[q].failed \/ Through(q, DOMAIN work[q].seen \ work[q].todo)'
    BY <1>9, <2>1, <2>2 DEF Through
  <2> QED
    BY <1>1, <1>2, <1>10, <2>3 DEF RunsWorkInv
<1>11. ASSUME Retires(q)
       PROVE  /\ work'[q].seen \union work'[q].gone \union work'[q].kept \subseteq Of(c)
              /\ work'[q].seen \intersect work'[q].gone = {}
              /\ work'[q].since = clock' => work'[q].seen = Listing(c)'
              /\ work'[q].failed \/ Through(q, work[q].seen)'
              /\ work'[q].gone # {} \/ work'[q].kept # {} => adapter'[c] = "snapshot"
              /\ adapter'[c] = "snapshot" /\ ~work'[q].failed =>
                   \A d \in Of(c) : stored'[d] # 0 /\ "unrecorded" \notin excuse'[d] =>
                     d \in work'[q].seen \union work'[q].gone \union work'[q].kept
  <2>1. work[q].seen \subseteq Of(c)
    BY <1>11 DEF RunsWorkInv
  <2>2. work[q].failed \/ Through(q, work[q].seen)
    BY <1>11 DEF RunsWorkInv
  <2>3. work'[q].failed \/ Through(q, work[q].seen)'
    BY <1>9, <2>1, <2>2 DEF Through
  <2> QED
    BY <1>1, <1>2, <1>11, <2>3 DEF RunsWorkInv
<1> QED
  BY <1>2, <1>4, <1>5, <1>6, <1>7, <1>8, <1>10, <1>11 DEF RunsWorkInv

\* The times a run goes by are times.
LEMMA Numbers ==
  ASSUME WorkTypes, NEW r \in Runs, work[r] # Resting
  PROVE  /\ work[r].since \in Nat /\ work[r].at \in Nat
         /\ Lists(r) => work[r].prevAt \in Nat
BY Fields DEF Listings, Loopings, Retirings

\* A change to a source comes after everything a run or a cursor claims.
LEMMA SourceKeepsWork ==
  ASSUME InlineInv, SourceMoves
  PROVE  CursorInv' /\ WorkInv' /\ StoredIsRecorded'
<1>i. WorkOK /\ WorkTypes /\ WorkInv /\ CursorInv /\ StoredIsRecorded
  BY DEF InlineInv
<1>1. /\ UNCHANGED <<status, began, cursor, adapter, stored, work, excuse>>
      /\ clock \in Nat /\ clock' = clock + 1
      /\ \A d \in Docs : edited'[d] \in {edited[d], clock + 1}
  BY <1>i DEF SourceMoves, cursors, WorkOK
<1>2. \A c : Done(c)' = Done(c)
  BY <1>1 DEF Done, CursorOfLast, RunsOf, NoCursor
<1>3. StoredIsRecorded'
  BY <1>i, <1>1, <1>2 DEF StoredIsRecorded
<1>4. CursorInv'
  <2> SUFFICES ASSUME NEW r \in Runs, status'[r] = "completed"
               PROVE  BackedThen(ConnectorOf[r], cursor'[r].at, cursor'[r].synced)
    BY DEF CursorInv, Backed, BackedThen, Plain, Listing, Of
  <2>1. Backed(ConnectorOf[r], cursor[r].at, cursor[r].synced) /\ cursor[r].at \in Nat
    BY <1>i, <1>1 DEF CursorInv, WorkOK, Cursors
  <2> QED
    BY <2>1, <1>i, <1>1, SourceKeepsBacked
<1>5. WorkInv'
  <2> SUFFICES ASSUME NEW r \in Runs, work[r] # Resting PROVE RunsWorkInv(r)'
    BY <1>1 DEF WorkInv, Resting
  <2> DEFINE c == ConnectorOf[r]
  <2>0. RunsWorkInv(r)
    BY <1>i DEF WorkInv
  <2>n. /\ work[r].since \in Nat /\ work[r].at \in Nat
        /\ Lists(r) => work[r].prevAt \in Nat
    BY <1>i, Numbers
  <2>1. work[r].at <= work[r].since /\ work[r].since <= clock
    BY <2>0 DEF RunsWorkInv
  <2>2. work[r].since <= clock' /\ work[r].since # clock'
    BY <1>1, <2>n, <2>1
  <2>3. (Lists(r)' <=> Lists(r)) /\ (Loops(r)' <=> Loops(r)) /\ (Retires(r)' <=> Retires(r))
    BY <1>1 DEF Lists, Loops, Retires
  <2>4. \A s \in RunsOf(c)' : status'[s] = "completed" => cursor'[s].at <= work'[r].since
    BY <1>1, <2>0 DEF RunsWorkInv, RunsOf
  <2>5. Lists(r)' => Backed(c, work[r].prevAt, work[r].prev)'
    <3> SUFFICES ASSUME Lists(r) PROVE BackedThen(c, work'[r].prevAt, work'[r].prev)
      BY <2>3 DEF Backed, BackedThen, Plain, Listing, Of
    <3>1. Backed(c, work[r].prevAt, work[r].prev) /\ work[r].prevAt \in Nat
      BY <2>0, <2>n DEF RunsWorkInv
    <3> QED
      BY <3>1, <1>i, <1>1, SourceKeepsBacked
  <2>6. ASSUME NEW d \in Docs
        PROVE  edited'[d] = edited[d] \/ edited'[d] > work[r].since
    <3>1. clock + 1 > work[r].since
      BY <1>1, <2>n, <2>1
    <3> QED
      BY <1>1, <3>1
  <2>7. ASSUME NEW D, D \subseteq Docs, Through(r, D)
        PROVE  \A d \in D : Plain(d)' => edited'[d] > work[r].since \/ stored'[d] = edited'[d]
    BY <1>1, <2>6, <2>7 DEF Through, Plain
  <2>8. ASSUME Loops(r)
        PROVE  /\ \A d \in DOMAIN work[r].seen :
                    /\ work[r].seen[d] \in 1..clock'
                    /\ work[r].seen[d] = edited'[d] \/ edited'[d] > work[r].since
               /\ work[r].failed \/ Through(r, DOMAIN work[r].seen \ work[r].todo)'
    <3>1. /\ DOMAIN work[r].seen \subseteq Docs
          /\ \A d \in DOMAIN work[r].seen :
               /\ work[r].seen[d] \in 1..clock
               /\ work[r].seen[d] = edited[d] \/ edited[d] > work[r].since
      BY <2>0, <2>8 DEF RunsWorkInv, Of
    <3>2. work[r].failed \/ Through(r, DOMAIN work[r].seen \ work[r].todo)
      BY <2>0, <2>8 DEF RunsWorkInv
    <3>3. \A n \in 1..clock : n \in 1..clock'
      BY <1>1
    <3>4. \A d \in Docs : edited[d] > work[r].since => edited'[d] > work[r].since
      BY <2>6
    <3>5. work[r].failed \/ Through(r, DOMAIN work[r].seen \ work[r].todo)'
      BY <1>1, <2>7, <3>1, <3>2 DEF Through
    <3> QED
      BY <2>6, <3>1, <3>3, <3>4, <3>5
  <2>9. Retires(r) => work[r].failed \/ Through(r, work[r].seen)'
    <3>1. Retires(r) => /\ work[r].seen \subseteq Docs
                        /\ work[r].failed \/ Through(r, work[r].seen)
      BY <2>0 DEF RunsWorkInv, Of
    <3> QED
      BY <1>1, <2>7, <3>1 DEF Through
  <2>10. Loops(r) => /\ work[r].todo \subseteq DOMAIN work[r].seen
                     /\ DOMAIN work[r].seen \subseteq Of(c)
    BY <2>0 DEF RunsWorkInv
  <2>11. Retires(r) =>
           /\ work[r].seen \union work[r].gone \union work[r].kept \subseteq Of(c)
           /\ work[r].seen \intersect work[r].gone = {}
           /\ work[r].gone # {} \/ work[r].kept # {} => adapter[c] = "snapshot"
           /\ adapter[c] = "snapshot" /\ ~work[r].failed =>
                \A d \in Of(c) : stored[d] # 0 /\ "unrecorded" \notin excuse[d] =>
                  d \in work[r].seen \union work[r].gone \union work[r].kept
    BY <2>0 DEF RunsWorkInv
  <2>12. /\ adapter[c] = "tree" => work[r].at = work[r].since
         /\ Lists(r) \/ Loops(r) => work[r].prev = Done(c).synced
    BY <2>0 DEF RunsWorkInv
  <2>13. Of(c)' = Of(c)
    BY DEF Of
  <2> QED
    BY <1>1, <1>2, <2>1, <2>2, <2>3, <2>4, <2>5, <2>8, <2>9, <2>10, <2>11, <2>12, <2>13
       DEF RunsWorkInv
<1> QED
  BY <1>3, <1>4, <1>5

\* What the engine does to runs leaves claims about documents alone.
LEMMA EngineKeepsWork ==
  ASSUME InlineInv, EngineMoves, WorkTypes', BeganInv'
  PROVE  CursorInv' /\ WorkInv' /\ StoredIsRecorded'
<1>i. WorkOK /\ WorkTypes /\ BeganInv /\ WorkInv /\ CursorInv /\ StoredIsRecorded
  BY DEF InlineInv
<1>1. /\ UNCHANGED <<adapter, clock, listed, edited, stored, cursor, excuse>>
      /\ UNCHANGED source
      /\ \A r \in Runs : /\ work'[r] \in {work[r], Resting}
                         /\ status'[r] = "completed" <=> status[r] = "completed"
                         /\ status[r] = "completed" => began'[r] = began[r]
  BY DEF EngineMoves, source
<1>2. ASSUME NEW c \in Connectors PROVE Done(c)' = Done(c)
  BY <1>i, <1>1, DoneStays DEF RunsOf, CompletedRuns
<1>3. StoredIsRecorded'
  BY <1>i, <1>1, <1>2, SourcesAssumption DEF StoredIsRecorded
<1>4. CursorInv'
  BY <1>i, <1>1 DEF CursorInv, Backed, Plain, Listing, Of
<1>5. WorkInv'
  <2> SUFFICES ASSUME NEW r \in Runs, work'[r] # Resting PROVE RunsWorkInv(r)'
    BY DEF WorkInv, Resting
  <2>1. work'[r] = work[r] /\ RunsWorkInv(r)
    BY <1>i, <1>1 DEF WorkInv
  <2>2. Done(ConnectorOf[r])' = Done(ConnectorOf[r])
    BY <1>2, RunsAssumption
  <2>3. \A s \in RunsOf(ConnectorOf[r]) :
          status'[s] = "completed" => status[s] = "completed" /\ cursor'[s] = cursor[s]
    BY <1>1 DEF RunsOf
  <2> QED
    BY <1>i, <1>1, <2>1, <2>2, <2>3, WorkUndisturbed
<1> QED
  BY <1>3, <1>4, <1>5

-----------------------------------------------------------------------------
(* A run at work changes nothing of another connector, and stores nothing stale. *)

Local(r) ==
  /\ UNCHANGED source /\ UNCHANGED began /\ Others(r)
  /\ \A q \in Runs \ {r} : status'[q] = status[q] /\ cursor'[q] = cursor[q]
  /\ \A d \in Docs : SourceOf[d] # ConnectorOf[r] =>
       stored'[d] = stored[d] /\ excuse'[d] = excuse[d]

\* The end of a run closes its own row.
LEMMA EndingIsLocal ==
  ASSUME Engaged, InlineInv, NEW r \in Runs, EndUnchanged(r) \/ Finish(r) \/ FailRun(r)
  PROVE  Local(r) /\ UNCHANGED stored /\ (EndUnchanged(r) \/ FailRun(r) => UNCHANGED excuse)
<1>i. WorkOK /\ WorkTypes /\ WorkInv
  BY DEF InlineInv
<1>1. EndRun(r) /\ Rest({r}) /\ UNCHANGED source /\ UNCHANGED stored /\ UNCHANGED began
  BY DEF EndUnchanged, Finish, FailRun
<1>2. Others(r)
  BY <1>1, <1>i, RestWay DEF Others
<1>3. \A q \in Runs \ {r} : status'[q] = status[q]
  BY <1>1 DEF EndRun, CloseRow, Engaged, TypeOK
<1>4. cursor \in [Runs -> Cursors] /\ excuse \in [Docs -> SUBSET Excuses]
  BY <1>i DEF WorkOK
<1>5. \A q \in Runs \ {r} : cursor'[q] = cursor[q]
  <2>1. \E x : cursor' = [cursor EXCEPT ![r] = x]
    BY DEF EndUnchanged, Finish, FailRun
  <2> QED
    BY <1>4, <2>1
<1>6. EndUnchanged(r) \/ FailRun(r) => UNCHANGED excuse
  BY DEF EndUnchanged, FailRun
<1>7. ASSUME Finish(r), NEW d \in Docs, SourceOf[d] # ConnectorOf[r]
      PROVE  excuse'[d] = excuse[d]
  <2>1. Retires(r)
    BY <1>7 DEF Finish, Retires
  <2>2. RunsWorkInv(r)
    BY <2>1, <1>i, Fields DEF WorkInv, Retires
  <2>3. Named(r) \subseteq Of(ConnectorOf[r])
    BY <2>1, <2>2 DEF RunsWorkInv, Named
  <2>4. d \notin Named(r)
    BY <1>7, <2>3 DEF Of
  <2>5. \/ excuse' = excuse
        \/ excuse' = [e \in Docs |-> IF e \in Named(r) THEN excuse[e] \ {"unrecorded"}
                                     ELSE excuse[e]]
    BY <1>7 DEF Finish
  <2> QED
    BY <2>4, <2>5
<1> QED
  BY <1>1, <1>2, <1>3, <1>5, <1>6, <1>7 DEF Local

\* Being through with a document touches that document, which is the connector's own.
LEMMA LoopingIsLocal ==
  ASSUME InlineInv, NEW r \in Runs, NEW d \in Docs,
         IngestDoc(r, d) \/ SkipShort(r, d) \/ FailDoc(r, d)
  PROVE  /\ UNCHANGED vars /\ UNCHANGED cursor /\ Local(r) /\ StoresWell(r)
         /\ Loops(r) /\ d \in work[r].todo /\ SourceOf[d] = ConnectorOf[r]
         /\ \A e \in Docs \ {d} : stored'[e] = stored[e] /\ excuse'[e] = excuse[e]
<1>i. WorkOK /\ WorkTypes /\ WorkInv
  BY DEF InlineInv
<1>1. UNCHANGED vars /\ UNCHANGED source /\ UNCHANGED cursors
  BY DEF IngestDoc, SkipShort, FailDoc
<1>2. Others(r) /\ Loops(r) /\ d \in work[r].todo
  BY <1>i, LoopWays
<1>3. /\ SourceOf[d] = ConnectorOf[r]
      /\ AdapterOf(r) = "stamped" => Fetched(r, d) = edited[d]
      /\ Fetched(r, d) = edited[d] \/ edited[d] > work[r].since
  BY <1>i, <1>2, FetchedIs
<1>t. stored \in [Docs -> 0..clock] /\ excuse \in [Docs -> SUBSET Excuses]
  BY <1>i DEF WorkOK
<1>4. \A e \in Docs \ {d} : stored'[e] = stored[e]
  BY <1>t DEF IngestDoc, SkipShort, FailDoc, Store
<1>5. \A e \in Docs \ {d} : excuse'[e] = excuse[e]
  <2>1. CASE IngestDoc(r, d)
    BY <1>t, <2>1 DEF IngestDoc
  <2>2. CASE SkipShort(r, d)
    BY <1>t, <2>2 DEF SkipShort, Excused
  <2>3. CASE FailDoc(r, d)
    BY <1>t, <2>3 DEF FailDoc
  <2> QED
    BY <2>1, <2>2, <2>3
<1>6. \/ Fetched(r, d) = edited[d]
      \/ AdapterOf(r) = "tree" /\ edited[d] > work[r].since
      \/ AdapterOf(r) = "snapshot"
  <2>1. AdapterOf(r) \in Kinds
    BY <1>i, SourcesAssumption, RunsAssumption DEF WorkOK, AdapterOf
  <2> QED
    BY <1>3, <2>1 DEF Kinds
<1>7. excuse'[d] \subseteq {"unrecorded"} =>
        \/ stored'[d] = Fetched(r, d)
        \/ Plain(d) /\ stored'[d] = stored[d]
  <2>1. CASE IngestDoc(r, d)
    BY <1>t, <2>1 DEF IngestDoc, Store
  <2>2. CASE SkipShort(r, d)
    BY <1>t, <2>2 DEF SkipShort, Excused
  <2>3. CASE FailDoc(r, d)
    BY <1>t, <2>3 DEF FailDoc, Store, Plain
  <2> QED
    BY <2>1, <2>2, <2>3
<1>8. StoresWell(r)
  <2> SUFFICES ASSUME NEW e \in Of(ConnectorOf[r]), excuse'[e] \subseteq {"unrecorded"}
               PROVE  \/ Plain(e) /\ stored'[e] = stored[e]
                      \/ stored'[e] = edited[e]
                      \/ AdapterOf(r) = "tree" /\ edited[e] > work[r].since
                      \/ AdapterOf(r) = "snapshot"
    BY DEF StoresWell
  <2>1. CASE e = d
    BY <1>6, <1>7, <2>1
  <2>2. CASE e # d
    BY <1>4, <1>5, <2>2 DEF Of, Plain
  <2> QED
    BY <2>1, <2>2
<1> QED
  BY <1>1, <1>2, <1>3, <1>4, <1>5, <1>8 DEF Local, cursors, vars

\* So does retiring one, and only where listings are complete.
LEMMA RetiringIsLocal ==
  ASSUME InlineInv, NEW r \in Runs, NEW d \in Docs, Retire(r, d) \/ RetireFails(r, d)
  PROVE  /\ UNCHANGED vars /\ UNCHANGED cursor /\ UNCHANGED excuse /\ Local(r)
         /\ Retires(r) /\ d \in work[r].gone /\ SourceOf[d] = ConnectorOf[r]
         /\ AdapterOf(r) = "snapshot" /\ StoresWell(r)
         /\ stored'[d] \in {stored[d], 0} /\ \A e \in Docs \ {d} : stored'[e] = stored[e]
<1>i. WorkOK /\ WorkTypes /\ WorkInv
  BY DEF InlineInv
<1>1. UNCHANGED vars /\ UNCHANGED source /\ UNCHANGED cursors /\ UNCHANGED excuse
  BY DEF Retire, RetireFails
<1>2. Others(r) /\ Retires(r) /\ d \in work[r].gone
  BY <1>i, RetireWays
<1>3. RunsWorkInv(r)
  BY <1>2, <1>i, Fields DEF WorkInv, Retires
<1>4. SourceOf[d] = ConnectorOf[r] /\ AdapterOf(r) = "snapshot"
  BY <1>2, <1>3 DEF RunsWorkInv, Of, AdapterOf
<1>5. stored \in [Docs -> 0..clock] /\ (UNCHANGED stored \/ Store(d, 0))
  BY <1>i DEF WorkOK, Retire, RetireFails
<1>6. stored'[d] \in {stored[d], 0} /\ \A e \in Docs \ {d} : stored'[e] = stored[e]
  BY <1>5 DEF Store
<1> QED
  BY <1>1, <1>2, <1>4, <1>6 DEF Local, StoresWell, cursors, vars

\* Reading, listing, checkpoints and the end of the loop store nothing.
LEMMA ReadingIsLocal ==
  ASSUME InlineInv, NEW r \in Runs,
         ReadCursors(r) \/ List(r) \/ Checkpoint(r) \/ EndLoop(r)
  PROVE  /\ UNCHANGED vars /\ UNCHANGED stored /\ Local(r)
         /\ Checkpoint(r) \/ UNCHANGED cursor
         /\ List(r) \/ UNCHANGED excuse
         /\ \A d \in Docs : excuse[d] \subseteq excuse'[d]
         /\ \A d \in Docs : "unrecorded" \in excuse'[d] => "unrecorded" \in excuse[d]
<1>i. WorkOK /\ WorkTypes /\ BeganInv /\ WorkInv
  BY DEF InlineInv
<1>1. /\ UNCHANGED vars /\ UNCHANGED source /\ UNCHANGED stored /\ UNCHANGED began
      /\ Checkpoint(r) \/ UNCHANGED cursor
      /\ List(r) \/ UNCHANGED excuse
  BY DEF ReadCursors, List, Checkpoint, EndLoop, cursors
<1>2. Others(r)
  BY <1>i, ReadWay, ListWay, CheckpointWay, EndLoopWay
<1>3. cursor \in [Runs -> Cursors]
  BY <1>i DEF WorkOK
<1>4. \A q \in Runs \ {r} : cursor'[q] = cursor[q]
  BY <1>1, <1>3 DEF Checkpoint
<1>5. ASSUME List(r), NEW d \in Docs
      PROVE  /\ excuse[d] \subseteq excuse'[d]
             /\ "unrecorded" \in excuse'[d] => "unrecorded" \in excuse[d]
             /\ SourceOf[d] # ConnectorOf[r] => excuse'[d] = excuse[d]
  <2> DEFINE P == Listing(ConnectorOf[r]) \intersect work[r].resume
             D == {e \in P : stored[e] # edited[e]}
  <2>1. excuse' = Excused(D, "resumed")
    BY <1>5 DEF List
  <2>2. D \subseteq Listing(ConnectorOf[r])
    OBVIOUS
  <2> HIDE DEF D
  <2> QED
    BY <2>1, <2>2 DEF Excused, Listing
<1> QED
  BY <1>1, <1>2, <1>4, <1>5 DEF Local, vars

\* Only a run whose task works does anything with documents.
LEMMA DocumentsAreWork ==
  ASSUME WorkOK, WorkTypes, NEW r \in Runs, Documents(r)
  PROVE  task[r] = "working" /\ (ReadCursors(r) \/ FailRun(r) \/ work[r] # Resting)
<1>1. work[r].pc # "resting" => work[r] # Resting /\ task[r] = "working"
  BY Fields DEF WorkOK
<1>2. CASE EndUnchanged(r) \/ Finish(r) \/ FailRun(r)
  <2>1. FailRun(r) \/ work[r].pc # "resting"
    BY <1>2 DEF EndUnchanged, Finish
  <2>2. task[r] = "working"
    BY <1>2 DEF EndUnchanged, Finish, FailRun, EndRun
  <2> QED
    BY <1>1, <2>1, <2>2
<1>3. CASE ReadCursors(r)
  BY <1>3 DEF ReadCursors
<1>4. CASE List(r) \/ Checkpoint(r) \/ EndLoop(r)
  BY <1>1, <1>4 DEF List, Checkpoint, EndLoop
<1>5. ASSUME NEW d \in Docs, IngestDoc(r, d) \/ SkipShort(r, d) \/ FailDoc(r, d)
      PROVE  work[r].pc = "ingesting"
  BY <1>5 DEF IngestDoc, SkipShort, FailDoc
<1>6. ASSUME NEW d \in Docs, Retire(r, d) \/ RetireFails(r, d)
      PROVE  work[r].pc = "retiring"
  BY <1>6 DEF Retire, RetireFails
<1> QED
  BY <1>1, <1>2, <1>3, <1>4, <1>5, <1>6 DEF Documents

\* All work on documents is local.
LEMMA DocumentsAreLocal ==
  ASSUME Engaged, InlineInv, NEW r \in Runs, Documents(r)
  PROVE  Local(r)
<1>1. CASE EndUnchanged(r) \/ Finish(r) \/ FailRun(r)
  BY <1>1, EndingIsLocal
<1>2. CASE ReadCursors(r) \/ List(r) \/ Checkpoint(r) \/ EndLoop(r)
  BY <1>2, ReadingIsLocal
<1>3. ASSUME NEW d \in Docs, IngestDoc(r, d) \/ SkipShort(r, d) \/ FailDoc(r, d) PROVE Local(r)
  BY <1>3, LoopingIsLocal
<1>4. ASSUME NEW d \in Docs, Retire(r, d) \/ RetireFails(r, d) PROVE Local(r)
  BY <1>4, RetiringIsLocal
<1> QED
  BY <1>1, <1>2, <1>3, <1>4 DEF Documents

\* Another connector's runs, cursors and documents stay what they were.
LEMMA ElsewhereStays ==
  ASSUME Engaged, InlineInv, NEW r \in Runs, Documents(r), WorkTypes', BeganInv'
  PROVE  /\ \A c \in Connectors : c # ConnectorOf[r] => Done(c)' = Done(c)
         /\ \A q \in Runs \ {r} : work'[q] # Resting => RunsWorkInv(q)'
         /\ \A q \in Runs : ConnectorOf[q] # ConnectorOf[r] /\ status'[q] = "completed" =>
              BackedThen(ConnectorOf[q], cursor'[q].at, cursor'[q].synced)
         /\ \A d \in Docs : /\ SourceOf[d] # ConnectorOf[r]
                            /\ adapter'[SourceOf[d]] = "snapshot" /\ stored'[d] # 0
                            /\ "unrecorded" \notin excuse'[d]
                            => d \in Done(SourceOf[d])'.synced
<1>i. WorkOK /\ WorkTypes /\ BeganInv /\ WorkInv /\ CursorInv /\ StoredIsRecorded
  BY DEF InlineInv
<1>l. Local(r)
  BY DocumentsAreLocal
<1>1. task[r] = "working"
  BY <1>i, DocumentsAreWork
<1>2. UNCHANGED source /\ UNCHANGED began /\ UNCHANGED <<adapter, clock, listed, edited>>
  BY <1>l DEF Local, source
<1>3. ASSUME NEW c \in Connectors, c # ConnectorOf[r] PROVE Done(c)' = Done(c)
  <2>1. \A q \in RunsOf(c) : q \in Runs \ {r}
    BY <1>3 DEF RunsOf
  <2>2. \A q \in RunsOf(c) : status'[q] = status[q] /\ cursor'[q] = cursor[q]
    BY <2>1, <1>l DEF Local
  <2> QED
    BY <1>i, <1>2, <2>2, DoneStays DEF CompletedRuns
<1>4. ASSUME NEW q \in Runs \ {r}, work'[q] # Resting PROVE RunsWorkInv(q)'
  <2>1. work'[q] = work[q]
    BY <1>l DEF Local, Others
  <2>2. ConnectorOf[q] # ConnectorOf[r]
    BY <1>1, <1>4, <1>i, <2>1, WorksAlone
  <2>3. RunsWorkInv(q) /\ Done(ConnectorOf[q])' = Done(ConnectorOf[q])
    BY <1>3, <1>4, <1>i, <2>1, <2>2, RunsAssumption DEF WorkInv
  <2>4. \A d \in Of(ConnectorOf[q]) : stored'[d] = stored[d] /\ excuse'[d] = excuse[d]
    BY <1>l, <2>2 DEF Local, Of
  <2>5. \A s \in RunsOf(ConnectorOf[q]) :
          status'[s] = "completed" => status[s] = "completed" /\ cursor'[s] = cursor[s]
    BY <1>l, <2>2 DEF Local, RunsOf
  <2> QED
    BY <1>i, <1>2, <2>1, <2>3, <2>4, <2>5, WorkUndisturbed
<1>5. ASSUME NEW q \in Runs, ConnectorOf[q] # ConnectorOf[r], status'[q] = "completed"
      PROVE  BackedThen(ConnectorOf[q], cursor'[q].at, cursor'[q].synced)
  <2>1. status[q] = "completed" /\ cursor'[q] = cursor[q]
    BY <1>5, <1>l DEF Local
  <2>2. Backed(ConnectorOf[q], cursor[q].at, cursor[q].synced)
    BY <1>i, <2>1 DEF CursorInv
  <2>3. \A d \in Docs : SourceOf[d] = ConnectorOf[q] =>
          stored'[d] = stored[d] /\ excuse'[d] = excuse[d]
    BY <1>5, <1>l DEF Local
  <2>4. listed \subseteq Docs
    BY <1>i DEF WorkOK
  <2> QED
    BY <1>2, <2>1, <2>2, <2>3, <2>4 DEF Backed, BackedThen, Plain, Listing, Of
<1>6. ASSUME NEW d \in Docs, SourceOf[d] # ConnectorOf[r],
             adapter'[SourceOf[d]] = "snapshot", stored'[d] # 0, "unrecorded" \notin excuse'[d]
      PROVE  d \in Done(SourceOf[d])'.synced
  <2>1. d \in Done(SourceOf[d]).synced
    BY <1>6, <1>i, <1>l, <1>2 DEF Local, StoredIsRecorded
  <2> QED
    BY <1>3, <1>6, <2>1, SourcesAssumption
<1> QED
  BY <1>3, <1>4, <1>5, <1>6

-----------------------------------------------------------------------------
(* What a run at work knows *)

\* The cursor a run goes by is backed by the knowledge base.
LEMMA DoneBacked ==
  ASSUME InlineInv, NEW c \in Connectors
  PROVE  Backed(c, Done(c).at, Done(c).synced)
<1>i. WorkTypes /\ BeganInv /\ CursorInv
  BY DEF InlineInv
<1>1. DoneIsLast
  BY <1>i, DoneIs
<1>2. CASE CompletedRuns(c) = {}
  <2>1. Done(c) = NoCursor
    BY <1>1, <1>2 DEF DoneIsLast
  <2>2. clock \in Nat /\ clock # 0 /\ Done(c).at = 0 /\ Done(c).synced = {}
    BY <2>1, <1>i, ChangesAssumption DEF WorkTypes, NoCursor
  <2> QED
    BY <2>2 DEF Backed
<1>3. CASE CompletedRuns(c) # {}
  <2>1. PICK s \in Runs : LastDone(c, s)
    BY <1>1, <1>3 DEF DoneIsLast
  <2>2. Done(c) = cursor[s] /\ status[s] = "completed" /\ ConnectorOf[s] = c
    BY <1>1, <2>1 DEF DoneIsLast, LastDone, CompletedRuns, RunsOf
  <2> QED
    BY <1>i, <2>2 DEF CursorInv
<1> QED
  BY <1>2, <1>3

\* As long as no run is completed, the cursors read stay the last ones.
LEMMA DoneUndisturbed ==
  ASSUME InlineInv, WorkTypes', BeganInv', UNCHANGED status, UNCHANGED began,
         \A s \in Runs : status[s] = "completed" => cursor'[s] = cursor[s]
  PROVE  \A c \in Connectors : Done(c)' = Done(c)
BY DoneStays DEF InlineInv, CompletedRuns, RunsOf

\* The part of its knowledge that is about time.
Timely(r) ==
  /\ work[r].at <= work[r].since /\ work[r].since <= clock
  /\ adapter[ConnectorOf[r]] = "tree" => work[r].at = work[r].since
  /\ \A s \in RunsOf(ConnectorOf[r]) : status[s] = "completed" => cursor[s].at <= work[r].since

\* A run keeps what it knows about time while no row and no source changes.
LEMMA StaysTimely ==
  ASSUME InlineInv, NEW r \in Runs, work[r] # Resting, UNCHANGED source, UNCHANGED status,
         \A s \in Runs : status[s] = "completed" => cursor'[s] = cursor[s],
         work'[r].since = work[r].since, work'[r].at = work[r].at
  PROVE  Timely(r)' /\ RunsWorkInv(r)
<1>1. RunsWorkInv(r)
  BY DEF InlineInv, WorkInv
<1> QED
  BY <1>1 DEF RunsWorkInv, Timely, RunsOf, source

\* What a run has read is what the last completed run left, and so it is backed.
LEMMA ReadingKnows ==
  ASSUME Engaged, InlineInv, NEW r \in Runs, ReadCursors(r), WorkTypes', BeganInv'
  PROVE  RunsWorkInv(r)'
<1> DEFINE c == ConnectorOf[r]
<1>i. WorkOK /\ WorkTypes /\ BeganInv /\ CursorInv
  BY DEF InlineInv
<1>1. /\ UNCHANGED <<status, adapter, clock, listed, edited, stored, began, cursor, excuse>>
      /\ c \in Connectors
  BY RunsAssumption DEF ReadCursors, source, cursors
<1>2. /\ work'[r].pc = "listing" /\ work'[r].since = clock /\ work'[r].at = Marker(c)
      /\ work'[r].prevAt = Done(c).at /\ work'[r].prev = Done(c).synced
  BY <1>i, ReadWay
<1>3. Marker(c) <= clock /\ (adapter[c] = "tree" => Marker(c) = clock) /\ clock \in Nat
  BY <1>i, <1>1, MarkerBounds DEF WorkOK
<1>4. Done(c)' = Done(c)
  BY <1>1, DoneUndisturbed
<1>5. Backed(c, Done(c).at, Done(c).synced)
  BY <1>1, DoneBacked
<1>6. Backed(c, work[r].prevAt, work[r].prev)'
  BY <1>1, <1>2, <1>5 DEF Backed, Plain, Listing, Of
<1>7. \A s \in RunsOf(c)' : status'[s] = "completed" => cursor'[s].at <= clock
  BY <1>1, <1>i DEF CursorInv, Backed, RunsOf
<1>8. Lists(r)' /\ ~Loops(r)' /\ ~Retires(r)'
  BY <1>2 DEF Lists, Loops, Retires
<1> QED
  BY <1>1, <1>2, <1>3, <1>4, <1>6, <1>7, <1>8 DEF RunsWorkInv

\* What a run passes over as unchanged is stored as it is listed.
LEMMA ListingKnows ==
  ASSUME Engaged, InlineInv, NEW r \in Runs, List(r), WorkTypes', BeganInv'
  PROVE  RunsWorkInv(r)'
<1> DEFINE c == ConnectorOf[r]
           L == Listing(c)
<1>i. WorkOK /\ WorkTypes
  BY DEF InlineInv
<1>1. /\ UNCHANGED status /\ UNCHANGED source /\ UNCHANGED stored /\ UNCHANGED cursor
      /\ UNCHANGED began /\ work[r].pc = "listing" /\ c \in Connectors
      /\ UNCHANGED <<adapter, clock, listed, edited>>
  BY RunsAssumption DEF List, source, cursors
<1>2. /\ work'[r].pc = "ingesting" /\ work'[r].since = work[r].since
      /\ work'[r].at = work[r].at /\ work'[r].prev = work[r].prev
      /\ work'[r].seen = [d \in L |-> edited[d]] /\ work'[r].failed = FALSE
      /\ work'[r].todo = {d \in L \ (L \intersect work[r].resume) : Changed(r, d)}
  BY <1>i, ListWay
<1>3. Lists(r) /\ work[r] # Resting
  BY <1>1, <1>i, Fields DEF Lists
<1>4. Timely(r)' /\ RunsWorkInv(r)
  BY <1>1, <1>2, <1>3, StaysTimely
<1>5. Done(c)' = Done(c)
  BY <1>1, DoneUndisturbed
<1>6. Backed(c, work[r].prevAt, work[r].prev) /\ work[r].prev = Done(c).synced
  BY <1>3, <1>4 DEF RunsWorkInv
<1>7. L \subseteq Docs /\ L \subseteq Of(c) /\ L' = L /\ \A d \in L : edited[d] \in 1..clock
  BY <1>1, <1>i DEF Listing, Of, WorkOK
<1>8. ASSUME NEW d \in L, d \notin work'[r].todo, excuse'[d] \subseteq {"unrecorded"}
      PROVE  stored[d] = edited[d]
  <2>e. excuse' = Excused({e \in L \intersect work[r].resume : stored[e] # edited[e]},
                          "resumed")
    BY DEF List
  <2>1. CASE d \in work[r].resume
    BY <1>7, <1>8, <2>1, <2>e DEF Excused
  <2>2. CASE d \notin work[r].resume
    <3>1. ~Changed(r, d)
      BY <1>2, <1>8, <2>2
    <3>2. d \in work[r].prev /\ AdapterOf(r) = "stamped" /\ ~(edited[d] > work[r].prevAt)
      BY <3>1 DEF Changed
    <3>3. work[r].prevAt \in Nat
      BY <1>3, <1>i, Numbers
    <3>4. edited[d] <= work[r].prevAt
      BY <1>7, <3>2, <3>3
    <3>5. Plain(d)
      BY <1>7, <1>8, <2>2, <2>e DEF Excused, Plain
    <3> QED
      BY <1>6, <3>2, <3>4, <3>5 DEF Backed, AdapterOf
  <2> QED
    BY <2>1, <2>2
<1>9. DOMAIN work'[r].seen = L /\ \A d \in L : work'[r].seen[d] = edited[d]
  BY <1>2
<1>10. Through(r, DOMAIN work[r].seen \ work[r].todo)'
  BY <1>1, <1>8, <1>9 DEF Through, Plain
<1>11. ~Lists(r)' /\ Loops(r)' /\ ~Retires(r)'
  BY <1>2 DEF Lists, Loops, Retires
<1>12. work'[r].todo \subseteq L
  BY <1>2
<1>13. Of(c)' = Of(c)
  BY DEF Of
<1> QED
  BY <1>1, <1>2, <1>4, <1>5, <1>6, <1>7, <1>9, <1>10, <1>11, <1>12, <1>13
     DEF RunsWorkInv, Timely

\* A document that failed makes the loop a failed one.
LEMMA FailingIsNoted ==
  ASSUME WorkTypes, NEW r \in Runs, NEW d \in Docs, FailDoc(r, d)
  PROVE  work'[r].failed
<1> DEFINE x == [work[r] EXCEPT !.todo = work[r].todo \ {d}, !.failed = TRUE]
<1>1. work[r] \in Loopings
  BY Fields DEF FailDoc, Loops
<1>2. work' = [work EXCEPT ![r] = x]
  BY Zenon DEF FailDoc
<1>3. x.failed = TRUE
  BY <1>1 DEF Loopings
<1> HIDE DEF x
<1> QED
  BY <1>2, <1>3 DEF WorkTypes

\* A run that ingested, or skipped, a document is through with it, unless it failed.
LEMMA LoopingKnows ==
  ASSUME Engaged, InlineInv, NEW r \in Runs, NEW d \in Docs, WorkTypes', BeganInv',
         IngestDoc(r, d) \/ SkipShort(r, d) \/ FailDoc(r, d)
  PROVE  RunsWorkInv(r)'
<1> DEFINE c == ConnectorOf[r]
           w == work[r]
<1>i. WorkOK /\ WorkTypes /\ WorkInv
  BY DEF InlineInv
<1>1. /\ UNCHANGED vars /\ UNCHANGED cursor /\ Local(r) /\ Loops(r) /\ d \in w.todo
      /\ \A e \in Docs \ {d} : stored'[e] = stored[e] /\ excuse'[e] = excuse[e]
  BY LoopingIsLocal
<1>2. /\ Loops(r)' /\ Keeps(r) /\ work'[r].todo = w.todo \ {d}
      /\ \/ w.failed = work'[r].failed
         \/ FailDoc(r, d) /\ work'[r].failed
  BY <1>i, LoopWays
<1>3. /\ UNCHANGED status /\ UNCHANGED source /\ UNCHANGED began
      /\ UNCHANGED <<adapter, clock, listed, edited>>
      /\ c \in Connectors
  BY <1>1, RunsAssumption DEF Local, source, vars, rows
<1>4. w # Resting
  BY <1>1, <1>i, Fields DEF Loops
<1>5. Timely(r)' /\ RunsWorkInv(r)
  BY <1>1, <1>2, <1>3, <1>4, StaysTimely DEF Keeps
<1>6. Done(c)' = Done(c)
  BY <1>1, <1>3, DoneUndisturbed
<1>7. Listing(c)' = Listing(c) /\ Of(c)' = Of(c)
  BY <1>3 DEF Listing, Of
<1>8. /\ w.todo \subseteq DOMAIN w.seen /\ DOMAIN w.seen \subseteq Of(c)
      /\ w.since = clock => DOMAIN w.seen = Listing(c)
      /\ \A e \in DOMAIN w.seen : /\ w.seen[e] \in 1..clock
                                  /\ w.seen[e] = edited[e] \/ edited[e] > w.since
      /\ w.failed \/ Through(r, DOMAIN w.seen \ w.todo)
      /\ w.prev = Done(c).synced
  BY <1>1, <1>5 DEF RunsWorkInv
<1>9. ASSUME ~FailDoc(r, d), excuse'[d] \subseteq {"unrecorded"}
      PROVE  edited[d] > w.since \/ stored'[d] = edited[d]
  <2>1. Fetched(r, d) = edited[d] \/ edited[d] > w.since
    BY <1>1, <1>i, FetchedIs
  <2>2. stored \in [Docs -> 0..clock] /\ excuse \in [Docs -> SUBSET Excuses]
    BY <1>i DEF WorkOK
  <2>3. CASE IngestDoc(r, d)
    BY <2>1, <2>2, <2>3 DEF IngestDoc, Store
  <2>4. CASE SkipShort(r, d)
    BY <1>9, <2>2, <2>4 DEF SkipShort, Excused
  <2> QED
    BY <1>9, <2>3, <2>4
<1>10. work'[r].failed \/ Through(r, DOMAIN work[r].seen \ work[r].todo)'
  <2> SUFFICES ASSUME ~work'[r].failed, NEW e \in DOMAIN w.seen \ (w.todo \ {d}),
                      excuse'[e] \subseteq {"unrecorded"}
               PROVE  edited'[e] > work'[r].since \/ stored'[e] = edited'[e]
    BY <1>2 DEF Through, Plain, Keeps
  <2>1. work'[r].since = w.since /\ edited' = edited
    BY <1>2, <1>3 DEF Keeps
  <2>2. ~FailDoc(r, d) \/ Through(r, DOMAIN w.seen \ w.todo)
    BY <1>2, <1>8
  <2>3. CASE e = d /\ ~FailDoc(r, d)
    BY <1>9, <2>1, <2>3
  <2>4. CASE e # d
    <3>1. ~w.failed
      BY <1>2
    <3>2. Through(r, DOMAIN w.seen \ w.todo) /\ e \in DOMAIN w.seen \ w.todo
      BY <1>8, <2>4, <3>1
    <3>3. stored'[e] = stored[e] /\ excuse'[e] = excuse[e]
      BY <1>1, <1>8, <2>4 DEF Of
    <3> QED
      BY <2>1, <3>2, <3>3 DEF Through, Plain
  <2>5. CASE FailDoc(r, d)
    <3>1. work'[r].failed
      BY <1>i, <2>5, FailingIsNoted
    <3> QED
      BY <3>1
  <2> QED
    BY <2>3, <2>4, <2>5
<1>11. ~Lists(r)' /\ ~Retires(r)'
  BY <1>2 DEF Lists, Loops, Retires
<1> QED
  BY <1>2, <1>3, <1>5, <1>6, <1>7, <1>8, <1>10, <1>11 DEF RunsWorkInv, Timely, Keeps

\* A checkpoint writes the cursor of a running row, which no completed run is.
LEMMA CheckpointKnows ==
  ASSUME Engaged, InlineInv, NEW r \in Runs, Checkpoint(r), WorkTypes', BeganInv'
  PROVE  RunsWorkInv(r)' /\ \A c \in Connectors : Done(c)' = Done(c)
<1> DEFINE c == ConnectorOf[r]
           w == work[r]
<1>i. WorkOK /\ WorkTypes
  BY DEF InlineInv
<1>1. /\ UNCHANGED status /\ UNCHANGED source /\ UNCHANGED stored /\ UNCHANGED began
      /\ UNCHANGED excuse /\ UNCHANGED <<adapter, clock, listed, edited>>
      /\ c \in Connectors /\ w.pc = "saving"
      /\ \E x : cursor' = [cursor EXCEPT ![r] = x]
  BY RunsAssumption DEF Checkpoint, source
<1>2. /\ Loops(r) /\ Loops(r)' /\ Keeps(r)
      /\ work'[r].todo = w.todo /\ work'[r].failed = w.failed
  BY <1>i, CheckpointWay
<1>3. w # Resting
  BY <1>1, <1>i, Fields
<1>4. status[r] = "running"
  BY <1>3, <1>i, WorksAlone DEF WorkOK
<1>5. \A s \in Runs : status[s] = "completed" => cursor'[s] = cursor[s]
  BY <1>1, <1>4, <1>i DEF WorkOK
<1>6. Timely(r)' /\ RunsWorkInv(r)
  BY <1>1, <1>2, <1>3, <1>5, StaysTimely DEF Keeps
<1>7. \A b \in Connectors : Done(b)' = Done(b)
  BY <1>1, <1>5, DoneUndisturbed
<1>8. Listing(c)' = Listing(c) /\ Of(c)' = Of(c)
  BY <1>1 DEF Listing, Of
<1>9. /\ w.todo \subseteq DOMAIN w.seen /\ DOMAIN w.seen \subseteq Of(c)
      /\ w.since = clock => DOMAIN w.seen = Listing(c)
      /\ \A e \in DOMAIN w.seen : /\ w.seen[e] \in 1..clock
                                  /\ w.seen[e] = edited[e] \/ edited[e] > w.since
      /\ w.failed \/ Through(r, DOMAIN w.seen \ w.todo)
      /\ w.prev = Done(c).synced
  BY <1>2, <1>6 DEF RunsWorkInv
<1>10. work'[r].failed \/ Through(r, DOMAIN work[r].seen \ work[r].todo)'
  BY <1>1, <1>2, <1>9 DEF Through, Plain, Keeps
<1>11. ~Lists(r)' /\ ~Retires(r)'
  BY <1>2 DEF Lists, Loops, Retires
<1>12. Done(c)' = Done(c)
  BY <1>1, <1>7
<1> QED
  BY <1>1, <1>2, <1>6, <1>7, <1>12, <1>8, <1>9, <1>10, <1>11 DEF RunsWorkInv, Timely, Keeps

\* The loop has been through all that was listed; what the last cursor names beyond that is
\* to be retired, or kept.
LEMMA EndLoopKnows ==
  ASSUME Engaged, InlineInv, NEW r \in Runs, EndLoop(r), WorkTypes', BeganInv'
  PROVE  RunsWorkInv(r)'
<1> DEFINE c == ConnectorOf[r]
           w == work[r]
<1>i. WorkOK /\ WorkTypes /\ StoredIsRecorded
  BY DEF InlineInv
<1>1. /\ UNCHANGED status /\ UNCHANGED source /\ UNCHANGED stored /\ UNCHANGED began
      /\ UNCHANGED cursor /\ UNCHANGED excuse /\ UNCHANGED <<adapter, clock, listed, edited>>
      /\ c \in Connectors
  BY RunsAssumption DEF EndLoop, source, cursors
<1>2. /\ Loops(r) /\ w.todo = {} /\ work'[r].pc = "retiring"
      /\ work'[r].since = w.since /\ work'[r].at = w.at /\ work'[r].failed = w.failed
      /\ work'[r].seen = DOMAIN w.seen
      /\ work'[r].gone = IF MayRetire(r) /\ ~Shrunk(r) THEN Gone(r) ELSE {}
      /\ work'[r].kept = IF MayRetire(r) /\ Shrunk(r) THEN w.prev ELSE {}
  BY <1>i, EndLoopWay
<1>3. w # Resting
  BY <1>2, <1>i, Fields DEF Loops
<1>4. Timely(r)' /\ RunsWorkInv(r)
  BY <1>1, <1>2, <1>3, StaysTimely
<1>5. /\ DOMAIN w.seen \subseteq Of(c)
      /\ w.since = clock => DOMAIN w.seen = Listing(c)
      /\ w.failed \/ Through(r, DOMAIN w.seen \ w.todo)
      /\ w.prev = Done(c).synced
  BY <1>2, <1>4 DEF RunsWorkInv
<1>6. w.prev \subseteq Of(c)
  BY <1>1, <1>5, DoneBacked DEF Backed
<1>7. Listing(c)' = Listing(c) /\ Of(c)' = Of(c)
  BY <1>1 DEF Listing, Of
<1>8. /\ work'[r].seen \union work'[r].gone \union work'[r].kept \subseteq Of(c)
      /\ work'[r].seen \intersect work'[r].gone = {}
      /\ work'[r].gone # {} \/ work'[r].kept # {} => adapter[c] = "snapshot"
  BY <1>2, <1>5, <1>6 DEF Gone, MayRetire, AdapterOf
<1>9. work'[r].failed \/ Through(r, work[r].seen)'
  BY <1>1, <1>2, <1>5 DEF Through, Plain
<1>10. ASSUME adapter[c] = "snapshot", ~work'[r].failed, NEW d \in Of(c),
              stored[d] # 0, "unrecorded" \notin excuse[d]
       PROVE  d \in work'[r].seen \union work'[r].gone \union work'[r].kept
  <2>1. d \in w.prev
    BY <1>i, <1>5, <1>10 DEF StoredIsRecorded, Of
  <2>2. MayRetire(r)
    BY <1>2, <1>10 DEF MayRetire, AdapterOf
  <2> QED
    BY <1>2, <2>1, <2>2 DEF Gone
<1>11. ~Lists(r)' /\ ~Loops(r)'
  BY <1>2 DEF Lists, Loops
<1> QED
  BY <1>1, <1>2, <1>4, <1>5, <1>7, <1>8, <1>9, <1>10, <1>11 DEF RunsWorkInv, Timely

\* What is retired is not what was listed; a deletion that failed makes the run a failed one.
LEMMA RetiringKnows ==
  ASSUME Engaged, InlineInv, NEW r \in Runs, NEW d \in Docs, WorkTypes', BeganInv',
         Retire(r, d) \/ RetireFails(r, d)
  PROVE  RunsWorkInv(r)'
<1> DEFINE c == ConnectorOf[r]
           w == work[r]
<1>i. WorkOK /\ WorkTypes
  BY DEF InlineInv
<1>1. /\ UNCHANGED vars /\ UNCHANGED cursor /\ UNCHANGED excuse /\ Local(r)
      /\ Retires(r) /\ d \in w.gone
      /\ stored'[d] \in {stored[d], 0} /\ \A e \in Docs \ {d} : stored'[e] = stored[e]
  BY RetiringIsLocal
<1>2. /\ work'[r].pc = "retiring"
      /\ work'[r].since = w.since /\ work'[r].at = w.at /\ work'[r].seen = w.seen
      /\ work'[r].kept = w.kept
      /\ \/ Retire(r, d) /\ work'[r].gone = w.gone \ {d} /\ work'[r].failed = w.failed
         \/ work'[r].gone = {} /\ work'[r].failed
  BY <1>i, RetireWays
<1>3. /\ UNCHANGED status /\ UNCHANGED source /\ UNCHANGED began
      /\ UNCHANGED <<adapter, clock, listed, edited>>
      /\ c \in Connectors
  BY <1>1, RunsAssumption DEF Local, source, vars, rows
<1>4. w # Resting
  BY <1>1, <1>i, Fields DEF Retires
<1>5. Timely(r)' /\ RunsWorkInv(r)
  BY <1>1, <1>2, <1>3, <1>4, StaysTimely
<1>6. /\ w.seen \union w.gone \union w.kept \subseteq Of(c)
      /\ w.seen \intersect w.gone = {}
      /\ w.since = clock => w.seen = Listing(c)
      /\ w.failed \/ Through(r, w.seen)
      /\ w.gone # {} \/ w.kept # {} => adapter[c] = "snapshot"
      /\ adapter[c] = "snapshot" /\ ~w.failed =>
           \A e \in Of(c) : stored[e] # 0 /\ "unrecorded" \notin excuse[e] =>
             e \in w.seen \union w.gone \union w.kept
  BY <1>1, <1>5 DEF RunsWorkInv
<1>7. Listing(c)' = Listing(c) /\ Of(c)' = Of(c)
  BY <1>3 DEF Listing, Of
<1>8. work'[r].gone \subseteq w.gone
  BY <1>2
<1>9. work'[r].failed \/ Through(r, work[r].seen)'
  <2> SUFFICES ASSUME ~work'[r].failed, NEW e \in w.seen, excuse'[e] \subseteq {"unrecorded"}
               PROVE  edited'[e] > work'[r].since \/ stored'[e] = edited'[e]
    BY <1>2 DEF Through, Plain
  <2>1. ~w.failed
    BY <1>2
  <2>2. Through(r, w.seen) /\ e # d /\ e \in Docs
    BY <1>1, <1>6, <2>1 DEF Of
  <2>3. stored'[e] = stored[e] /\ excuse'[e] = excuse[e]
    BY <1>1, <2>2
  <2> QED
    BY <1>2, <1>3, <2>2, <2>3 DEF Through, Plain
<1>10. ASSUME adapter[c] = "snapshot", ~work'[r].failed, NEW e \in Of(c),
              stored'[e] # 0, "unrecorded" \notin excuse[e]
       PROVE  e \in work'[r].seen \union work'[r].gone \union work'[r].kept
  <2>1. Retire(r, d) /\ work'[r].gone = w.gone \ {d} /\ ~w.failed
    BY <1>2, <1>10
  <2>2. stored \in [Docs -> 0..clock] /\ e \in Docs
    BY <1>i DEF WorkOK, Of
  <2>3. e # d
    BY <1>10, <2>1, <2>2 DEF Retire, Store
  <2>4. stored[e] # 0
    BY <1>1, <1>10, <2>2, <2>3
  <2>5. e \in w.seen \union w.gone \union w.kept
    BY <1>6, <1>10, <2>1, <2>4
  <2> QED
    BY <1>2, <2>1, <2>3, <2>5
<1>11. ~Lists(r)' /\ ~Loops(r)'
  BY <1>2 DEF Lists, Loops
<1> QED
  BY <1>1, <1>2, <1>3, <1>5, <1>6, <1>7, <1>8, <1>9, <1>10, <1>11 DEF RunsWorkInv, Timely

-----------------------------------------------------------------------------
(* What the cursors of completed runs say *)

\* Nothing is stored, and there is no excuse fewer but that of not being recorded.
NothingWorse(c) ==
  \A d \in Of(c) : excuse'[d] \subseteq {"unrecorded"} => Plain(d) /\ stored'[d] = stored[d]

\* Then every cursor that was backed is.
LEMMA NothingWorseKeepsBacked ==
  ASSUME WorkOK, UNCHANGED source, NEW c, NothingWorse(c), NEW at, NEW D, Backed(c, at, D)
  PROVE  BackedThen(c, at, D)
<1>1. UNCHANGED <<adapter, clock, listed, edited>> /\ listed \subseteq Docs
  BY DEF source, WorkOK
<1>2. /\ at <= clock /\ D \subseteq Of(c)
      /\ adapter[c] = "stamped" =>
           \A d \in D : edited[d] <= at /\ Plain(d) => stored[d] = edited[d]
      /\ adapter[c] = "tree" /\ at = clock =>
           \A d \in Listing(c) : Plain(d) => stored[d] = edited[d]
  BY DEF Backed
<1>3. ASSUME adapter[c] = "stamped", NEW d \in D, edited[d] <= at,
             excuse'[d] \subseteq {"unrecorded"}
      PROVE  stored'[d] = edited[d]
  BY <1>2, <1>3 DEF NothingWorse
<1>4. ASSUME adapter[c] = "tree", at = clock, NEW d \in listed, SourceOf[d] = c,
             excuse'[d] \subseteq {"unrecorded"}
      PROVE  stored'[d] = edited[d]
  <2>1. d \in Of(c) /\ d \in Listing(c)
    BY <1>1, <1>4 DEF Of, Listing
  <2> QED
    BY <1>2, <1>4, <2>1 DEF NothingWorse
<1> QED
  BY <1>1, <1>2, <1>3, <1>4 DEF BackedThen

\* The cursor of a run completed before stays backed, whatever a later one does.
LEMMA EarlierStaysBacked ==
  ASSUME Engaged, InlineInv, NEW r \in Runs, Documents(r),
         NEW s \in Runs, ConnectorOf[s] = ConnectorOf[r], status[s] = "completed"
  PROVE  BackedThen(ConnectorOf[r], cursor[s].at, cursor[s].synced)
<1> DEFINE c == ConnectorOf[r]
<1>i. WorkOK /\ WorkTypes /\ CursorInv /\ WorkInv
  BY DEF InlineInv
<1>1. Backed(c, cursor[s].at, cursor[s].synced) /\ cursor[s].at \in Nat
  BY <1>i DEF CursorInv, WorkOK, Cursors
<1>2. UNCHANGED source /\ excuse \in [Docs -> SUBSET Excuses]
  BY <1>i, DocumentsAreLocal DEF Local, WorkOK
<1>3. CASE NothingWorse(c)
  BY <1>i, <1>1, <1>2, <1>3, NothingWorseKeepsBacked
<1>4. CASE StoresWell(r) /\ work[r] # Resting
  <2>1. work[r].since \in Nat
    BY <1>i, <1>4, Numbers
  <2>2. cursor[s].at <= work[r].since /\ work[r].since <= clock
    BY <1>i, <1>4 DEF WorkInv, RunsWorkInv, RunsOf
  <2> QED
    BY <1>i, <1>1, <1>2, <1>4, <2>1, <2>2, StoringKeepsBacked
<1>5. CASE ReadCursors(r) \/ List(r) \/ Checkpoint(r) \/ EndLoop(r)
  <2>1. UNCHANGED stored /\ \A d \in Docs : excuse[d] \subseteq excuse'[d]
    BY <1>5, ReadingIsLocal
  <2> QED
    BY <1>3, <2>1 DEF NothingWorse, Plain, Of
<1>6. CASE EndUnchanged(r) \/ FailRun(r)
  <2>1. UNCHANGED stored /\ UNCHANGED excuse
    BY <1>6, EndingIsLocal
  <2> QED
    BY <1>3, <2>1 DEF NothingWorse, Plain, Of
<1>7. CASE Finish(r)
  <2>1. UNCHANGED stored
    BY <1>7, EndingIsLocal
  <2>2. \A d \in Docs : excuse[d] \subseteq excuse'[d] \union {"unrecorded"}
    <3>1. \/ excuse' = excuse
          \/ excuse' = [d \in Docs |-> IF d \in Named(r) THEN excuse[d] \ {"unrecorded"}
                                       ELSE excuse[d]]
      BY <1>7 DEF Finish
    <3> QED
      BY <3>1
  <2> QED
    BY <1>3, <2>1, <2>2 DEF NothingWorse, Plain, Of
<1>8. ASSUME NEW d \in Docs, IngestDoc(r, d) \/ SkipShort(r, d) \/ FailDoc(r, d)
      PROVE  StoresWell(r) /\ work[r] # Resting
  BY <1>8, <1>i, LoopingIsLocal, Fields DEF Loops
<1>9. ASSUME NEW d \in Docs, Retire(r, d) \/ RetireFails(r, d)
      PROVE  StoresWell(r) /\ work[r] # Resting
  BY <1>9, <1>i, RetiringIsLocal, Fields DEF Retires
<1> QED
  BY <1>4, <1>5, <1>6, <1>7, <1>8, <1>9 DEF Documents

\* A run that completes over an unchanged tree takes over what the last one said.
LEMMA UnchangedKnows ==
  ASSUME InlineInv, NEW r \in Runs, EndUnchanged(r)
  PROVE  /\ Lists(r) /\ AdapterOf(r) = "tree" /\ RunsWorkInv(r)
         /\ Backed(ConnectorOf[r], work[r].at, {})
         /\ cursor'[r].at = work[r].at /\ cursor'[r].synced = {}
<1>i. WorkOK /\ WorkTypes /\ WorkInv
  BY DEF InlineInv
<1>1. Lists(r) /\ AdapterOf(r) = "tree" /\ work[r].prevAt = work[r].at
  BY DEF EndUnchanged, Lists, SameTree
<1>2. RunsWorkInv(r)
  BY <1>1, <1>i, Fields DEF WorkInv, Lists
<1>3. Backed(ConnectorOf[r], work[r].at, work[r].prev)
  BY <1>1, <1>2 DEF RunsWorkInv
<1>4. cursor' = [cursor EXCEPT ![r] = [NoCursor EXCEPT !.at = work[r].at]]
  BY DEF EndUnchanged
<1>5. cursor'[r] = [NoCursor EXCEPT !.at = work[r].at]
  BY <1>4, <1>i DEF WorkOK
<1> QED
  BY <1>1, <1>2, <1>3, <1>5 DEF Backed, NoCursor

\* A run that completes after its loop says what it listed, and that is stored.
LEMMA FinishKnows ==
  ASSUME InlineInv, NEW r \in Runs, Finish(r), ~work[r].failed
  PROVE  /\ Retires(r) /\ RunsWorkInv(r) /\ work[r].gone = {}
         /\ cursor'[r].at = work[r].at /\ cursor'[r].synced = Named(r)
         /\ Named(r) \subseteq Of(ConnectorOf[r])
         /\ AdapterOf(r) # "snapshot" => Named(r) = work[r].seen
         /\ Through(r, work[r].seen)
<1>i. WorkOK /\ WorkTypes /\ WorkInv
  BY DEF InlineInv
<1>1. Retires(r) /\ work[r].gone = {}
  BY DEF Finish, Retires
<1>2. RunsWorkInv(r)
  BY <1>1, <1>i, Fields DEF WorkInv, Retires
<1>3. /\ work[r].seen \union work[r].kept \subseteq Of(ConnectorOf[r])
      /\ work[r].kept # {} => adapter[ConnectorOf[r]] = "snapshot"
      /\ Through(r, work[r].seen)
  BY <1>1, <1>2 DEF RunsWorkInv
<1>4. cursor' = [cursor EXCEPT ![r] = [NoCursor EXCEPT !.at = work[r].at, !.synced = Named(r)]]
  BY DEF Finish
<1>5. cursor'[r] = [NoCursor EXCEPT !.at = work[r].at, !.synced = Named(r)]
  BY <1>4, <1>i DEF WorkOK
<1>6. cursor'[r].at = work[r].at /\ cursor'[r].synced = Named(r)
  BY <1>5 DEF NoCursor
<1> QED
  BY <1>1, <1>2, <1>3, <1>6 DEF Named, AdapterOf

\* The cursor a run completes with is backed, then and there.
LEMMA OwnCursorBacked ==
  ASSUME Engaged, InlineInv, NEW r \in Runs,
         EndUnchanged(r) \/ (Finish(r) /\ ~work[r].failed)
  PROVE  BackedThen(ConnectorOf[r], cursor'[r].at, cursor'[r].synced)
<1> DEFINE c == ConnectorOf[r]
<1>i. WorkOK /\ WorkTypes
  BY DEF InlineInv
<1>1. UNCHANGED stored /\ UNCHANGED source /\ UNCHANGED <<adapter, clock, listed, edited>>
  BY EndingIsLocal DEF Local, source
<1>t. clock \in Nat /\ edited \in [Docs -> 1..clock] /\ listed \subseteq Docs
  BY <1>i DEF WorkOK
<1>2. CASE EndUnchanged(r)
  <2>1. Backed(c, cursor'[r].at, cursor'[r].synced)
    BY <1>2, UnchangedKnows
  <2>2. NothingWorse(c)
    BY <1>1, <1>2, EndingIsLocal DEF NothingWorse, Plain
  <2> QED
    BY <1>i, <1>1, <2>1, <2>2, NothingWorseKeepsBacked
<1>3. CASE Finish(r) /\ ~work[r].failed
  <2>1. /\ Retires(r) /\ RunsWorkInv(r)
        /\ cursor'[r].at = work[r].at /\ cursor'[r].synced = Named(r)
        /\ Named(r) \subseteq Of(c)
        /\ AdapterOf(r) # "snapshot" => Named(r) = work[r].seen
        /\ Through(r, work[r].seen)
    BY <1>3, FinishKnows
  <2>2. /\ work[r].at <= work[r].since /\ work[r].since <= clock
        /\ adapter[c] = "tree" => work[r].at = work[r].since
        /\ work[r].since = clock => work[r].seen = Listing(c)
    BY <2>1 DEF RunsWorkInv
  <2>3. work[r].since \in Nat /\ work[r].at \in Nat
    BY <1>i, <2>1, Numbers, Fields DEF Retires
  <2>4. work[r].at <= clock
    BY <1>t, <2>2, <2>3
  <2>5. \A d \in Docs : excuse'[d] \subseteq {"unrecorded"} => Plain(d)
    <3>1. \/ excuse' = excuse
          \/ excuse' = [d \in Docs |-> IF d \in Named(r) THEN excuse[d] \ {"unrecorded"}
                                       ELSE excuse[d]]
      BY <1>3 DEF Finish
    <3> QED
      BY <3>1 DEF Plain
  <2>6. ASSUME NEW d \in work[r].seen, d \in Docs, excuse'[d] \subseteq {"unrecorded"},
               edited[d] <= work[r].since
        PROVE  stored[d] = edited[d]
    <3>1. edited[d] > work[r].since \/ stored[d] = edited[d]
      BY <2>1, <2>5, <2>6 DEF Through
    <3> QED
      BY <1>t, <2>3, <2>6, <3>1
  <2>7. ASSUME adapter[c] = "stamped", NEW d \in Named(r), edited[d] <= work[r].at,
               excuse'[d] \subseteq {"unrecorded"}
        PROVE  stored[d] = edited[d]
    <3>1. d \in work[r].seen /\ d \in Docs
      BY <2>1, <2>7 DEF AdapterOf, Of
    <3>2. edited[d] <= work[r].since
      BY <1>t, <2>2, <2>3, <2>7, <3>1
    <3> QED
      BY <2>6, <2>7, <3>1, <3>2
  <2>8. ASSUME adapter[c] = "tree", work[r].at = clock, NEW d \in listed, SourceOf[d] = c,
               excuse'[d] \subseteq {"unrecorded"}
        PROVE  stored[d] = edited[d]
    <3>1. work[r].since = clock /\ d \in work[r].seen /\ d \in Docs
      BY <1>t, <2>2, <2>8 DEF Listing
    <3>2. edited[d] <= work[r].since
      BY <1>t, <3>1
    <3> QED
      BY <2>6, <2>8, <3>1, <3>2
  <2> QED
    BY <1>1, <2>1, <2>4, <2>7, <2>8 DEF BackedThen
<1> QED
  BY <1>2, <1>3

\* Which rows a run at work completes: its own, when its documents say so.
LEMMA WhoCompletes ==
  ASSUME Engaged, InlineInv, NEW r \in Runs, Documents(r)
  PROVE  /\ status[r] = "running"
         /\ status'[r] = "completed" => EndUnchanged(r) \/ (Finish(r) /\ ~work[r].failed)
         /\ \A s \in Runs : status[s] = "completed" =>
              s # r /\ status'[s] = "completed" /\ cursor'[s] = cursor[s]
<1>i. WorkOK /\ WorkTypes
  BY DEF InlineInv
<1>1. status[r] = "running"
  BY <1>i, DocumentsAreWork, WorksAlone
<1>2. Local(r)
  BY DocumentsAreLocal
<1>3. CASE EndUnchanged(r) \/ Finish(r) \/ FailRun(r)
  BY <1>1, <1>2, <1>3 DEF EndUnchanged, Finish, FailRun, Local
<1>4. CASE ReadCursors(r) \/ List(r) \/ Checkpoint(r) \/ EndLoop(r)
  <2>1. UNCHANGED status
    BY <1>4, ReadingIsLocal DEF vars, rows
  <2> QED
    BY <1>1, <1>2, <2>1 DEF Local
<1>5. ASSUME NEW d \in Docs,
             \/ IngestDoc(r, d) \/ SkipShort(r, d) \/ FailDoc(r, d)
             \/ Retire(r, d) \/ RetireFails(r, d)
      PROVE  UNCHANGED status
  BY <1>5, LoopingIsLocal, RetiringIsLocal DEF vars, rows
<1> QED
  BY <1>1, <1>2, <1>3, <1>4, <1>5 DEF Documents, Local

\* Work on documents keeps every completed run's cursor backed.
LEMMA DocumentsKeepCursors ==
  ASSUME Engaged, InlineInv, NEW r \in Runs, Documents(r), WorkTypes', BeganInv'
  PROVE  CursorInv'
<1> SUFFICES ASSUME NEW s \in Runs, status'[s] = "completed"
             PROVE  BackedThen(ConnectorOf[s], cursor'[s].at, cursor'[s].synced)
  BY DEF CursorInv, Backed, BackedThen, Plain, Listing, Of
<1>1. CASE ConnectorOf[s] # ConnectorOf[r]
  BY <1>1, ElsewhereStays
<1>2. CASE ConnectorOf[s] = ConnectorOf[r] /\ s # r
  <2>1. status[s] = "completed" /\ cursor'[s] = cursor[s]
    BY <1>2, DocumentsAreLocal DEF Local
  <2> QED
    BY <1>2, <2>1, EarlierStaysBacked
<1>3. CASE s = r
  BY <1>3, WhoCompletes, OwnCursorBacked
<1> QED
  BY <1>1, <1>2, <1>3

\* Work on documents keeps what every run at work knows.
LEMMA DocumentsKeepWork ==
  ASSUME Engaged, InlineInv, NEW r \in Runs, Documents(r), WorkTypes', BeganInv'
  PROVE  WorkInv'
<1> SUFFICES ASSUME NEW q \in Runs, work'[q] # Resting PROVE RunsWorkInv(q)'
  BY DEF WorkInv, Resting
<1>i. WorkTypes
  BY DEF InlineInv
<1>1. CASE q # r
  BY <1>1, ElsewhereStays
<1>2. ASSUME EndUnchanged(r) \/ Finish(r) \/ FailRun(r) PROVE work'[r] = Resting
  BY <1>2, <1>i, RestWay DEF EndUnchanged, Finish, FailRun
<1>3. CASE ReadCursors(r) \/ List(r) \/ Checkpoint(r) \/ EndLoop(r)
  <2>1. RunsWorkInv(r)'
    BY <1>3, ReadingKnows, ListingKnows, CheckpointKnows, EndLoopKnows
  <2> QED
    BY <1>1, <2>1
<1>4. ASSUME NEW d \in Docs,
             \/ IngestDoc(r, d) \/ SkipShort(r, d) \/ FailDoc(r, d)
             \/ Retire(r, d) \/ RetireFails(r, d)
      PROVE  RunsWorkInv(r)'
  BY <1>4, LoopingKnows, RetiringKnows
<1> QED
  BY <1>1, <1>2, <1>3, <1>4 DEF Documents

-----------------------------------------------------------------------------
(* What is stored is recorded. *)

\* If the cursors of completed runs and their order stay, so does the last of them.
LEMMA DoneKept ==
  ASSUME Engaged, InlineInv, NEW r \in Runs, Documents(r), WorkTypes', BeganInv',
         status'[r] # "completed"
  PROVE  Done(ConnectorOf[r])' = Done(ConnectorOf[r])
<1> DEFINE c == ConnectorOf[r]
<1>1. \A s \in RunsOf(c) : status'[s] = "completed" <=> status[s] = "completed"
  BY WhoCompletes, DocumentsAreLocal DEF Local, RunsOf
<1>2. \A s \in CompletedRuns(c) : cursor'[s] = cursor[s] /\ began'[s] = began[s]
  BY WhoCompletes, DocumentsAreLocal DEF Local, CompletedRuns, RunsOf
<1>3. c \in Connectors /\ WorkTypes /\ BeganInv
  BY RunsAssumption DEF InlineInv
<1> QED
  BY <1>1, <1>2, <1>3, DoneStays

\* A run that completes, opened after all others, becomes the last one.
LEMMA NewestBecomesLast ==
  ASSUME Engaged, InlineInv, NEW r \in Runs, Documents(r), WorkTypes', BeganInv',
         status'[r] = "completed",
         \A s \in RunsOf(ConnectorOf[r]) : status[s] = "completed" => began[s] < began[r]
  PROVE  Done(ConnectorOf[r])' = cursor'[r]
<1> DEFINE c == ConnectorOf[r]
<1>0. WorkTypes' /\ BeganInv' => DoneIsLast'
  BY DoneIs, PTL
<1>1. UNCHANGED began /\ \A s \in Runs \ {r} : status'[s] = status[s]
  BY DocumentsAreLocal DEF Local
<1>2. began \in [Runs -> Nat] /\ c \in Connectors
  BY RunsAssumption DEF InlineInv, WorkTypes
<1>3. r \in CompletedRuns(c)'
  BY DEF CompletedRuns, RunsOf
<1>4. ASSUME NEW q \in CompletedRuns(c)' PROVE began'[q] <= began'[r]
  <2>1. q \in Runs /\ q \in RunsOf(c) /\ status'[q] = "completed"
    BY <1>4 DEF CompletedRuns, RunsOf
  <2>2. q = r \/ began[q] < began[r]
    BY <1>1, <2>1
  <2> QED
    BY <1>1, <1>2, <2>1, <2>2
<1>5. LastDone(c, r)'
  BY <1>3, <1>4 DEF LastDone
<1> QED
  BY <1>0, <1>2, <1>5 DEF DoneIsLast

\* A run that completes after one opened later has completed does not.
LEMMA LaterStaysLast ==
  ASSUME Engaged, InlineInv, NEW r \in Runs, Documents(r), WorkTypes', BeganInv',
         status'[r] = "completed",
         NEW s \in RunsOf(ConnectorOf[r]), status[s] = "completed", ~(began[s] < began[r])
  PROVE  Done(ConnectorOf[r])' = Done(ConnectorOf[r])
<1> DEFINE c == ConnectorOf[r]
<1>0. WorkTypes' /\ BeganInv' => DoneIsLast'
  BY DoneIs, PTL
<1>i. WorkTypes /\ BeganInv
  BY DEF InlineInv
<1>1. UNCHANGED began /\ \A q \in Runs \ {r} : status'[q] = status[q]
  BY DocumentsAreLocal DEF Local
<1>2. began \in [Runs -> Nat] /\ c \in Connectors /\ s \in Runs
  BY <1>i, RunsAssumption DEF WorkTypes, RunsOf
<1>3. DoneIsLast /\ DoneIsLast'
  BY <1>0, <1>i, DoneIs
<1>4. s \in CompletedRuns(c)
  BY DEF CompletedRuns
<1>5. PICK m \in Runs : LastDone(c, m)
  BY <1>2, <1>3, <1>4 DEF DoneIsLast
<1>6. m \in CompletedRuns(c) /\ \A q \in CompletedRuns(c) : began[q] <= began[m]
  BY <1>5 DEF LastDone
<1>7. status[m] = "completed" /\ ConnectorOf[m] = c
  BY <1>6 DEF CompletedRuns, RunsOf
<1>8. m # r /\ status'[m] = "completed" /\ cursor'[m] = cursor[m]
  BY <1>7, WhoCompletes
<1>9. began[r] <= began[m]
  <2>1. began[s] <= began[m]
    BY <1>4, <1>6
  <2> QED
    BY <1>2, <2>1
<1>10. ASSUME NEW q \in CompletedRuns(c)' PROVE began'[q] <= began'[m]
  <2>1. q = r \/ q \in CompletedRuns(c)
    BY <1>1, <1>10 DEF CompletedRuns, RunsOf
  <2> QED
    BY <1>1, <1>6, <1>9, <2>1
<1>11. m \in CompletedRuns(c)'
  BY <1>7, <1>8 DEF CompletedRuns, RunsOf
<1>12. LastDone(c, m)'
  BY <1>10, <1>11 DEF LastDone
<1>13. Done(c) = cursor[m]
  BY <1>2, <1>3, <1>5 DEF DoneIsLast
<1>14. Done(c)' = cursor'[m]
  BY <1>2, <1>3, <1>12 DEF DoneIsLast
<1> QED
  BY <1>8, <1>13, <1>14

\* A run that completes records what it found stored, or a later one already has.
LEMMA FinishRecords ==
  ASSUME Engaged, InlineInv, NEW r \in Runs, Finish(r), ~work[r].failed, WorkTypes', BeganInv',
         NEW d \in Docs, SourceOf[d] = ConnectorOf[r], AdapterOf(r) = "snapshot",
         stored[d] # 0, "unrecorded" \notin excuse'[d]
  PROVE  d \in Done(ConnectorOf[r])'.synced
<1> DEFINE c == ConnectorOf[r]
           newest == \A s \in RunsOf(c) : status[s] = "completed" => began[s] < began[r]
<1>i. StoredIsRecorded /\ excuse \in [Docs -> SUBSET Excuses] /\ status \in [Runs -> Statuses]
  BY DEF InlineInv, WorkOK, Engaged, TypeOK
<1>d. Documents(r)
  BY DEF Documents
<1>1. /\ Retires(r) /\ RunsWorkInv(r) /\ work[r].gone = {}
      /\ cursor'[r].synced = Named(r)
  BY FinishKnows
<1>2. status'[r] = "completed"
  BY DEF Finish
<1>3. CASE newest
  <2>1. Done(c)'.synced = Named(r)
    BY <1>d, <1>1, <1>2, <1>3, NewestBecomesLast
  <2>2. CASE d \notin Named(r)
    <3>1. excuse'[d] = excuse[d]
      BY <1>3, <2>2 DEF Finish
    <3>2. d \in work[r].seen \union work[r].gone \union work[r].kept
      BY <1>1, <3>1 DEF RunsWorkInv, AdapterOf, Of
    <3> QED
      BY <1>1, <2>1, <3>2 DEF Named
  <2> QED
    BY <2>1, <2>2
<1>4. CASE ~newest
  <2>1. excuse' = excuse
    BY <1>4 DEF Finish
  <2>2. Done(c)' = Done(c)
    BY <1>d, <1>2, <1>4, LaterStaysLast
  <2> QED
    BY <1>i, <2>1, <2>2 DEF StoredIsRecorded, AdapterOf
<1> QED
  BY <1>3, <1>4

\* Work on documents records what it stores, or notes that it is not recorded.
LEMMA DocumentsKeepRecorded ==
  ASSUME Engaged, InlineInv, NEW r \in Runs, Documents(r), WorkTypes', BeganInv'
  PROVE  StoredIsRecorded'
<1> SUFFICES ASSUME NEW d \in Docs, adapter'[SourceOf[d]] = "snapshot", stored'[d] # 0,
                    "unrecorded" \notin excuse'[d]
             PROVE  d \in Done(SourceOf[d])'.synced
  BY DEF StoredIsRecorded
<1> DEFINE c == ConnectorOf[r]
<1>i. WorkOK /\ StoredIsRecorded
  BY DEF InlineInv
<1>t. stored \in [Docs -> 0..clock] /\ excuse \in [Docs -> SUBSET Excuses]
  BY <1>i DEF WorkOK
<1>1. CASE SourceOf[d] # c
  BY <1>1, ElsewhereStays
<1>2. CASE SourceOf[d] = c
  <2>1. AdapterOf(r) = "snapshot" /\ adapter[SourceOf[d]] = "snapshot"
    BY <1>2, DocumentsAreLocal DEF Local, source, AdapterOf
  <2>2. status'[r] # "completed" => Done(c)' = Done(c)
    BY DoneKept
  <2>3. ASSUME UNCHANGED status PROVE Done(c)' = Done(c)
    BY <2>2, <2>3, WhoCompletes
  <2>4. ASSUME Done(c)' = Done(c), stored[d] # 0, "unrecorded" \notin excuse[d]
        PROVE  d \in Done(SourceOf[d])'.synced
    BY <1>2, <1>i, <2>1, <2>4 DEF StoredIsRecorded
  <2>5. CASE ReadCursors(r) \/ List(r) \/ Checkpoint(r) \/ EndLoop(r)
    <3>1. UNCHANGED status /\ UNCHANGED stored /\ excuse[d] \subseteq excuse'[d]
      BY <2>5, ReadingIsLocal DEF vars, rows
    <3> QED
      BY <2>3, <2>4, <3>1
  <2>6. ASSUME NEW e \in Docs, Retire(r, e) \/ RetireFails(r, e)
        PROVE  d \in Done(SourceOf[d])'.synced
    <3>1. /\ UNCHANGED status /\ UNCHANGED excuse
          /\ stored'[e] \in {stored[e], 0} /\ \A f \in Docs \ {e} : stored'[f] = stored[f]
      BY <2>6, RetiringIsLocal DEF vars, rows
    <3>2. stored[d] # 0
      BY <3>1
    <3> QED
      BY <2>3, <2>4, <3>1, <3>2
  <2>7. ASSUME NEW e \in Docs, IngestDoc(r, e) \/ SkipShort(r, e) \/ FailDoc(r, e)
        PROVE  d \in Done(SourceOf[d])'.synced
    <3>1. /\ UNCHANGED status
          /\ \A f \in Docs \ {e} : stored'[f] = stored[f] /\ excuse'[f] = excuse[f]
      BY <2>7, LoopingIsLocal DEF vars, rows
    <3>2. CASE d # e
      BY <2>3, <2>4, <3>1, <3>2
    <3>3. ASSUME d = e, Unrecorded(d) \subseteq excuse'[d] PROVE d \in Done(c).synced
      BY <1>2, <3>3 DEF Unrecorded
    <3>4. ASSUME d = e, UNCHANGED stored, excuse[d] \subseteq excuse'[d]
          PROVE  d \in Done(SourceOf[d])'.synced
      BY <2>3, <2>4, <3>1, <3>4
    <3>5. CASE d = e /\ IngestDoc(r, e)
      <4>1. Unrecorded(d) \subseteq excuse'[d]
        BY <1>t, <3>5 DEF IngestDoc
      <4> QED
        BY <1>2, <2>3, <3>1, <3>3, <3>5, <4>1
    <3>6. CASE d = e /\ SkipShort(r, e)
      BY <1>t, <3>4, <3>6 DEF SkipShort, Excused
    <3>7. CASE d = e /\ FailDoc(r, e)
      <4>1. UNCHANGED <<stored, excuse>> \/ Unrecorded(d) \subseteq excuse'[d]
        BY <1>t, <3>7 DEF FailDoc
      <4> QED
        BY <1>2, <2>3, <3>1, <3>3, <3>4, <3>7, <4>1
    <3> QED
      BY <2>7, <3>2, <3>5, <3>6, <3>7
  <2>8. CASE EndUnchanged(r)
    BY <2>1, <2>8, UnchangedKnows
  <2>9. CASE FailRun(r) \/ (Finish(r) /\ work[r].failed)
    <3>1. status'[r] = "failed" /\ UNCHANGED excuse
      BY <2>9 DEF FailRun, Finish
    <3>2. UNCHANGED stored
      BY <2>9, EndingIsLocal
    <3> QED
      BY <2>2, <2>4, <3>1, <3>2
  <2>10. CASE Finish(r) /\ ~work[r].failed
    <3>1. UNCHANGED stored
      BY <2>10, EndingIsLocal
    <3> QED
      BY <1>2, <2>1, <2>10, <3>1, FinishRecords
  <2> QED
    BY <2>5, <2>6, <2>7, <2>8, <2>9, <2>10 DEF Documents
<1> QED
  BY <1>1, <1>2

-----------------------------------------------------------------------------
(* The invariant, and what follows from it *)

\* Before anything has run, nothing is stored and nothing is claimed.
LEMMA InlineInvInitially == InlineInit => InlineInv
<1> SUFFICES ASSUME InlineInit PROVE InlineInv
  OBVIOUS
<1>1. /\ adapter \in Adapters /\ clock = 1 /\ listed = Docs /\ edited = [d \in Docs |-> 1]
      /\ stored = [d \in Docs |-> 0] /\ began = [r \in Runs |-> 0]
      /\ cursor = [r \in Runs |-> NoCursor] /\ work = [r \in Runs |-> Resting]
      /\ excuse = [d \in Docs |-> {}]
  BY DEF InlineInit
<1>2. status = [r \in Runs |-> "unused"] /\ opening = [k \in Callers |-> {}]
  BY DEF InlineInit, Init
<1>3. NoCursor \in Cursors
  BY DEF NoCursor, Cursors
<1>4. WorkOK
  BY <1>1, <1>3 DEF WorkOK
<1>5. clock \in 1..(MaxChanges + 1) /\ MaxOpened \in Nat
  BY <1>1, ChangesAssumption
<1>6. WorkTypes
  BY <1>1, <1>5 DEF WorkTypes, Stages
<1>7. BeganInv
  BY <1>1, <1>2, <1>5 DEF BeganInv
<1>8. CursorInv
  BY <1>2 DEF CursorInv
<1>9. WorkInv
  BY <1>1 DEF WorkInv
<1>10. StoredIsRecorded
  BY <1>1 DEF StoredIsRecorded
<1> QED
  BY <1>4, <1>6, <1>7, <1>8, <1>9, <1>10 DEF InlineInv

\* Every step keeps it, while the engine keeps its own.
LEMMA InlineInvStays ==
  ASSUME Engaged, InlineInv, [InlineNext]_all
  PROVE  InlineInv'
<1>1. WorkOK' /\ WorkTypes' /\ BeganInv'
  BY TypesStay
<1>2. CASE SourceMoves
  BY <1>1, <1>2, SourceKeepsWork DEF InlineInv
<1>3. CASE EngineMoves
  BY <1>1, <1>3, EngineKeepsWork DEF InlineInv
<1>4. ASSUME NEW r \in Runs, Documents(r) PROVE InlineInv'
  BY <1>1, <1>4, DocumentsKeepCursors, DocumentsKeepWork, DocumentsKeepRecorded DEF InlineInv
<1> QED
  BY <1>2, <1>3, <1>4, EveryStep

\* What the engine guarantees holds of every run of InlineSync.
LEMMA AlwaysEngaged == InlineSpec => []Engaged
BY InlineImplementsEngine, TypeCorrect, LedgerInvariant, EngineRespectsLimits, PTL DEF Engaged

\* The inductive invariant: the types, the order in which runs were opened, what completed
\* runs' cursors say of the knowledge base, and what a run at work knows.
THEOREM InlineInvariant == InlineSpec => []InlineInv
<1>1. InlineInit => InlineInv
  BY InlineInvInitially
<1>2. Engaged /\ InlineInv /\ [InlineNext]_all => InlineInv'
  BY InlineInvStays
<1> QED
  BY <1>1, <1>2, AlwaysEngaged, PTL DEF InlineSpec

\* Every variable stays in its domain, and only a run that has a slot has work.
THEOREM DocumentsTypeCorrect == InlineSpec => []WorkOK
<1>1. InlineInv => WorkOK
  BY DEF InlineInv
<1> QED
  BY <1>1, InlineInvariant, PTL

\* What the knowledge base holds of a source with complete listings is known to the cursor the
\* next retirement goes by, so nothing is left behind for good.
THEOREM WhatIsStoredIsRecorded == InlineSpec => []StoredIsRecorded
<1>1. InlineInv => StoredIsRecorded
  BY DEF InlineInv
<1> QED
  BY <1>1, InlineInvariant, PTL

\* What the next run passes over as unchanged is in the knowledge base as it is at the source.
THEOREM WhatIsUnchangedIsStored == InlineSpec => []UnchangedIsStored
<1>1. ASSUME InlineInv PROVE UnchangedIsStored
  <2> SUFFICES ASSUME NEW d \in listed,
                      \/ /\ adapter[SourceOf[d]] = "stamped"
                         /\ d \in Done(SourceOf[d]).synced
                         /\ edited[d] <= Done(SourceOf[d]).at
                      \/ adapter[SourceOf[d]] = "tree" /\ Done(SourceOf[d]).at = clock,
                      Plain(d)
               PROVE  stored[d] = edited[d]
    BY DEF UnchangedIsStored, Plain
  <2>1. d \in Docs /\ SourceOf[d] \in Connectors
    BY <1>1, SourcesAssumption DEF InlineInv, WorkOK
  <2>2. Backed(SourceOf[d], Done(SourceOf[d]).at, Done(SourceOf[d]).synced)
    BY <1>1, <2>1, DoneBacked
  <2>3. d \in Listing(SourceOf[d])
    BY DEF Listing
  <2> QED
    BY <2>2, <2>3 DEF Backed
<1> QED
  BY <1>1, InlineInvariant, PTL

\* Of a run that completes while its source stayed as it was, the step.
Mirrors(r) ==
  task[r] = "working" /\ status'[r] = "completed" /\ work[r].since = clock =>
    \A d \in Docs : SourceOf[d] = ConnectorOf[r] =>
      IF d \in listed
      THEN excuse[d] \subseteq {"unrecorded"} => stored[d] = edited[d]
      ELSE AdapterOf(r) = "snapshot" /\ work[r].kept = {} /\ "unrecorded" \notin excuse[d] =>
             stored[d] = 0

\* Only a run over an unchanged tree, or one through its loop, completes.
LEMMA CompletingMirrors ==
  ASSUME Engaged, InlineInv, [InlineNext]_all, NEW r \in Runs
  PROVE  Mirrors(r)
<1> SUFFICES ASSUME task[r] = "working", status'[r] = "completed", work[r].since = clock,
                    NEW d \in Docs, SourceOf[d] = ConnectorOf[r]
             PROVE  IF d \in listed
                    THEN excuse[d] \subseteq {"unrecorded"} => stored[d] = edited[d]
                    ELSE /\ AdapterOf(r) = "snapshot" /\ work[r].kept = {}
                         /\ "unrecorded" \notin excuse[d]
                         => stored[d] = 0
  BY DEF Mirrors
<1> DEFINE c == ConnectorOf[r]
<1>i. WorkOK
  BY DEF InlineInv
<1>t. clock \in Nat /\ edited[d] \in 1..clock
  BY <1>i DEF WorkOK
<1>1. status[r] = "running"
  BY <1>i, WorksAlone
<1>2. Documents(r)
  <2>1. ~SourceMoves /\ ~EngineMoves
    BY <1>1 DEF SourceMoves, EngineMoves, vars, rows
  <2>2. PICK q \in Runs : Documents(q)
    BY <2>1, EveryStep
  <2>3. q = r
    BY <1>1, <2>2, DocumentsAreLocal DEF Local
  <2> QED
    BY <2>2, <2>3
<1>3. CASE EndUnchanged(r)
  <2>1. /\ Lists(r) /\ AdapterOf(r) = "tree" /\ RunsWorkInv(r)
        /\ Backed(c, work[r].at, {})
    BY <1>3, UnchangedKnows
  <2>2. work[r].at = clock
    BY <2>1 DEF RunsWorkInv, AdapterOf
  <2> QED
    BY <2>1, <2>2 DEF Backed, Listing, Plain, AdapterOf
<1>4. CASE Finish(r) /\ ~work[r].failed
  <2>1. Retires(r) /\ RunsWorkInv(r) /\ work[r].gone = {} /\ Through(r, work[r].seen)
    BY <1>4, FinishKnows
  <2>2. work[r].seen = Listing(c)
    BY <2>1 DEF RunsWorkInv
  <2>3. CASE d \in listed
    <3>1. Plain(d) => edited[d] > work[r].since \/ stored[d] = edited[d]
      BY <2>1, <2>2, <2>3 DEF Through, Listing
    <3> QED
      BY <1>t, <2>3, <3>1 DEF Plain
  <2>4. CASE d \notin listed
    <3>1. d \notin work[r].seen
      BY <2>2, <2>4 DEF Listing
    <3> QED
      BY <1>4, <2>1, <2>4, <3>1 DEF RunsWorkInv, AdapterOf, Of
  <2> QED
    BY <2>3, <2>4
<1> QED
  BY <1>1, <1>2, <1>3, <1>4, WhoCompletes

\* A run that completes while the source stayed as it was leaves the knowledge base as the
\* source is, but for the known gaps.
THEOREM CompletedRunsMirrorTheSource == InlineSpec => MirrorsSource
<1>1. ASSUME Engaged, InlineInv, [InlineNext]_all PROVE [\A r \in Runs : Mirrors(r)]_all
  BY <1>1, CompletingMirrors
<1>2. MirrorsSource <=> [][\A r \in Runs : Mirrors(r)]_all
  BY DEF MirrorsSource, Mirrors
<1> QED
  BY <1>1, <1>2, AlwaysEngaged, InlineInvariant, PTL DEF InlineSpec

=============================================================================
