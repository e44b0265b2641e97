------------------------ MODULE ReplacePoints_proofs ------------------------
(* What _replace_points guarantees for any number of calls, versions, chunks *)
(* and batches, each batch holding what it read.                             *)
EXTENDS ReplacePoints, TLAPS

USE DEF Steps

\* A call that has not begun has read no ids, and one that goes on has points to write.
ReadyInv == \A w \in Calls :
  /\ pc[w] = "idle" => staleIds[w] = {}
  /\ pc[w] \in {"batched", "reading", "read"} /\ w \notin Whole => batch[w] # <<>>

\* What a call writes are points of its own, of which there is at least one.
LEMMA OwnPoints ==
  ASSUME TypeOK, NEW w \in Calls
  PROVE  /\ PointsOf(w) \subseteq Point
         /\ \A p \in PointsOf(w) : p[1] = w
         /\ w \in Whole \/ batch[w] # <<>> => PointsOf(w) # {}
<1>1. CASE w \in Whole
  <2>1. /\ VersionOf[w] \in Artifacts /\ ChunksOf[VersionOf[w]] \subseteq Nat
        /\ ChunksOf[VersionOf[w]] # {}
    BY VersionsAssumption
  <2>2. PointsOf(w) = {<<w, i, i>> : i \in ChunksOf[VersionOf[w]]}
    BY <1>1 DEF PointsOf
  <2>3. PointsOf(w) \subseteq Point
    BY <2>1, <2>2 DEF Point
  <2>4. \A p \in PointsOf(w) : p[1] = w
    BY <2>2
  <2>5. PointsOf(w) # {}
    BY <2>1, <2>2
  <2> QED
    BY <2>3, <2>4, <2>5
<1>2. CASE w \notin Whole
  <2>1. batch[w] \in Seq(Nat) /\ OffsetOf[w] \in Nat
    BY VersionsAssumption DEF TypeOK
  <2>2. PointsOf(w) = {<<w, OffsetOf[w] + j - 1, batch[w][j]>> : j \in DOMAIN batch[w]}
    BY <1>2 DEF PointsOf
  <2>3. \A j \in DOMAIN batch[w] : OffsetOf[w] + j - 1 \in Nat /\ batch[w][j] \in Nat
    BY <2>1
  <2>4. batch[w] # <<>> => 1 \in DOMAIN batch[w]
    BY <2>1
  <2>5. PointsOf(w) \subseteq Point
    BY <2>2, <2>3 DEF Point
  <2>6. \A p \in PointsOf(w) : p[1] = w
    BY <2>2
  <2>7. batch[w] # <<>> => PointsOf(w) # {}
    BY <2>2, <2>4
  <2> QED
    BY <1>2, <2>5, <2>6, <2>7
<1> QED
  BY <1>1, <1>2

\* What a call writes, and which points it replaces, follow from what it has read.
LEMMA SameBatch ==
  ASSUME NEW w \in Calls, batch'[w] = batch[w]
  PROVE  /\ PointsOf(w)' = PointsOf(w)
         /\ Misread(w)' <=> Misread(w)
         /\ \A p : Matches(w, p)' <=> Matches(w, p)
<1>1. PointsOf(w)' = PointsOf(w)
  BY DEF PointsOf
<1> QED
  BY <1>1 DEF Misread, Matches, Range

\* Reading a batch gives a call that had not begun at least one text.
LEMMA BatchRead ==
  ASSUME TypeOK, NEW w \in Calls, ReadBatch(w)
  PROVE  \E b \in Seq(Nat) : b # <<>> /\ batch' = [batch EXCEPT ![w] = b]
<1>1. PICK n \in 1 .. BatchSize : \E found \in [1 .. n -> InRange(w)] :
        batch' = [batch EXCEPT ![w] = [j \in 1 .. n |-> found[j][3]]]
  BY DEF ReadBatch
<1>2. PICK found \in [1 .. n -> InRange(w)] :
        batch' = [batch EXCEPT ![w] = [j \in 1 .. n |-> found[j][3]]]
  BY <1>1
<1>3. \A p \in InRange(w) : p[3] \in Nat
  BY DEF InRange, TypeOK, Point
<1>4. n \in Nat /\ n >= 1
  BY VersionsAssumption
<1> DEFINE b == [j \in 1 .. n |-> found[j][3]]
<1>5. b \in [1 .. n -> Nat]
  BY <1>3
<1>6. b \in Seq(Nat)
  BY <1>4, <1>5
<1>7. b # <<>>
  BY <1>4, <1>6
<1> QED
  BY <1>2, <1>6, <1>7

LEMMA TypeInvariant == Spec => [](TypeOK /\ ReadyInv)
<1>1. Init => TypeOK /\ ReadyInv
  <2> SUFFICES ASSUME Init PROVE TypeOK /\ ReadyInv
    OBVIOUS
  <2>1. batch \in [Calls -> Seq(Nat)]
    BY DEF Init
  <2> QED
    BY <2>1 DEF Init, TypeOK, ReadyInv
<1>2. TypeOK /\ ReadyInv /\ [Next]_vars => TypeOK' /\ ReadyInv'
  <2> SUFFICES ASSUME TypeOK, ReadyInv, [Next]_vars PROVE TypeOK' /\ ReadyInv'
    OBVIOUS
  <2>m. ASSUME UNCHANGED batch
        PROVE  \A v \in Calls : \A p : Matches(v, p)' <=> Matches(v, p)
    BY <2>m, SameBatch
  <2>1. ASSUME NEW w \in Calls, ReadBatch(w) PROVE TypeOK' /\ ReadyInv'
    <3>1. PICK b \in Seq(Nat) : b # <<>> /\ batch' = [batch EXCEPT ![w] = b]
      BY <2>1, BatchRead
    <3>2. /\ pc[w] = "idle" /\ pc' = [pc EXCEPT ![w] = "batched"] /\ disturbed' \in BOOLEAN
          /\ UNCHANGED <<points, staleIds, before, upserted>>
      BY <2>1 DEF ReadBatch, Starts, TypeOK
    <3>3. \A v \in Calls \ {w} : \A p \in staleIds[v] : Matches(v, p)'
      BY <3>1, SameBatch DEF TypeOK
    <3>4. staleIds[w] = {}
      BY <3>2 DEF ReadyInv
    <3> QED
      BY <3>1, <3>2, <3>3, <3>4 DEF TypeOK, ReadyInv
  <2>2. ASSUME NEW w \in Calls, EmptyBatch(w) PROVE TypeOK' /\ ReadyInv'
    BY <2>2, <2>m DEF EmptyBatch, Starts, TypeOK, ReadyInv
  <2>3. ASSUME NEW w \in Calls, Begin(w) PROVE TypeOK' /\ ReadyInv'
    BY <2>3, <2>m DEF Begin, Starts, Matching, TypeOK, ReadyInv
  <2>4. ASSUME NEW w \in Calls, ScrollNext(w) PROVE TypeOK' /\ ReadyInv'
    <3>1. PICK p \in points : Matches(w, p) /\ staleIds' = [staleIds EXCEPT ![w] = @ \union {p}]
      BY <2>4 DEF ScrollNext, Matching
    <3>2. pc[w] = "reading" /\ UNCHANGED <<points, pc, batch, before, upserted, disturbed>>
      BY <2>4 DEF ScrollNext
    <3> QED
      BY <2>m, <3>1, <3>2 DEF TypeOK, ReadyInv
  <2>5. ASSUME NEW w \in Calls, ScrollEnds(w) PROVE TypeOK' /\ ReadyInv'
    BY <2>5, <2>m DEF ScrollEnds, TypeOK, ReadyInv
  <2>6. ASSUME NEW w \in Calls, Upsert(w) PROVE TypeOK' /\ ReadyInv'
    BY <2>6, <2>m, OwnPoints DEF Upsert, Store, TypeOK, ReadyInv
  <2>7. ASSUME NEW w \in Calls, DeleteStale(w) PROVE TypeOK' /\ ReadyInv'
    BY <2>7, <2>m DEF DeleteStale, Remove, TypeOK, ReadyInv
  <2>8. ASSUME NEW w \in Calls, Fail(w) PROVE TypeOK' /\ ReadyInv'
    BY <2>8, <2>m, OwnPoints DEF Fail, Store, Remove, TypeOK, ReadyInv
  <2>9. CASE UNCHANGED vars
    BY <2>9, <2>m DEF vars, TypeOK, ReadyInv
  <2> QED
    BY <2>1, <2>2, <2>3, <2>4, <2>5, <2>6, <2>7, <2>8, <2>9 DEF Next
<1> QED
  BY <1>1, <1>2, PTL DEF Spec

\* Every state of the system is well typed, and a call's ids match its filter: the batch
\* the filter depends on is read before the first id and never again.
THEOREM TypeCorrect == Spec => []TypeOK
BY TypeInvariant, PTL

\* A call that has not written is in nobody's ids: no sibling can delete what it writes.
LEMMA FreshPointsAreSafe ==
  ASSUME SurvivorInv, NEW w \in Calls, pc[w] \notin {"written", "done", "failed"}
  PROVE  w \notin upserted /\ \A v \in Calls : \A p \in staleIds[v] : p[1] # w
BY DEF SurvivorInv, PointsAreOwned

\* A version stays mixed: a call reads its batch before it writes.
LEMMA MixedStays ==
  ASSUME TypeOK, upserted \subseteq upserted', \A w \in upserted : batch'[w] = batch[w],
         NEW a \in Artifacts, Mixed(a)
  PROVE  Mixed(a)'
<1>1. PICK w \in upserted : VersionOf[w] = a /\ Misread(w)
  BY DEF Mixed
<1>2. w \in Calls /\ Misread(w)'
  BY <1>1, SameBatch DEF TypeOK
<1> QED
  BY <1>1, <1>2 DEF Mixed

\* A step that leaves the points alone and lets no call reach "written" changes nothing.
LEMMA QuietStepKeepsSafe ==
  ASSUME TypeOK, SurvivorInv, UNCHANGED <<points, upserted>>,
         \A w \in upserted : batch'[w] = batch[w],
         \A v \in Calls : pc'[v] = "written" => pc[v] = "written" /\ staleIds'[v] = staleIds[v],
         \A v \in Calls : \A p \in staleIds'[v] : p \in staleIds[v] \/ p \in points,
         \A v \in upserted : pc'[v] = pc[v] \/ pc'[v] = "failed"
  PROVE  SurvivorInv'
<1>1. ASSUME NEW p, ~Doomed(p) PROVE ~Doomed(p)'
  BY <1>1 DEF Doomed
<1>2. \A w \in upserted : PointsOf(w)' = PointsOf(w)
  BY SameBatch DEF TypeOK
<1>3. \A a \in Artifacts : Mixed(a) => Mixed(a)'
  BY MixedStays
<1>4. WriterIsSafe'
  BY <1>1, <1>2 DEF SurvivorInv, WriterIsSafe
<1>5. VersionIsSafe'
  <2>1. \A a \in Artifacts : SafelyComplete(a) => SafelyComplete(a)'
    BY <1>1 DEF SafelyComplete
  <2>2. \A a \in Artifacts : SafelyMixed(a) => SafelyMixed(a)'
    BY <1>1, <1>3 DEF SafelyMixed
  <2> QED
    BY <2>1, <2>2 DEF SurvivorInv, VersionIsSafe
<1>6. PointsAreOwned'
  <2>1. \A p \in points : VersionOf[p[1]] \in Artifacts
    BY VersionsAssumption DEF TypeOK, Point
  <2> QED
    BY <1>3, <2>1 DEF SurvivorInv, PointsAreOwned
<1> QED
  BY <1>4, <1>5, <1>6 DEF SurvivorInv

\* What a call writes: chunk t at index t, unless its batch is misread.
LEMMA ExactPoints ==
  ASSUME NEW w \in Calls, ~Misread(w)
  PROVE  /\ \A p \in PointsOf(w) : p = <<w, p[2], p[2]>>
         /\ w \in Whole => \A t \in ChunksOf[VersionOf[w]] : <<w, t, t>> \in PointsOf(w)
BY DEF Misread, PointsOf

\* The step in which a call's points appear keeps, or makes, a version safe.
LEMMA StoreKeepsSafe ==
  ASSUME TypeOK, ReadyInv, SurvivorInv, NEW w \in Calls, pc[w] = "read", Store(w),
         UNCHANGED <<batch, staleIds>>,
         pc' = [pc EXCEPT ![w] = "written"] \/ pc' = [pc EXCEPT ![w] = "failed"]
  PROVE  SurvivorInv'
<1>t. pc \in [Calls -> Steps] /\ staleIds \in [Calls -> SUBSET Point] /\ upserted \subseteq Calls
      /\ points \subseteq Point
  BY DEF TypeOK
<1>f. w \notin upserted /\ \A v \in Calls : \A p \in staleIds[v] : p[1] # w
  BY FreshPointsAreSafe
<1>s. points' = points \union PointsOf(w) /\ upserted' = upserted \union {w}
  BY DEF Store
<1>p. PointsOf(w)' = PointsOf(w) /\ (Misread(w)' <=> Misread(w))
  BY SameBatch
<1>1. \A p \in PointsOf(w) : p \in points' /\ ~Doomed(p)' /\ p[1] = w
  BY <1>f, <1>s, OwnPoints DEF Doomed
<1>2. \A p \in points : ~Doomed(p) /\ p \notin staleIds[w] => p \in points' /\ ~Doomed(p)'
  BY <1>t, <1>s DEF Doomed
<1>3. \A a \in Artifacts : Mixed(a) => Mixed(a)'
  BY <1>s, MixedStays
<1>4. VersionOf[w] \in Artifacts /\ (Misread(w) => Mixed(VersionOf[w])')
  BY <1>s, <1>p, VersionsAssumption DEF Mixed
<1>5. WriterIsSafe'
  BY <1>1, <1>p, <1>s DEF WriterIsSafe
<1>6. PointsAreOwned'
  <2>1. ASSUME NEW p \in points' PROVE p[1] \in upserted' /\ (p[2] = p[3] \/ Mixed(VersionOf[p[1]])')
    <3>1. CASE p \in points
      <4>1. p[1] \in upserted /\ (p[2] = p[3] \/ Mixed(VersionOf[p[1]]))
        BY <3>1 DEF SurvivorInv, PointsAreOwned
      <4>2. VersionOf[p[1]] \in Artifacts
        BY <4>1, <1>t, VersionsAssumption
      <4> QED
        BY <4>1, <4>2, <1>3, <1>s
    <3>2. CASE p \in PointsOf(w)
      <4>1. p[2] = p[3] \/ Misread(w)
        BY <3>2, ExactPoints
      <4> QED
        BY <3>2, <4>1, <1>1, <1>4, <1>s
    <3> QED
      BY <3>1, <3>2, <1>s
  <2>2. /\ \A v \in Calls : \A p \in staleIds'[v] : p[1] \in upserted'
        /\ \A v \in upserted' : pc'[v] \in {"written", "done", "failed"}
    BY <1>t, <1>s DEF SurvivorInv, PointsAreOwned
  <2> QED
    BY <2>1, <2>2 DEF PointsAreOwned
<1>7. VersionIsSafe'
  <2>1. CASE Mixed(VersionOf[w])'
    <3>1. PICK p : p \in PointsOf(w)
      BY OwnPoints DEF ReadyInv
    <3>2. SafelyMixed(VersionOf[w])'
      BY <2>1, <3>1, <1>1 DEF SafelyMixed
    <3> QED
      BY <3>2, <1>4 DEF VersionIsSafe
  <2>2. CASE ~Mixed(VersionOf[w])' /\ w \in Whole
    <3>1. \A t \in ChunksOf[VersionOf[w]] : <<w, t, t>> \in PointsOf(w)
      BY <2>2, <1>4, ExactPoints
    <3>2. ASSUME NEW t \in ChunksOf[VersionOf[w]]
          PROVE  \E p \in points' : VersionOf[p[1]] = VersionOf[w] /\ p[3] = t /\ ~Doomed(p)'
      <4>1. <<w, t, t>> \in points' /\ ~Doomed(<<w, t, t>>)'
        BY <3>1, <1>1
      <4> QED
        BY <4>1
    <3>3. SafelyComplete(VersionOf[w])'
      BY <3>2 DEF SafelyComplete
    <3> QED
      BY <3>3, <1>4 DEF VersionIsSafe
  <2>3. CASE ~Mixed(VersionOf[w])' /\ w \notin Whole
    <3> SUFFICES ASSUME upserted \intersect Whole # {} PROVE VersionIsSafe'
      BY <2>3, <1>s DEF VersionIsSafe
    <3>x. ~Misread(w) /\ ~Mixed(VersionOf[w])
      BY <2>3, <1>3, <1>4
    <3>1. PICK a \in Artifacts : SafelyComplete(a) \/ SafelyMixed(a)
      BY DEF SurvivorInv, VersionIsSafe
    <3>2. \A p \in staleIds[w] : VersionOf[p[1]] = VersionOf[w] /\ \E q \in PointsOf(w) : q[2] = p[2]
      BY <2>3 DEF TypeOK, Matches
    <3>3. CASE a # VersionOf[w]
      <4>1. \A p \in points : VersionOf[p[1]] = a /\ ~Doomed(p) => p \in points' /\ ~Doomed(p)'
        BY <3>2, <3>3, <1>2
      <4>2. SafelyComplete(a) => SafelyComplete(a)'
        BY <4>1 DEF SafelyComplete
      <4>3. SafelyMixed(a) => SafelyMixed(a)'
        BY <4>1, <1>3 DEF SafelyMixed
      <4> QED
        BY <3>1, <4>2, <4>3 DEF VersionIsSafe
    <3>4. CASE a = VersionOf[w]
      <4>1. SafelyComplete(a)
        BY <3>1, <3>4, <3>x DEF SafelyMixed
      <4>2. ASSUME NEW t \in ChunksOf[a]
            PROVE  \E p \in points' : VersionOf[p[1]] = a /\ p[3] = t /\ ~Doomed(p)'
        <5>1. PICK p \in points : VersionOf[p[1]] = a /\ p[3] = t /\ ~Doomed(p)
          BY <4>1 DEF SafelyComplete
        <5>2. CASE p \notin staleIds[w]
          BY <5>1, <5>2, <1>2
        <5>3. CASE p \in staleIds[w]
          <6>1. PICK q \in PointsOf(w) : q[2] = p[2]
            BY <5>3, <3>2
          <6>2. p[2] = p[3]
            BY <5>1, <3>4, <3>x DEF SurvivorInv, PointsAreOwned
          <6>3. q = <<w, q[2], q[2]>>
            BY <3>x, ExactPoints
          <6>4. q \in points' /\ q[1] = w /\ q[3] = t /\ ~Doomed(q)'
            BY <6>1, <6>2, <6>3, <5>1, <1>1
          <6> QED
            BY <6>4, <3>4
        <5> QED
          BY <5>2, <5>3
      <4>3. SafelyComplete(a)'
        BY <4>2 DEF SafelyComplete
      <4> QED
        BY <4>3 DEF VersionIsSafe
    <3> QED
      BY <3>3, <3>4
  <2> QED
    BY <2>1, <2>2, <2>3
<1> QED
  BY <1>5, <1>6, <1>7 DEF SurvivorInv

\* The step in which a call's old points go deletes no point that is safe.
LEMMA RemoveKeepsSafe ==
  ASSUME TypeOK, SurvivorInv, NEW w \in Calls, pc[w] = "written", Remove(w),
         UNCHANGED <<batch, staleIds>>,
         pc' = [pc EXCEPT ![w] = "done"] \/ pc' = [pc EXCEPT ![w] = "failed"]
  PROVE  SurvivorInv'
<1>t. pc \in [Calls -> Steps] /\ upserted \subseteq Calls /\ points \subseteq Point
  BY DEF TypeOK
<1>s. points' = points \ staleIds[w] /\ upserted' = upserted
  BY DEF Remove
<1>1. \A p \in points : ~Doomed(p) => p \in points' /\ ~Doomed(p)'
  BY <1>t, <1>s DEF Doomed
<1>2. \A v \in upserted : PointsOf(v)' = PointsOf(v)
  BY <1>t, SameBatch
<1>3. \A a \in Artifacts : Mixed(a) => Mixed(a)'
  BY <1>s, MixedStays
<1>4. WriterIsSafe'
  BY <1>1, <1>2, <1>s DEF SurvivorInv, WriterIsSafe
<1>5. VersionIsSafe'
  <2>1. \A a \in Artifacts : SafelyComplete(a) => SafelyComplete(a)'
    BY <1>1 DEF SafelyComplete
  <2>2. \A a \in Artifacts : SafelyMixed(a) => SafelyMixed(a)'
    BY <1>1, <1>3 DEF SafelyMixed
  <2> QED
    BY <2>1, <2>2, <1>s DEF SurvivorInv, VersionIsSafe
<1>6. PointsAreOwned'
  <2>1. \A p \in points : VersionOf[p[1]] \in Artifacts
    BY <1>t, VersionsAssumption DEF Point
  <2> QED
    BY <1>3, <2>1, <1>s, <1>t DEF SurvivorInv, PointsAreOwned
<1> QED
  BY <1>4, <1>5, <1>6 DEF SurvivorInv

\* In every interleaving of any number of calls, one writer's points, and some version of
\* the document, are held by points nobody is about to delete.
THEOREM SurvivorInvariant == Spec => []SurvivorInv
<1>1. Init => SurvivorInv
  BY DEF Init, SurvivorInv, WriterIsSafe, VersionIsSafe, PointsAreOwned
<1>2. TypeOK /\ ReadyInv /\ SurvivorInv /\ [Next]_vars => SurvivorInv'
  <2> SUFFICES ASSUME TypeOK, ReadyInv, SurvivorInv, [Next]_vars PROVE SurvivorInv'
    OBVIOUS
  <2>t. pc \in [Calls -> Steps] /\ staleIds \in [Calls -> SUBSET Point] /\ upserted \subseteq Calls
    BY DEF TypeOK
  <2>u. \A v \in upserted : pc[v] \in {"written", "done", "failed"}
    BY DEF SurvivorInv, PointsAreOwned
  <2>1. ASSUME NEW w \in Calls, ReadBatch(w) PROVE SurvivorInv'
    <3>1. pc[w] = "idle" /\ pc' = [pc EXCEPT ![w] = "batched"]
          /\ UNCHANGED <<points, staleIds, upserted>>
      BY <2>1 DEF ReadBatch, Starts
    <3>2. \A v \in upserted : batch'[v] = batch[v]
      BY <2>1, <2>t, <2>u, <3>1, BatchRead DEF TypeOK
    <3> QED
      BY <2>t, <2>u, <3>1, <3>2, QuietStepKeepsSafe
  <2>2. ASSUME NEW w \in Calls, EmptyBatch(w) PROVE SurvivorInv'
    BY <2>2, <2>t, <2>u, QuietStepKeepsSafe DEF EmptyBatch, Starts
  <2>3. ASSUME NEW w \in Calls, Begin(w) PROVE SurvivorInv'
    BY <2>3, <2>t, <2>u, QuietStepKeepsSafe DEF Begin, Starts
  <2>4. ASSUME NEW w \in Calls, ScrollNext(w) PROVE SurvivorInv'
    BY <2>4, <2>t, <2>u, QuietStepKeepsSafe DEF ScrollNext, Matching
  <2>5. ASSUME NEW w \in Calls, ScrollEnds(w) PROVE SurvivorInv'
    BY <2>5, <2>t, <2>u, QuietStepKeepsSafe DEF ScrollEnds
  <2>6. ASSUME NEW w \in Calls, Upsert(w) PROVE SurvivorInv'
    BY <2>6, StoreKeepsSafe DEF Upsert
  <2>7. ASSUME NEW w \in Calls, DeleteStale(w) PROVE SurvivorInv'
    BY <2>7, RemoveKeepsSafe DEF DeleteStale
  <2>8. ASSUME NEW w \in Calls, Fail(w) PROVE SurvivorInv'
    <3>1. CASE UNCHANGED <<points, upserted>>
      BY <2>8, <3>1, <2>t, <2>u, QuietStepKeepsSafe DEF Fail
    <3>2. CASE pc[w] = "read" /\ Store(w)
      BY <2>8, <3>2, StoreKeepsSafe DEF Fail
    <3>3. CASE pc[w] = "written" /\ Remove(w)
      BY <2>8, <3>3, RemoveKeepsSafe DEF Fail
    <3> QED
      BY <2>8, <3>1, <3>2, <3>3 DEF Fail
  <2>9. CASE UNCHANGED vars
    BY <2>9, <2>t, QuietStepKeepsSafe DEF vars
  <2> QED
    BY <2>1, <2>2, <2>3, <2>4, <2>5, <2>6, <2>7, <2>8, <2>9 DEF Next
<1> QED
  BY <1>1, <1>2, TypeInvariant, PTL DEF Spec

\* "One writer's points always survive": whatever calls overlap, whatever their batches have
\* read and wherever one of them stops, some call that has written has all its points there.
THEOREM OneSurvives == Spec => []OneWriterSurvives
<1>1. SurvivorInv => OneWriterSurvives
  BY DEF SurvivorInv, WriterIsSafe, OneWriterSurvives
<1> QED
  BY <1>1, SurvivorInvariant, PTL

\* _replace_points leaves no document without points, and none with only a part of every
\* version, unless a batch was read while the points of its range were not just its chunks.
THEOREM NeverLeavesNone == Spec => []DocumentStaysComplete
<1>1. SurvivorInv => DocumentStaysComplete
  BY DEF SurvivorInv, VersionIsSafe, DocumentStaysComplete, SafelyComplete, SafelyMixed,
         VersionComplete
<1> QED
  BY <1>1, SurvivorInvariant, PTL

(***************************************************************************)
(* A call that ends well has retired its points.  What it was to replace is *)
(* in its ids from the end of the scroll on, and nobody writes such a point *)
(* again: its owner has already written.                                    *)
(***************************************************************************)
RetiredInv ==
  \A w \in Calls :
    /\ pc[w] = "idle" => before[w] = {}
    /\ pc[w] \in {"read", "written"} => before[w] \intersect points \subseteq staleIds[w]
    /\ pc[w] = "done" => before[w] \intersect points = {}
    /\ \A p \in before[w] : p[1] \in upserted

\* A call that has not written stores no point anybody was to replace.
LEMMA StoreRevivesNothing ==
  ASSUME TypeOK, SurvivorInv, RetiredInv, NEW w \in Calls, pc[w] = "read", Store(w)
  PROVE  \A v \in Calls : before[v] \intersect points' = before[v] \intersect points
<1>1. w \notin upserted
  BY DEF SurvivorInv, PointsAreOwned
<1>2. \A p \in PointsOf(w) : p[1] = w
  BY OwnPoints
<1> QED
  BY <1>1, <1>2 DEF Store, RetiredInv

\* When _replace_points returns, none of the points that matched its filter as it began
\* is left, whatever its siblings wrote, deleted or failed to do meanwhile.
THEOREM CallsRetireOldPoints == Spec => []OldPointsRetired
<1>1. Init => RetiredInv
  BY DEF Init, RetiredInv
<1>2. TypeOK /\ SurvivorInv /\ RetiredInv /\ [Next]_vars => RetiredInv'
  <2> SUFFICES ASSUME TypeOK, SurvivorInv, RetiredInv, [Next]_vars PROVE RetiredInv'
    OBVIOUS
  <2>t. pc \in [Calls -> Steps] /\ staleIds \in [Calls -> SUBSET Point]
        /\ before \in [Calls -> SUBSET Point]
    BY DEF TypeOK
  <2>b. \A w \in Calls : pc[w] = "idle" => before[w] = {}
    BY DEF RetiredInv
  <2>1. ASSUME NEW w \in Calls, Begin(w) PROVE RetiredInv'
    <3>1. \A p \in Matching(w) : p[1] \in upserted
      BY DEF Matching, SurvivorInv, PointsAreOwned
    <3>2. pc[w] # "done" /\ pc' = [pc EXCEPT ![w] = "reading"]
          /\ before' = [before EXCEPT ![w] = Matching(w)] /\ UNCHANGED <<points, staleIds, upserted>>
      BY <2>1 DEF Begin, Starts
    <3> QED
      BY <2>t, <3>1, <3>2 DEF RetiredInv
  <2>2. ASSUME NEW w \in Calls, ScrollNext(w) PROVE RetiredInv'
    BY <2>2, <2>t DEF ScrollNext, RetiredInv
  <2>3. ASSUME NEW w \in Calls, ScrollEnds(w) PROVE RetiredInv'
    BY <2>3, <2>t DEF ScrollEnds, RetiredInv
  <2>4. ASSUME NEW w \in Calls, Upsert(w) PROVE RetiredInv'
    <3>1. \A v \in Calls : before[v] \intersect points' = before[v] \intersect points
      BY <2>4, StoreRevivesNothing DEF Upsert
    <3>2. /\ pc[w] = "read" /\ pc' = [pc EXCEPT ![w] = "written"]
          /\ upserted \subseteq upserted' /\ UNCHANGED <<staleIds, before>>
      BY <2>4 DEF Upsert, Store
    <3> QED
      BY <2>t, <3>1, <3>2 DEF RetiredInv
  <2>5. ASSUME NEW w \in Calls, DeleteStale(w) PROVE RetiredInv'
    BY <2>5, <2>t DEF DeleteStale, Remove, RetiredInv
  <2>6. ASSUME NEW w \in Calls, Fail(w) PROVE RetiredInv'
    <3>1. pc' = [pc EXCEPT ![w] = "failed"] /\ UNCHANGED <<staleIds, before>>
      BY <2>6 DEF Fail
    <3>2. \A v \in Calls : before[v] \intersect points' \subseteq before[v] \intersect points
      BY <2>6, StoreRevivesNothing DEF Fail, Remove
    <3>3. upserted \subseteq upserted'
      BY <2>6 DEF Fail, Store, Remove
    <3> QED
      BY <2>t, <3>1, <3>2, <3>3 DEF RetiredInv
  <2>7. ASSUME NEW w \in Calls, ReadBatch(w) PROVE RetiredInv'
    BY <2>7, <2>t DEF ReadBatch, Starts, RetiredInv
  <2>8. ASSUME NEW w \in Calls, EmptyBatch(w) PROVE RetiredInv'
    BY <2>8, <2>t, <2>b DEF EmptyBatch, Starts, RetiredInv
  <2>9. CASE UNCHANGED vars
    BY <2>9 DEF vars, RetiredInv
  <2> QED
    BY <2>1, <2>2, <2>3, <2>4, <2>5, <2>6, <2>7, <2>8, <2>9 DEF Next
<1>3. RetiredInv => OldPointsRetired
  BY DEF RetiredInv, OldPointsRetired
<1> QED
  BY <1>1, <1>2, <1>3, TypeCorrect, SurvivorInvariant, PTL DEF Spec

=============================================================================
