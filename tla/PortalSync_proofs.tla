------------------------- MODULE PortalSync_proofs -------------------------
(* What the portal's two writers of the sync status guarantee for any number of runs,
   connectors, users and lost calls. *)
EXTENDS PortalSync, TLAPS

Verdicts == Ledger!Verdicts

\* A callback on its way, and the handler that has loaded its connector, belong to a run
\* that holds its verdict for good.
CallbackInv ==
  \A r \in Runs :
    /\ told[r] # 0 => status[r] \in Verdicts
    /\ r \in wire => told[r] # 0
    /\ seen[r] # "unread" => r \in wire

\* No two of the moments the portal compares are the same, and a run ends after it began.
TimeInv ==
  \A r \in Runs :
    /\ began[r] <= now /\ closed[r] <= now
    /\ status[r] # "unused" \/ r \in firing => began[r] > 0
    /\ status[r] \in Verdicts => closed[r] > 0
    /\ closed[r] > 0 => began[r] > 0 /\ began[r] < closed[r]
    /\ \A s \in Runs : closed[s] > 0 => closed[s] # began[r]

\* A caller that has cleared the guard has a row of its own age; one that was answered has
\* opened it.
RequestInv ==
  \A u \in Users :
    /\ req[u].pc \in {"cleared", "started"} => began[req[u].run] > 0
    /\ req[u].pc = "started" => status[req[u].run] # "unused"

\* A verdict that was delivered is on the portal, or a newer one is.
DeliveredInv ==
  \A r \in Runs :
    /\ status[r] = "pending" => excuse[ConnectorOf[r]] # {}
    /\ told[r] # 0 /\ r \notin wire /\ excuse[ConnectorOf[r]] = {}
         => closed[r] <= shownAt[ConnectorOf[r]]

PortalInv == CallbackInv /\ TimeInv /\ RequestInv /\ DeliveredInv /\ RunningIsBacked

USE PortalAssumption DEF Verdicts, Ledger!Verdicts, ledger, times, portal, callbacks

\* The row or the connector a call is about.
LEMMA RequestSubjects ==
  ASSUME TypeOK, NEW u \in Users
  PROVE  /\ Idle \in Requests /\ Idle.pc = "idle"
         /\ req[u].pc = "asked" => req[u].conn \in Connectors
         /\ req[u].pc \in {"cleared", "started"} => req[u].run \in Runs
BY DEF TypeOK, Requests, Idle

\* An excuse is recorded against the connectors it concerns, and never forgotten.
LEMMA ExcusedOf ==
  ASSUME TypeOK, NEW C, NEW why \in Excuses, excuse' = Excused(C, why)
  PROVE  /\ excuse' \in [Connectors -> SUBSET Excuses]
         /\ \A c \in Connectors : excuse'[c] = {} => excuse[c] = {} /\ c \notin C
BY DEF TypeOK, Excused

\* The excuses the steps of the two programs leave.
LEMMA ExcusesAre == {"lost", "set aside", "late", "overtaken"} \subseteq Excuses
BY DEF Excuses

-----------------------------------------------------------------------------
(* Types *)

\* Every step keeps the types; that a callback delivers a verdict takes CallbackInv.
LEMMA TypesPreserved == TypeOK /\ CallbackInv /\ [Next]_vars => TypeOK'
<1> SUFFICES ASSUME TypeOK, CallbackInv, [Next]_vars PROVE TypeOK'
  OBVIOUS
<1> USE RequestSubjects DEF TypeOK
<1>1. ASSUME NEW u \in Users, NEW c \in Connectors, PortalAsk(u, c) PROVE TypeOK'
  BY <1>1 DEF PortalAsk, Requests
<1>2. ASSUME NEW u \in Users, ConnectorBegin(u) PROVE TypeOK'
  <2>1. PICK r \in Runs : BeginRow(r) /\ req' = [req EXCEPT ![u] = [pc |-> "cleared", run |-> r]]
    BY <1>2 DEF ConnectorBegin, Fresh, RunsOf
  <2>2. [pc |-> "cleared", run |-> r] \in Requests
    BY DEF Requests
  <2> QED
    BY <1>2, <2>1, <2>2 DEF ConnectorBegin, BeginRow
<1>3. ASSUME NEW u \in Users, ConnectorRefuse(u) PROVE TypeOK'
  BY <1>3 DEF ConnectorRefuse
<1>4. ASSUME NEW u \in Users, ConnectorInsert(u) PROVE TypeOK'
  <2>1. req[u].run \in Runs /\ [req[u] EXCEPT !.pc = "started"] \in Requests
    BY <1>4 DEF ConnectorInsert, Requests, Idle
  <2> QED
    BY <1>4, <2>1 DEF ConnectorInsert, Ledger!Open
<1>5. ASSUME NEW u \in Users, PortalApply(u) PROVE TypeOK'
  BY <1>5 DEF PortalApply
<1>6. ASSUME NEW u \in Users, AnswerLost(u) PROVE TypeOK'
  BY <1>6 DEF AnswerLost
<1>7. ASSUME NEW c \in Connectors, ScheduleBegin(c) PROVE TypeOK'
  BY <1>7 DEF ScheduleBegin, BeginRow, Fresh, RunsOf
<1>8. ASSUME NEW r \in Runs, ScheduleInsert(r) PROVE TypeOK'
  BY <1>8 DEF ScheduleInsert, Ledger!Open
<1>9. ASSUME NEW r \in Runs, HandOver(r) PROVE TypeOK'
  BY <1>9 DEF HandOver, Ledger!HandOver
<1>10. ASSUME NEW r \in Runs, Close(r) PROVE TypeOK'
  BY <1>10 DEF Close, Ledger!Close
<1>11. ASSUME NEW r \in Runs, Tell(r) PROVE TypeOK'
  BY <1>11 DEF Tell, Ledger!Tell
<1>12. ASSUME SetAside PROVE TypeOK'
  <2>1. excuse' \in [Connectors -> SUBSET Excuses]
    BY <1>12, ExcusedOf, ExcusesAre DEF SetAside
  <2> QED
    BY <1>12, <2>1 DEF SetAside, Ledger!SetAside
<1>13. ASSUME NEW r \in Runs, CallbackReads(r) PROVE TypeOK'
  BY <1>13 DEF CallbackReads
<1>14. ASSUME NEW r \in Runs, CallbackWrites(r) PROVE TypeOK'
  <2>1. status[r] \in Verdicts
    BY <1>14 DEF CallbackWrites, CallbackInv
  <2>2. excuse' \in [Connectors -> SUBSET Excuses]
    BY <1>14, ExcusesAre DEF CallbackWrites
  <2> QED
    BY <1>14, <2>1, <2>2 DEF CallbackWrites, Consume
<1>15. ASSUME NEW r \in Runs, CallbackLost(r) PROVE TypeOK'
  <2>1. excuse' \in [Connectors -> SUBSET Excuses]
    BY <1>15, ExcusedOf, ExcusesAre DEF CallbackLost
  <2>2. losses' \in Nat /\ wire' \subseteq Runs /\ seen' = [seen EXCEPT ![r] = "unread"]
    BY <1>15 DEF CallbackLost, Consume
  <2> QED
    BY <1>15, <2>1, <2>2 DEF CallbackLost
<1>16. CASE UNCHANGED vars
  BY <1>16 DEF vars
<1> QED
  BY <1>1, <1>2, <1>3, <1>4, <1>5, <1>6, <1>7, <1>8, <1>9, <1>10, <1>11, <1>12, <1>13, <1>14,
     <1>15, <1>16 DEF Next, Trigger

-----------------------------------------------------------------------------
(* The invariant *)

\* A callback starts from a verdict, and closing a run again keeps it one.
LEMMA CallbacksPreserved == TypeOK /\ CallbackInv /\ [Next]_vars => CallbackInv'
<1> SUFFICES ASSUME TypeOK, CallbackInv, [Next]_vars PROVE CallbackInv'
  OBVIOUS
<1> USE RequestSubjects DEF TypeOK, CallbackInv
<1>1. ASSUME NEW u \in Users, Trigger(u), ~ConnectorInsert(u) PROVE CallbackInv'
  BY <1>1 DEF Trigger, PortalAsk, ConnectorBegin, ConnectorRefuse, PortalApply, AnswerLost
<1>2. ASSUME NEW u \in Users, ConnectorInsert(u) PROVE CallbackInv'
  BY <1>2 DEF ConnectorInsert, Ledger!Open
<1>3. ASSUME NEW c \in Connectors, ScheduleBegin(c) PROVE CallbackInv'
  BY <1>3 DEF ScheduleBegin
<1>4. ASSUME NEW r \in Runs, ScheduleInsert(r) PROVE CallbackInv'
  BY <1>4 DEF ScheduleInsert, Ledger!Open
<1>5. ASSUME NEW r \in Runs, HandOver(r) PROVE CallbackInv'
  BY <1>5 DEF HandOver, Ledger!HandOver
<1>6. ASSUME NEW r \in Runs, Close(r) PROVE CallbackInv'
  BY <1>6 DEF Close, Ledger!Close
<1>7. ASSUME NEW r \in Runs, Tell(r) PROVE CallbackInv'
  BY <1>7 DEF Tell, Ledger!Tell
<1>8. CASE SetAside
  BY <1>8 DEF SetAside, Ledger!SetAside
<1>9. ASSUME NEW r \in Runs, CallbackReads(r) PROVE CallbackInv'
  BY <1>9 DEF CallbackReads
<1>10. ASSUME NEW r \in Runs, CallbackWrites(r) \/ CallbackLost(r) PROVE CallbackInv'
  BY <1>10 DEF CallbackWrites, CallbackLost, Consume
<1>11. CASE UNCHANGED vars
  BY <1>11 DEF vars
<1> QED
  BY <1>1, <1>2, <1>3, <1>4, <1>5, <1>6, <1>7, <1>8, <1>9, <1>10, <1>11 DEF Next

\* A run begins and is closed at moments nobody used before.
LEMMA TimesPreserved ==
  TypeOK /\ CallbackInv /\ TimeInv /\ RequestInv /\ [Next]_vars => TimeInv'
<1> SUFFICES ASSUME TypeOK, CallbackInv, TimeInv, RequestInv, [Next]_vars PROVE TimeInv'
  OBVIOUS
<1> USE RequestSubjects DEF TypeOK, TimeInv
<1>1. ASSUME NEW u \in Users, Trigger(u), ~ConnectorBegin(u), ~ConnectorInsert(u)
      PROVE  TimeInv'
  BY <1>1 DEF Trigger, PortalAsk, ConnectorRefuse, PortalApply, AnswerLost
<1>2. ASSUME NEW u \in Users, ConnectorBegin(u) PROVE TimeInv'
  <2>1. PICK r \in Runs : began[r] = 0 /\ BeginRow(r)
    BY <1>2 DEF ConnectorBegin, Fresh, RunsOf
  <2> QED
    BY <1>2, <2>1 DEF ConnectorBegin, BeginRow
<1>3. ASSUME NEW u \in Users, ConnectorInsert(u) PROVE TimeInv'
  BY <1>3 DEF ConnectorInsert, Ledger!Open, RequestInv
<1>4. ASSUME NEW c \in Connectors, ScheduleBegin(c) PROVE TimeInv'
  <2>1. PICK r \in Runs : began[r] = 0 /\ BeginRow(r) /\ firing' = firing \union {r}
    BY <1>4 DEF ScheduleBegin, Fresh, RunsOf
  <2> QED
    BY <1>4, <2>1 DEF ScheduleBegin, BeginRow
<1>5. ASSUME NEW r \in Runs, ScheduleInsert(r) PROVE TimeInv'
  BY <1>5 DEF ScheduleInsert, Ledger!Open
<1>6. ASSUME NEW r \in Runs, HandOver(r) PROVE TimeInv'
  BY <1>6 DEF HandOver, Ledger!HandOver
<1>7. ASSUME NEW r \in Runs, Close(r) PROVE TimeInv'
  BY <1>7 DEF Close, Ledger!Close
<1>8. ASSUME NEW r \in Runs, Tell(r) PROVE TimeInv'
  BY <1>8 DEF Tell, Ledger!Tell
<1>9. CASE SetAside
  BY <1>9 DEF SetAside, Ledger!SetAside
<1>10. ASSUME NEW r \in Runs, CallbackReads(r) \/ CallbackWrites(r) \/ CallbackLost(r)
       PROVE  TimeInv'
  BY <1>10 DEF CallbackReads, CallbackWrites, CallbackLost
<1>11. CASE UNCHANGED vars
  BY <1>11 DEF vars
<1> QED
  BY <1>1, <1>2, <1>3, <1>4, <1>5, <1>6, <1>7, <1>8, <1>9, <1>10, <1>11 DEF Next

\* A row once opened stays, so a caller keeps the row it was answered with.
LEMMA RequestsPreserved ==
  TypeOK /\ TimeInv /\ RequestInv /\ [Next]_vars => RequestInv'
<1> SUFFICES ASSUME TypeOK, TimeInv, RequestInv, [Next]_vars PROVE RequestInv'
  OBVIOUS
<1> USE RequestSubjects DEF TypeOK, RequestInv
<1>1. ASSUME NEW u \in Users, NEW c \in Connectors, PortalAsk(u, c) PROVE RequestInv'
  BY <1>1 DEF PortalAsk
<1>2. ASSUME NEW u \in Users, ConnectorBegin(u) PROVE RequestInv'
  <2>1. PICK r \in Runs : BeginRow(r) /\ req' = [req EXCEPT ![u] = [pc |-> "cleared", run |-> r]]
    BY <1>2 DEF ConnectorBegin, Fresh, RunsOf
  <2>2. \A s \in Runs : began[s] > 0 => began'[s] > 0
    BY <2>1 DEF BeginRow
  <2> QED
    BY <1>2, <2>1, <2>2 DEF ConnectorBegin, BeginRow
<1>3. ASSUME NEW u \in Users, ConnectorRefuse(u) \/ PortalApply(u) \/ AnswerLost(u)
      PROVE  RequestInv'
  BY <1>3 DEF ConnectorRefuse, PortalApply, AnswerLost
<1>4. ASSUME NEW u \in Users, ConnectorInsert(u) PROVE RequestInv'
  BY <1>4 DEF ConnectorInsert, Ledger!Open
<1>5. ASSUME NEW c \in Connectors, ScheduleBegin(c) PROVE RequestInv'
  <2>1. PICK r \in Runs : BeginRow(r)
    BY <1>5 DEF ScheduleBegin, Fresh, RunsOf
  <2> QED
    BY <1>5, <2>1 DEF ScheduleBegin, BeginRow
<1>6. ASSUME NEW r \in Runs, ScheduleInsert(r) PROVE RequestInv'
  BY <1>6 DEF ScheduleInsert, Ledger!Open
<1>7. ASSUME NEW r \in Runs, HandOver(r) \/ Tell(r) PROVE RequestInv'
  BY <1>7 DEF HandOver, Ledger!HandOver, Tell, Ledger!Tell
<1>8. ASSUME NEW r \in Runs, Close(r) PROVE RequestInv'
  BY <1>8 DEF Close, Ledger!Close
<1>9. CASE SetAside
  BY <1>9 DEF SetAside, Ledger!SetAside
<1>10. ASSUME NEW r \in Runs, CallbackReads(r) \/ CallbackWrites(r) \/ CallbackLost(r)
       PROVE  RequestInv'
  BY <1>10 DEF CallbackReads, CallbackWrites, CallbackLost
<1>11. CASE UNCHANGED vars
  BY <1>11 DEF vars
<1> QED
  BY <1>1, <1>2, <1>3, <1>4, <1>5, <1>6, <1>7, <1>8, <1>9, <1>10, <1>11 DEF Next, Trigger

\* Only a delivered verdict is shown over another, and only over an older one.
LEMMA DeliveriesPreserved ==
  TypeOK /\ CallbackInv /\ TimeInv /\ DeliveredInv /\ [Next]_vars => DeliveredInv'
<1> SUFFICES ASSUME TypeOK, CallbackInv, TimeInv, DeliveredInv, [Next]_vars PROVE DeliveredInv'
  OBVIOUS
<1> USE DEF TypeOK, DeliveredInv
<1>1. ASSUME NEW u \in Users, Trigger(u), ~PortalApply(u), ~ConnectorInsert(u)
      PROVE  DeliveredInv'
  BY <1>1 DEF Trigger, PortalAsk, ConnectorBegin, ConnectorRefuse, AnswerLost
<1>2. ASSUME NEW u \in Users, PortalApply(u) PROVE DeliveredInv'
  <2>1. PICK r \in Runs :
          shownAt' = IF shownAt[ConnectorOf[r]] < began[r]
                     THEN [shownAt EXCEPT ![ConnectorOf[r]] = began[r]] ELSE shownAt
    BY <1>2, RequestSubjects DEF PortalApply, Newer
  <2>2. \A c \in Connectors : shownAt[c] <= shownAt'[c]
    BY <2>1
  <2>3. shownAt' \in [Connectors -> Nat]
    BY <2>1
  <2> QED
    BY <1>2, <2>2, <2>3 DEF PortalApply
<1>3. ASSUME NEW u \in Users, ConnectorInsert(u) PROVE DeliveredInv'
  BY <1>3 DEF ConnectorInsert, Ledger!Open
<1>4. ASSUME NEW c \in Connectors, ScheduleBegin(c) PROVE DeliveredInv'
  BY <1>4 DEF ScheduleBegin
<1>5. ASSUME NEW r \in Runs, ScheduleInsert(r) PROVE DeliveredInv'
  BY <1>5 DEF ScheduleInsert, Ledger!Open
<1>6. ASSUME NEW r \in Runs, HandOver(r) PROVE DeliveredInv'
  BY <1>6 DEF HandOver, Ledger!HandOver
<1>7. ASSUME NEW r \in Runs, Close(r) PROVE DeliveredInv'
  BY <1>7 DEF Close, Ledger!Close, CallbackInv
<1>8. ASSUME NEW r \in Runs, Tell(r) PROVE DeliveredInv'
  BY <1>8 DEF Tell, Ledger!Tell
<1>9. CASE SetAside
  <2> DEFINE Hit == {ConnectorOf[r] : r \in {s \in Runs : status[s] # status'[s]}}
  <2>1. \A r \in Runs : status'[r] # status[r] => ConnectorOf[r] \in Hit
    OBVIOUS
  <2>2. excuse' = Excused(Hit, "set aside")
    BY <1>9 DEF SetAside
  <2>3. \A c \in Connectors : excuse'[c] = {} => excuse[c] = {} /\ c \notin Hit
    BY <2>2, ExcusedOf, ExcusesAre
  <2> HIDE DEF Hit
  <2>4. UNCHANGED <<told, closed, shownAt, wire>>
    BY <1>9 DEF SetAside, Ledger!SetAside
  <2> QED
    BY <2>1, <2>3, <2>4
<1>10. ASSUME NEW r \in Runs, CallbackReads(r) PROVE DeliveredInv'
  BY <1>10 DEF CallbackReads
<1>11. ASSUME NEW r \in Runs, CallbackWrites(r) PROVE DeliveredInv'
  <2> DEFINE c == ConnectorOf[r]
  <2>1. /\ c \in Connectors
        /\ wire' = wire \ {r}
        /\ shownAt' = [shownAt EXCEPT ![c] = closed[r]]
        /\ UNCHANGED <<status, told, closed>>
    BY <1>11 DEF CallbackWrites, Consume
  <2>2. /\ \A d \in Connectors : excuse'[d] = {} => excuse[d] = {}
        /\ closed[r] < shownAt[c] => excuse'[c] # {}
    BY <1>11, <2>1 DEF CallbackWrites
  <2>3. shownAt' \in [Connectors -> Nat]
    BY <2>1
  <2>4. ASSUME NEW s \in Runs, told'[s] # 0, s \notin wire', excuse'[ConnectorOf[s]] = {}
        PROVE  closed'[s] <= shownAt'[ConnectorOf[s]]
    <3>1. excuse[ConnectorOf[s]] = {} /\ told[s] # 0 /\ closed'[s] = closed[s]
      BY <2>1, <2>2, <2>4
    <3>2. CASE ConnectorOf[s] = c
      BY <2>1, <2>2, <2>4, <3>1, <3>2
    <3>3. CASE ConnectorOf[s] # c
      BY <2>1, <2>4, <3>1, <3>3
    <3> QED
      BY <3>2, <3>3
  <2> QED
    BY <2>1, <2>2, <2>4
<1>12. ASSUME NEW r \in Runs, CallbackLost(r) PROVE DeliveredInv'
  <2>1. \A d \in Connectors : excuse'[d] = {} => excuse[d] = {} /\ d # ConnectorOf[r]
    BY <1>12, ExcusedOf, ExcusesAre DEF CallbackLost
  <2>2. UNCHANGED <<status, told, closed, shownAt>> /\ wire' = wire \ {r}
    BY <1>12 DEF CallbackLost, Consume
  <2> QED
    BY <2>1, <2>2
<1>13. CASE UNCHANGED vars
  BY <1>13 DEF vars
<1> QED
  BY <1>1, <1>2, <1>3, <1>4, <1>5, <1>6, <1>7, <1>8, <1>9, <1>10, <1>11, <1>12, <1>13 DEF Next

\* A connector keeps what backs its "running" until a callback takes that away.
LEMMA BackingPreserved ==
  TypeOK /\ PortalInv /\ [Next]_vars => RunningIsBacked'
<1> SUFFICES ASSUME TypeOK, PortalInv, [Next]_vars,
                    NEW c \in Connectors, shown'[c] = "running", excuse'[c] = {}
             PROVE  Backed(c)'
  BY DEF RunningIsBacked
<1> USE DEF TypeOK, PortalInv, Backed, RunsOf
<1>o. ASSUME shown[c] = "running", excuse[c] = {}
      PROVE  Backed(c)
  BY <1>o DEF RunningIsBacked
<1>1. ASSUME NEW u \in Users, Trigger(u), ~PortalApply(u), ~ConnectorInsert(u)
      PROVE  Backed(c)'
  BY <1>1, <1>o DEF Trigger, PortalAsk, ConnectorBegin, ConnectorRefuse, AnswerLost
<1>2. ASSUME NEW u \in Users, PortalApply(u) PROVE Backed(c)'
  <2> DEFINE r == req[u].run
  <2>1. CASE shown[c] = "running"
    BY <1>2, <1>o, <2>1 DEF PortalApply
  <2>2. CASE shown[c] # "running"
    <3>1. r \in Runs /\ c = ConnectorOf[r] /\ shownAt[c] < began[r]
      BY <1>2, <2>2, RequestSubjects DEF PortalApply, Newer
    <3>2. status[r] # "unused" /\ excuse[c] = {}
      BY <1>2 DEF PortalApply, RequestInv
    <3>3. status[r] # "pending"
      BY <3>1, <3>2 DEF DeliveredInv
    <3>4. status[r] \in Verdicts /\ told[r] # 0 => r \in wire
      BY <3>1, <3>2 DEF DeliveredInv, TimeInv
    <3>5. UNCHANGED <<status, told, wire>>
      BY <1>2 DEF PortalApply
    <3> QED
      BY <3>1, <3>2, <3>3, <3>4, <3>5
  <2> QED
    BY <2>1, <2>2
<1>3. ASSUME NEW u \in Users, ConnectorInsert(u) PROVE Backed(c)'
  BY <1>3, <1>o DEF ConnectorInsert, Ledger!Open
<1>4. ASSUME NEW d \in Connectors, ScheduleBegin(d) PROVE Backed(c)'
  BY <1>4, <1>o DEF ScheduleBegin
<1>5. ASSUME NEW r \in Runs, ScheduleInsert(r) PROVE Backed(c)'
  BY <1>5, <1>o DEF ScheduleInsert, Ledger!Open
<1>6. ASSUME NEW r \in Runs, HandOver(r) PROVE Backed(c)'
  BY <1>6, <1>o DEF HandOver, Ledger!HandOver
<1>7. ASSUME NEW r \in Runs, Close(r) PROVE Backed(c)'
  BY <1>7, <1>o DEF Close, Ledger!Close, CallbackInv
<1>8. ASSUME NEW r \in Runs, Tell(r) PROVE Backed(c)'
  BY <1>8, <1>o DEF Tell, Ledger!Tell
<1>9. CASE SetAside
  <2> DEFINE Hit == {ConnectorOf[r] : r \in {s \in Runs : status[s] # status'[s]}}
  <2>1. excuse' = Excused(Hit, "set aside")
    BY <1>9 DEF SetAside
  <2>2. excuse[c] = {} /\ c \notin Hit
    BY <2>1, ExcusedOf, ExcusesAre
  <2>3. \A r \in RunsOf(c) : status'[r] = status[r]
    BY <2>2
  <2> QED
    BY <1>9, <1>o, <2>2, <2>3 DEF SetAside, Ledger!SetAside
<1>10. ASSUME NEW r \in Runs, CallbackReads(r) PROVE Backed(c)'
  BY <1>10, <1>o DEF CallbackReads
<1>11. ASSUME NEW r \in Runs, CallbackWrites(r) PROVE Backed(c)'
  <2>1. CASE c = ConnectorOf[r]
    BY <1>11, <2>1 DEF CallbackWrites, SameAsLoaded, CallbackInv
  <2>2. CASE c # ConnectorOf[r]
    BY <1>11, <1>o, <2>2 DEF CallbackWrites, Consume
  <2> QED
    BY <2>1, <2>2
<1>12. ASSUME NEW r \in Runs, CallbackLost(r) PROVE Backed(c)'
  <2>1. c # ConnectorOf[r] /\ excuse[c] = {}
    BY <1>12, ExcusedOf, ExcusesAre DEF CallbackLost
  <2> QED
    BY <1>12, <1>o, <2>1 DEF CallbackLost, Consume
<1>13. CASE UNCHANGED vars
  BY <1>13, <1>o DEF vars
<1> QED
  BY <1>1, <1>2, <1>3, <1>4, <1>5, <1>6, <1>7, <1>8, <1>9, <1>10, <1>11, <1>12, <1>13 DEF Next

\* Nothing has been asked, and the portal shows nothing.
LEMMA Initially == Init => TypeOK /\ PortalInv
BY DEF Init, Ledger!Init, TypeOK, Requests, PortalInv, CallbackInv, TimeInv, RequestInv,
       DeliveredInv, RunningIsBacked, Idle

\* Types and promises hold together: a callback is well typed because it delivers a verdict.
THEOREM PortalInvariant == Spec => [](TypeOK /\ PortalInv)
<1>1. TypeOK /\ PortalInv /\ [Next]_vars => (TypeOK /\ PortalInv)'
  BY TypesPreserved, CallbacksPreserved, TimesPreserved, RequestsPreserved, DeliveriesPreserved,
     BackingPreserved DEF PortalInv
<1> QED
  BY Initially, <1>1, PTL DEF Spec

-----------------------------------------------------------------------------
(* What follows *)

\* Every state of the portal's model is well typed: in particular, last_sync_status only ever
\* holds "none", "running" or a verdict.
THEOREM TypeCorrect == Spec => []TypeOK
BY PortalInvariant, PTL

\* The portal is not stuck: however many runs, users and schedules, and however late calls
\* arrive, a connector shows "running" for nothing only for one of the four named causes.
THEOREM NotStuck == Spec => []RunningIsBacked
<1>1. PortalInv => RunningIsBacked
  BY DEF PortalInv
<1> QED
  BY PortalInvariant, <1>1, PTL

\* A start answer that arrives after the run's own callback never takes its verdict back.
THEOREM VerdictsStand == Spec => OwnVerdictStands
<1> DEFINE Stands == \A r \in Runs : closed[r] > 0 /\ shownAt[ConnectorOf[r]] = closed[r]
                                       => shownAt'[ConnectorOf[r]] # began[r]
<1>1. TypeOK /\ PortalInv /\ [Next]_vars => [Stands]_vars
  <2> SUFFICES ASSUME TypeOK, PortalInv, Next, NEW r \in Runs, closed[r] > 0,
                      shownAt[ConnectorOf[r]] = closed[r]
               PROVE  shownAt'[ConnectorOf[r]] # began[r]
    OBVIOUS
  <2> USE DEF TypeOK, PortalInv, TimeInv
  <2>0. began[r] < closed[r]
    OBVIOUS
  <2>1. CASE UNCHANGED shownAt
    BY <2>0, <2>1
  <2>2. ASSUME NEW u \in Users, PortalApply(u) PROVE shownAt'[ConnectorOf[r]] # began[r]
    BY <2>0, <2>2, RequestSubjects DEF PortalApply, Newer
  <2>3. ASSUME NEW s \in Runs, CallbackWrites(s) PROVE shownAt'[ConnectorOf[r]] # began[r]
    <3>1. closed[s] > 0
      BY <2>3 DEF CallbackWrites, CallbackInv
    <3> QED
      BY <2>0, <2>3, <3>1 DEF CallbackWrites
  <2> QED
    BY <2>1, <2>2, <2>3 DEF Next, Trigger, PortalAsk, ConnectorBegin, ConnectorRefuse,
       ConnectorInsert, AnswerLost, ScheduleBegin, ScheduleInsert, HandOver, Close, Tell, SetAside,
       CallbackReads, CallbackLost
<1> QED
  BY PortalInvariant, <1>1, PTL DEF Spec, OwnVerdictStands
=============================================================================
