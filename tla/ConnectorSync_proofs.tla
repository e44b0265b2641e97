------------------------ MODULE ConnectorSync_proofs ------------------------
(* What klai-connector guarantees for any number of connectors, runs,      *)
(* callers, readers and restarts: the types, the invariant behind the      *)
(* ledger's promises, that ConnectorSync implements SyncLedger, and the    *)
(* limits of the engine.                                                   *)
EXTENDS ConnectorSync, FiniteSetTheorems, TLAPS

USE DEF Finalisers, Statuses, Verdicts, JobStates, TaskStates

\* Every state of the system is well typed.
THEOREM TypeCorrect == Spec => []TypeOK
<1>1. Init => TypeOK
  BY DEF Init, TypeOK
<1>2. TypeOK /\ [Next]_vars => TypeOK'
  <2> SUFFICES ASSUME TypeOK, [Next]_vars PROVE TypeOK'
    OBVIOUS
  <2> USE DEF TypeOK, rows, finalising, counters
  <2>1. ASSUME NEW k \in Callers, NEW c \in Connectors, CheckActive(k, c) PROVE TypeOK'
    BY <2>1 DEF CheckActive, Fresh, RunsOf
  <2>2. ASSUME NEW k \in Callers, InsertRun(k) PROVE TypeOK'
    BY <2>2 DEF InsertRun
  <2>3. ASSUME NEW r \in Runs, StartTask(r) PROVE TypeOK'
    BY <2>3 DEF StartTask
  <2>4. ASSUME NEW r \in Runs, AcquireSlot(r) PROVE TypeOK'
    BY <2>4 DEF AcquireSlot
  <2>5. ASSUME NEW r \in Runs, EndRun(r) PROVE TypeOK'
    BY <2>5 DEF EndRun, CloseRow
  <2>6. ASSUME NEW r \in Runs, PostCrawl(r) PROVE TypeOK'
    BY <2>6 DEF PostCrawl
  <2>7. ASSUME NEW r \in Runs, HandOver(r) PROVE TypeOK'
    BY <2>7 DEF HandOver
  <2>8. ASSUME NEW r \in Runs, PostLost(r) PROVE TypeOK'
    BY <2>8 DEF PostLost, CloseRow
  <2>9. ASSUME NEW r \in Runs, TaskBreaks(r) PROVE TypeOK'
    BY <2>9 DEF TaskBreaks
  <2>10. ASSUME NEW r \in Runs, SendReport(r) PROVE TypeOK'
    BY <2>10 DEF SendReport, Send
  <2>11. ASSUME NEW r \in Runs, ReportReturns(r) PROVE TypeOK'
    BY <2>11 DEF ReportReturns
  <2>12. ASSUME NEW r \in Runs, CrawlEnds(r) PROVE TypeOK'
    BY <2>12 DEF CrawlEnds
  <2>13. ASSUME NEW r \in Runs, CrawlPurged(r) PROVE TypeOK'
    BY <2>13 DEF CrawlPurged
  <2>14. ASSUME NEW f \in Finalisers, ReadRuns(f) PROVE TypeOK'
    BY <2>14 DEF ReadRuns, RunsOf
  <2>15. ASSUME ReaperScan PROVE TypeOK'
    BY <2>15 DEF ReaperScan
  <2>16. ASSUME NEW f \in Finalisers, NEW r \in Runs, ReaderAsks(f, r) PROVE TypeOK'
    <3> DEFINE live == IF cache[r] # "none" THEN cache[r] ELSE job[r]
    <3>1. f \in Readers /\ live # "gone" /\ r \in todo[f]
      BY <2>16 DEF ReaderAsks
    <3>2. cache' = [cache EXCEPT ![r] = live]
      BY <2>16 DEF ReaderAsks
    <3>3. found' = IF live \in TerminalCrawl
                   THEN [found EXCEPT ![f] = {<<r, VerdictOf(live)>>}] ELSE found
      BY <2>16 DEF ReaderAsks
    <3>4. cache' \in [Runs -> JobStates \union {"none"}]
      BY <3>1, <3>2
    <3>5. found' \in [Finalisers -> SUBSET (Runs \X {"completed", "failed"})]
      BY <3>3 DEF VerdictOf
    <3>6. /\ todo' = [todo EXCEPT ![f] = @ \ {r}]
          /\ UNCHANGED <<rows, opening, task, owes, job, told, counters>>
      BY <2>16 DEF ReaderAsks
    <3> QED
      BY <3>4, <3>5, <3>6
  <2>17. ASSUME NEW r \in Runs, ReaperAsks(r) PROVE TypeOK'
    BY <2>17 DEF ReaperAsks, VerdictOf
  <2>18. ASSUME NEW f \in Finalisers, NEW r \in Runs, AskFails(f, r) PROVE TypeOK'
    BY <2>18 DEF AskFails
  <2>19. ASSUME NEW f \in Finalisers, Finalise(f) PROVE TypeOK'
    <3>1. PICK d \in found[f] : /\ CloseRow(d[1], d[2])
                                /\ owes' = [owes EXCEPT ![f] = {d[1]}]
                                /\ found' = [found EXCEPT ![f] = {}]
                                /\ UNCHANGED <<handed, age, opening, task, cache, todo, job, told, counters>>
      BY <2>19 DEF Finalise
    <3>2. d[1] \in Runs /\ d[2] \in {"completed", "failed"}
      BY <3>1
    <3> QED
      BY <3>1, <3>2 DEF CloseRow
  <2>20. ASSUME NEW f \in Finalisers, FindClosed(f) PROVE TypeOK'
    BY <2>20 DEF FindClosed
  <2>21. ASSUME NEW f \in Finalisers, ReportVerdict(f) PROVE TypeOK'
    BY <2>21 DEF ReportVerdict, Send
  <2>22. ASSUME NEW r \in Runs, CacheExpires(r) PROVE TypeOK'
    BY <2>22 DEF CacheExpires
  <2>23. ASSUME NEW r \in Runs, Ages(r) PROVE TypeOK'
    BY <2>23 DEF Ages
  <2>24. ASSUME Restart PROVE TypeOK'
    BY <2>24 DEF Restart
  <2>25. CASE UNCHANGED vars
    BY <2>25 DEF vars
  <2> QED
    BY <2>1, <2>2, <2>3, <2>4, <2>5, <2>6, <2>7, <2>8, <2>9, <2>10, <2>11, <2>12, <2>13,
       <2>14, <2>15, <2>16, <2>17, <2>18, <2>19, <2>20, <2>21, <2>22, <2>23, <2>24, <2>25
    DEF Next, Engine, Work, Resolve
<1> QED
  BY <1>1, <1>2, PTL DEF Spec

\* The invariant behind the ledger: in every interleaving of tasks, readers, the reaper
\* and restarts, a row that is still to be written by one of them is left alone by the rest.
THEOREM LedgerInvariant == Spec => []LedgerInv
<1>1. Init => LedgerInv
  BY DEF Init, LedgerInv, RowInv, InDebt, OpeningInv, FinaliserInv, MayWrite
<1>2. TypeOK /\ LedgerInv /\ [Next]_vars => LedgerInv'
  <2> SUFFICES ASSUME TypeOK, LedgerInv, [Next]_vars PROVE LedgerInv'
    OBVIOUS
  <2> USE DEF TypeOK, LedgerInv, MayWrite, rows, finalising, counters
  <2>1. ASSUME NEW k \in Callers, NEW c \in Connectors, CheckActive(k, c) PROVE LedgerInv'
    <3>1. \A s \in Runs : RowInv(s)'
      BY <2>1 DEF CheckActive, RowInv, InDebt
    <3>2. OpeningInv'
      BY <2>1 DEF CheckActive, Fresh, OpeningInv
    <3>3. FinaliserInv'
      BY <2>1 DEF CheckActive, FinaliserInv
    <3> QED
      BY <3>1, <3>2, <3>3
  <2>2. ASSUME NEW k \in Callers, InsertRun(k) PROVE LedgerInv'
    <3>1. \A s \in Runs : RowInv(s)'
      BY <2>2 DEF InsertRun, RowInv, InDebt, OpeningInv
    <3>2. OpeningInv'
      BY <2>2 DEF InsertRun, OpeningInv
    <3>3. FinaliserInv'
      BY <2>2 DEF InsertRun, FinaliserInv
    <3> QED
      BY <3>1, <3>2, <3>3
  <2>3. ASSUME NEW r \in Runs, StartTask(r) PROVE LedgerInv'
    <3>1. \A s \in Runs : RowInv(s)'
      BY <2>3 DEF StartTask, RowInv, InDebt
    <3>2. OpeningInv'
      BY <2>3 DEF StartTask, OpeningInv
    <3>3. FinaliserInv'
      BY <2>3 DEF StartTask, FinaliserInv
    <3> QED
      BY <3>1, <3>2, <3>3
  <2>4. ASSUME NEW r \in Runs, AcquireSlot(r) PROVE LedgerInv'
    <3>1. \A s \in Runs : RowInv(s)'
      BY <2>4 DEF AcquireSlot, RowInv, InDebt
    <3>2. OpeningInv'
      BY <2>4 DEF AcquireSlot, OpeningInv
    <3>3. FinaliserInv'
      BY <2>4 DEF AcquireSlot, FinaliserInv
    <3> QED
      BY <3>1, <3>2, <3>3
  <2>5. ASSUME NEW r \in Runs, EndRun(r) PROVE LedgerInv'
    <3>1. \A s \in Runs : RowInv(s)'
      BY <2>5 DEF EndRun, CloseRow, RowInv, InDebt
    <3>2. OpeningInv'
      BY <2>5 DEF EndRun, CloseRow, OpeningInv, RowInv
    <3>3. FinaliserInv'
      BY <2>5 DEF EndRun, FinaliserInv
    <3> QED
      BY <3>1, <3>2, <3>3
  <2>6. ASSUME NEW r \in Runs, PostCrawl(r) PROVE LedgerInv'
    <3>1. \A s \in Runs : RowInv(s)'
      BY <2>6 DEF PostCrawl, RowInv, InDebt
    <3>2. OpeningInv'
      BY <2>6 DEF PostCrawl, OpeningInv
    <3>3. FinaliserInv'
      BY <2>6 DEF PostCrawl, FinaliserInv
    <3> QED
      BY <3>1, <3>2, <3>3
  <2>7. ASSUME NEW r \in Runs, HandOver(r) PROVE LedgerInv'
    <3>1. \A s \in Runs : RowInv(s)'
      BY <2>7 DEF HandOver, RowInv, InDebt
    <3>2. OpeningInv'
      BY <2>7 DEF HandOver, OpeningInv
    <3>3. FinaliserInv'
      BY <2>7 DEF HandOver, FinaliserInv
    <3> QED
      BY <3>1, <3>2, <3>3
  <2>8. ASSUME NEW r \in Runs, PostLost(r) PROVE LedgerInv'
    <3>1. \A s \in Runs : RowInv(s)'
      BY <2>8 DEF PostLost, CloseRow, RowInv, InDebt
    <3>2. OpeningInv'
      BY <2>8 DEF PostLost, CloseRow, OpeningInv, RowInv
    <3>3. FinaliserInv'
      BY <2>8 DEF PostLost, FinaliserInv
    <3> QED
      BY <3>1, <3>2, <3>3
  <2>9. ASSUME NEW r \in Runs, TaskBreaks(r) PROVE LedgerInv'
    <3>1. \A s \in Runs : RowInv(s)'
      BY <2>9 DEF TaskBreaks, RowInv, InDebt
    <3>2. OpeningInv'
      BY <2>9 DEF TaskBreaks, OpeningInv
    <3>3. FinaliserInv'
      BY <2>9 DEF TaskBreaks, FinaliserInv
    <3> QED
      BY <3>1, <3>2, <3>3
  <2>10. ASSUME NEW r \in Runs, SendReport(r) PROVE LedgerInv'
    <3>1. \A s \in Runs : RowInv(s)'
      BY <2>10 DEF SendReport, Send, RowInv, InDebt
    <3>2. OpeningInv'
      BY <2>10 DEF SendReport, OpeningInv
    <3>3. FinaliserInv'
      BY <2>10 DEF SendReport, FinaliserInv
    <3> QED
      BY <3>1, <3>2, <3>3
  <2>11. ASSUME NEW r \in Runs, ReportReturns(r) PROVE LedgerInv'
    <3>1. \A s \in Runs : RowInv(s)'
      BY <2>11 DEF ReportReturns, RowInv, InDebt
    <3>2. OpeningInv'
      BY <2>11 DEF ReportReturns, OpeningInv
    <3>3. FinaliserInv'
      BY <2>11 DEF ReportReturns, FinaliserInv
    <3> QED
      BY <3>1, <3>2, <3>3
  <2>12. ASSUME NEW r \in Runs, CrawlEnds(r) PROVE LedgerInv'
    <3>1. \A s \in Runs : RowInv(s)'
      BY <2>12 DEF CrawlEnds, RowInv, InDebt
    <3>2. OpeningInv'
      BY <2>12 DEF CrawlEnds, OpeningInv
    <3>3. FinaliserInv'
      BY <2>12 DEF CrawlEnds, FinaliserInv
    <3> QED
      BY <3>1, <3>2, <3>3
  <2>13. ASSUME NEW r \in Runs, CrawlPurged(r) PROVE LedgerInv'
    <3>1. \A s \in Runs : RowInv(s)'
      BY <2>13 DEF CrawlPurged, RowInv, InDebt
    <3>2. OpeningInv'
      BY <2>13 DEF CrawlPurged, OpeningInv
    <3>3. FinaliserInv'
      BY <2>13 DEF CrawlPurged, FinaliserInv
    <3> QED
      BY <3>1, <3>2, <3>3
  <2>14. ASSUME NEW f \in Finalisers, ReadRuns(f) PROVE LedgerInv'
    <3>1. \A s \in Runs : RowInv(s)'
      BY <2>14 DEF ReadRuns, RowInv, InDebt
    <3>2. OpeningInv'
      BY <2>14 DEF ReadRuns, OpeningInv
    <3>3. FinaliserInv'
      BY <2>14 DEF ReadRuns, Resolvable, FinaliserInv
    <3> QED
      BY <3>1, <3>2, <3>3
  <2>15. ASSUME ReaperScan PROVE LedgerInv'
    <3>1. \A s \in Runs : RowInv(s)'
      BY <2>15 DEF ReaperScan, RowInv, InDebt
    <3>2. OpeningInv'
      BY <2>15 DEF ReaperScan, OpeningInv
    <3>3. FinaliserInv'
      BY <2>15 DEF ReaperScan, Resolvable, FinaliserInv
    <3> QED
      BY <3>1, <3>2, <3>3
  <2>16. ASSUME NEW f \in Finalisers, NEW r \in Runs, ReaderAsks(f, r) PROVE LedgerInv'
    <3>1. \A s \in Runs : RowInv(s)'
      BY <2>16 DEF ReaderAsks, RowInv, InDebt
    <3>2. OpeningInv'
      BY <2>16 DEF ReaderAsks, OpeningInv
    <3>3. FinaliserInv'
      BY <2>16 DEF ReaderAsks, FinaliserInv
    <3> QED
      BY <3>1, <3>2, <3>3
  <2>17. ASSUME NEW r \in Runs, ReaperAsks(r) PROVE LedgerInv'
    <3>1. \A s \in Runs : RowInv(s)'
      BY <2>17 DEF ReaperAsks, RowInv, InDebt
    <3>2. OpeningInv'
      BY <2>17 DEF ReaperAsks, OpeningInv
    <3>3. FinaliserInv'
      BY <2>17 DEF ReaperAsks, FinaliserInv
    <3> QED
      BY <3>1, <3>2, <3>3
  <2>18. ASSUME NEW f \in Finalisers, NEW r \in Runs, AskFails(f, r) PROVE LedgerInv'
    <3>1. \A s \in Runs : RowInv(s)'
      BY <2>18 DEF AskFails, RowInv, InDebt
    <3>2. OpeningInv'
      BY <2>18 DEF AskFails, OpeningInv
    <3>3. FinaliserInv'
      BY <2>18 DEF AskFails, FinaliserInv
    <3> QED
      BY <3>1, <3>2, <3>3
  <2>19. ASSUME NEW f \in Finalisers, Finalise(f) PROVE LedgerInv'
    <3>1. PICK d \in found[f] : /\ status[d[1]] = "running"
                                /\ CloseRow(d[1], d[2])
                                /\ owes' = [owes EXCEPT ![f] = {d[1]}]
                                /\ found' = [found EXCEPT ![f] = {}]
      BY <2>19 DEF Finalise
    <3>2. UNCHANGED <<handed, opening, task, todo, told>>
      BY <2>19 DEF Finalise
    <3>3. d[1] \in Runs /\ d[1] \in handed /\ d[2] \in {"completed", "failed"}
      BY <3>1 DEF FinaliserInv
    <3>4. ASSUME NEW s \in Runs PROVE RowInv(s)'
      <4>1. CASE s = d[1]
        BY <3>1, <3>2, <3>3, <4>1 DEF RowInv, InDebt, CloseRow
      <4>2. CASE s # d[1]
        BY <3>1, <3>2, <4>2 DEF RowInv, InDebt, CloseRow
      <4> QED
        BY <4>1, <4>2
    <3>5. OpeningInv'
      BY <3>1, <3>2 DEF OpeningInv, CloseRow
    <3>6. FinaliserInv'
      BY <3>1, <3>2 DEF FinaliserInv
    <3> QED
      BY <3>4, <3>5, <3>6
  <2>20. ASSUME NEW f \in Finalisers, FindClosed(f) PROVE LedgerInv'
    <3>1. \A s \in Runs : RowInv(s)'
      BY <2>20 DEF FindClosed, RowInv, InDebt
    <3>2. OpeningInv'
      BY <2>20 DEF FindClosed, OpeningInv
    <3>3. FinaliserInv'
      BY <2>20 DEF FindClosed, FinaliserInv
    <3> QED
      BY <3>1, <3>2, <3>3
  <2>21. ASSUME NEW f \in Finalisers, ReportVerdict(f) PROVE LedgerInv'
    <3>1. \A s \in Runs : RowInv(s)'
      BY <2>21 DEF ReportVerdict, Send, RowInv, InDebt
    <3>2. OpeningInv'
      BY <2>21 DEF ReportVerdict, OpeningInv
    <3>3. FinaliserInv'
      BY <2>21 DEF ReportVerdict, FinaliserInv
    <3> QED
      BY <3>1, <3>2, <3>3
  <2>22. ASSUME NEW r \in Runs, CacheExpires(r) PROVE LedgerInv'
    <3>1. \A s \in Runs : RowInv(s)'
      BY <2>22 DEF CacheExpires, RowInv, InDebt
    <3>2. OpeningInv'
      BY <2>22 DEF CacheExpires, OpeningInv
    <3>3. FinaliserInv'
      BY <2>22 DEF CacheExpires, FinaliserInv
    <3> QED
      BY <3>1, <3>2, <3>3
  <2>23. ASSUME NEW r \in Runs, Ages(r) PROVE LedgerInv'
    <3>1. \A s \in Runs : RowInv(s)'
      BY <2>23 DEF Ages, RowInv, InDebt
    <3>2. OpeningInv'
      BY <2>23 DEF Ages, OpeningInv
    <3>3. FinaliserInv'
      BY <2>23 DEF Ages, FinaliserInv
    <3> QED
      BY <3>1, <3>2, <3>3
  <2>24. ASSUME Restart PROVE LedgerInv'
    <3>1. \A s \in Runs : RowInv(s)'
      BY <2>24 DEF Restart, RowInv, InDebt
    <3>2. OpeningInv'
      BY <2>24 DEF Restart, OpeningInv
    <3>3. FinaliserInv'
      BY <2>24 DEF Restart, FinaliserInv
    <3> QED
      BY <3>1, <3>2, <3>3
  <2>25. CASE UNCHANGED vars
    BY <2>25 DEF vars, RowInv, InDebt, OpeningInv, FinaliserInv
  <2> QED
    BY <2>1, <2>2, <2>3, <2>4, <2>5, <2>6, <2>7, <2>8, <2>9, <2>10, <2>11, <2>12, <2>13,
       <2>14, <2>15, <2>16, <2>17, <2>18, <2>19, <2>20, <2>21, <2>22, <2>23, <2>24, <2>25
    DEF Next, Engine, Work, Resolve
<1> QED
  BY <1>1, <1>2, TypeCorrect, PTL DEF Spec

\* klai-connector keeps the ledger's promises: whatever tasks, readers, the reaper and
\* restarts do, a row is closed at most once and then stays as it is, no run with a crawl
\* behind it is set aside, and the portal hears of each verdict at most once.
THEOREM ImplementsLedger == Spec => LedgerSpec
<1>1. Init => Ledger!Init
  BY DEF Init, Ledger!Init
<1>2. TypeOK /\ LedgerInv /\ [Next]_vars => [Ledger!Next]_Ledger!ledger
  <2> SUFFICES ASSUME TypeOK, LedgerInv, [Next]_vars PROVE [Ledger!Next]_Ledger!ledger
    OBVIOUS
  <2> DEFINE LedgerStep == [Ledger!Next]_Ledger!ledger
  <2> USE DEF TypeOK, LedgerInv, MayWrite, rows, finalising, counters
  <2>1. ASSUME NEW k \in Callers, NEW c \in Connectors, CheckActive(k, c) PROVE LedgerStep
    BY <2>1 DEF CheckActive, Ledger!ledger
  <2>2. ASSUME NEW k \in Callers, InsertRun(k) PROVE LedgerStep
    <3>1. PICK r \in opening[k] : status' = [status EXCEPT ![r] = "running"]
      BY <2>2 DEF InsertRun
    <3>2. r \in Runs /\ status[r] = "unused" /\ UNCHANGED <<handed, told>>
      BY <2>2, <3>1 DEF InsertRun, OpeningInv
    <3>3. Ledger!Open(r)
      BY <3>1, <3>2 DEF Ledger!Open
    <3> QED
      BY <3>2, <3>3 DEF Ledger!Next
  <2>3. ASSUME NEW r \in Runs, StartTask(r) PROVE LedgerStep
    BY <2>3 DEF StartTask, Ledger!ledger
  <2>4. ASSUME NEW r \in Runs, AcquireSlot(r) PROVE LedgerStep
    BY <2>4 DEF AcquireSlot, Ledger!ledger
  <2>5. ASSUME NEW r \in Runs, EndRun(r) PROVE LedgerStep
    <3>1. Ledger!Close(r)
      BY <2>5 DEF EndRun, CloseRow, RowInv, Ledger!Close, Ledger!Verdicts
    <3> QED
      BY <3>1 DEF Ledger!Next
  <2>6. ASSUME NEW r \in Runs, PostCrawl(r) PROVE LedgerStep
    BY <2>6 DEF PostCrawl, Ledger!ledger
  <2>7. ASSUME NEW r \in Runs, HandOver(r) PROVE LedgerStep
    <3>1. Ledger!HandOver(r)
      BY <2>7 DEF HandOver, RowInv, Ledger!HandOver
    <3> QED
      BY <3>1 DEF Ledger!Next
  <2>8. ASSUME NEW r \in Runs, PostLost(r) PROVE LedgerStep
    <3>1. Ledger!Close(r)
      BY <2>8 DEF PostLost, CloseRow, RowInv, Ledger!Close, Ledger!Verdicts
    <3> QED
      BY <3>1 DEF Ledger!Next
  <2>9. ASSUME NEW r \in Runs, TaskBreaks(r) PROVE LedgerStep
    BY <2>9 DEF TaskBreaks, Ledger!ledger
  <2>10. ASSUME NEW r \in Runs, SendReport(r) PROVE LedgerStep
    <3>1. status[r] \in Verdicts /\ told[r] = 0
      BY <2>10 DEF SendReport, RowInv, InDebt
    <3>2. Ledger!Tell(r)
      BY <2>10, <3>1 DEF SendReport, Send, Ledger!Tell, Ledger!Verdicts
    <3> QED
      BY <3>2 DEF Ledger!Next
  <2>11. ASSUME NEW r \in Runs, ReportReturns(r) PROVE LedgerStep
    BY <2>11 DEF ReportReturns, Ledger!ledger
  <2>12. ASSUME NEW r \in Runs, CrawlEnds(r) PROVE LedgerStep
    BY <2>12 DEF CrawlEnds, Ledger!ledger
  <2>13. ASSUME NEW r \in Runs, CrawlPurged(r) PROVE LedgerStep
    BY <2>13 DEF CrawlPurged, Ledger!ledger
  <2>14. ASSUME NEW f \in Finalisers, ReadRuns(f) PROVE LedgerStep
    BY <2>14 DEF ReadRuns, Ledger!ledger
  <2>15. ASSUME ReaperScan PROVE LedgerStep
    BY <2>15 DEF ReaperScan, Ledger!ledger
  <2>16. ASSUME NEW f \in Finalisers, NEW r \in Runs, ReaderAsks(f, r) PROVE LedgerStep
    BY <2>16 DEF ReaderAsks, Ledger!ledger
  <2>17. ASSUME NEW r \in Runs, ReaperAsks(r) PROVE LedgerStep
    BY <2>17 DEF ReaperAsks, Ledger!ledger
  <2>18. ASSUME NEW f \in Finalisers, NEW r \in Runs, AskFails(f, r) PROVE LedgerStep
    BY <2>18 DEF AskFails, Ledger!ledger
  <2>19. ASSUME NEW f \in Finalisers, Finalise(f) PROVE LedgerStep
    <3>1. PICK d \in found[f] : status[d[1]] = "running" /\ CloseRow(d[1], d[2])
      BY <2>19 DEF Finalise
    <3>2. d[1] \in Runs /\ d[2] \in {"completed", "failed"} /\ UNCHANGED <<handed, told>>
      BY <2>19, <3>1 DEF Finalise
    <3>3. Ledger!Close(d[1])
      BY <3>1, <3>2 DEF CloseRow, Ledger!Close, Ledger!Verdicts
    <3> QED
      BY <3>2, <3>3 DEF Ledger!Next
  <2>20. ASSUME NEW f \in Finalisers, FindClosed(f) PROVE LedgerStep
    BY <2>20 DEF FindClosed, Ledger!ledger
  <2>21. ASSUME NEW f \in Finalisers, ReportVerdict(f) PROVE LedgerStep
    <3>1. PICK r \in owes[f] : Send(r) /\ UNCHANGED <<status, handed>>
      BY <2>21 DEF ReportVerdict
    <3>2. r \in Runs /\ status[r] \in Verdicts /\ told[r] = 0
      BY <3>1 DEF RowInv, InDebt
    <3>3. Ledger!Tell(r)
      BY <3>1, <3>2 DEF Send, Ledger!Tell, Ledger!Verdicts
    <3> QED
      BY <3>2, <3>3 DEF Ledger!Next
  <2>22. ASSUME NEW r \in Runs, CacheExpires(r) PROVE LedgerStep
    BY <2>22 DEF CacheExpires, Ledger!ledger
  <2>23. ASSUME NEW r \in Runs, Ages(r) PROVE LedgerStep
    BY <2>23 DEF Ages, Ledger!ledger
  <2>24. ASSUME Restart PROVE LedgerStep
    BY <2>24 DEF Restart, Ledger!SetAside, Ledger!Next
  <2>25. CASE UNCHANGED vars
    BY <2>25 DEF vars, Ledger!ledger
  <2> QED
    BY <2>1, <2>2, <2>3, <2>4, <2>5, <2>6, <2>7, <2>8, <2>9, <2>10, <2>11, <2>12, <2>13,
       <2>14, <2>15, <2>16, <2>17, <2>18, <2>19, <2>20, <2>21, <2>22, <2>23, <2>24, <2>25
    DEF Next, Engine, Work, Resolve
<1> QED
  BY <1>1, <1>2, TypeCorrect, LedgerInvariant, PTL DEF Spec, LedgerSpec, Ledger!Spec

\* The runs that hold one of the engine's slots, and the runs that hold their
\* connector's lock; only finitely many do, however many rows there are.
SlotHolders == {r \in Runs : task[r] \in HoldsSlot}
OneLockHolder == \A r \in Runs : \A s \in Siblings(r) : ~(task[r] \in HoldsLock /\ task[s] \in HoldsLock)
EngineInv == OneLockHolder /\ IsFiniteSet(SlotHolders) /\ Cardinality(SlotHolders) <= MaxConcurrent

\* A step that lets no task take a lock or a slot keeps the limits.
LEMMA ReleasingKeepsLimits ==
  ASSUME EngineInv,
         \A r \in Runs : /\ task'[r] \in HoldsLock => task[r] \in HoldsLock
                         /\ task'[r] \in HoldsSlot => task[r] \in HoldsSlot
  PROVE  EngineInv'
<1>1. OneLockHolder'
  BY DEF EngineInv, OneLockHolder, Siblings, RunsOf
<1>2. IsFiniteSet(SlotHolders) /\ SlotHolders' \in SUBSET SlotHolders
  BY DEF EngineInv, SlotHolders
<1>3. IsFiniteSet(SlotHolders') /\ Cardinality(SlotHolders') <= Cardinality(SlotHolders)
  BY <1>2, FS_Subset
<1>4. Cardinality(SlotHolders) \in Nat /\ Cardinality(SlotHolders') \in Nat
  BY <1>2, <1>3, FS_CardinalityType
<1>5. Cardinality(SlotHolders) <= MaxConcurrent
  BY DEF EngineInv
<1> QED
  BY <1>1, <1>3, <1>4, <1>5, BoundsAssumption DEF EngineInv

\* Taking the lock of a connector, which no sibling holds, keeps one holder per connector.
LEMMA LockingKeepsLimits ==
  ASSUME TypeOK, EngineInv, NEW r \in Runs, StartTask(r)
  PROVE  EngineInv'
<1>1. CASE Locked(ConnectorOf[r])
  <2>1. task' = [task EXCEPT ![r] = "skipped"]
    BY <1>1 DEF StartTask
  <2> QED
    BY <2>1, ReleasingKeepsLimits DEF TypeOK, HoldsLock, HoldsSlot
<1>2. CASE ~Locked(ConnectorOf[r])
  <2>1. task' = [task EXCEPT ![r] = "waiting"]
    BY <1>2 DEF StartTask
  <2>2. \A s \in Siblings(r) : task[s] \notin HoldsLock
    BY <1>2 DEF Locked, Siblings
  <2>3. OneLockHolder'
    BY <2>1, <2>2 DEF EngineInv, OneLockHolder, Siblings, RunsOf, TypeOK
  <2>4. task[r] = "queued"
    BY DEF StartTask
  <2>5. SlotHolders' = SlotHolders
    BY <2>1, <2>4 DEF SlotHolders, HoldsSlot, TypeOK
  <2> QED
    BY <2>3, <2>5 DEF EngineInv
<1> QED
  BY <1>1, <1>2

\* Taking a slot, when one is free, stays within the semaphore.
LEMMA SlotKeepsLimits ==
  ASSUME TypeOK, EngineInv, NEW r \in Runs, AcquireSlot(r)
  PROVE  EngineInv'
<1>1. task[r] = "waiting" /\ task' = [task EXCEPT ![r] = "working"]
  BY DEF AcquireSlot
<1>2. OneLockHolder'
  BY <1>1 DEF EngineInv, OneLockHolder, Siblings, RunsOf, HoldsLock, HoldsSlot, TypeOK
<1>3. SlotHolders' = SlotHolders \union {r} /\ r \notin SlotHolders
  BY <1>1 DEF SlotHolders, HoldsSlot, TypeOK
<1>4. IsFiniteSet(SlotHolders) /\ Cardinality(SlotHolders) < MaxConcurrent
  BY DEF EngineInv, AcquireSlot, SlotHolders
<1>5. IsFiniteSet(SlotHolders') /\ Cardinality(SlotHolders') = Cardinality(SlotHolders) + 1
  BY <1>3, <1>4, FS_AddElement
<1>6. Cardinality(SlotHolders) \in Nat
  BY <1>4, FS_CardinalityType
<1>7. Cardinality(SlotHolders') <= MaxConcurrent
  BY <1>4, <1>5, <1>6, BoundsAssumption
<1> QED
  BY <1>2, <1>5, <1>7 DEF EngineInv

\* The engine works on one run of a connector at a time, and on at most MaxConcurrent
\* runs in all, for any number of rows, triggers and restarts.
THEOREM EngineRespectsLimits == Spec => []EngineLimits
<1>1. Init => EngineInv
  <2> SUFFICES ASSUME Init PROVE EngineInv
    OBVIOUS
  <2>1. SlotHolders = {} /\ OneLockHolder
    BY DEF Init, SlotHolders, OneLockHolder, Siblings, RunsOf, HoldsLock, HoldsSlot
  <2> QED
    BY <2>1, FS_EmptySet, BoundsAssumption DEF EngineInv
<1>2. TypeOK /\ EngineInv /\ [Next]_vars => EngineInv'
  <2> SUFFICES ASSUME TypeOK, EngineInv, [Next]_vars PROVE EngineInv'
    OBVIOUS
  <2>1. ASSUME NEW r \in Runs, StartTask(r) PROVE EngineInv'
    BY <2>1, LockingKeepsLimits
  <2>2. ASSUME NEW r \in Runs, AcquireSlot(r) PROVE EngineInv'
    BY <2>2, SlotKeepsLimits
  <2>3. ASSUME NEW k \in Callers, InsertRun(k) PROVE EngineInv'
    <3>1. \E r \in Runs : task' = [task EXCEPT ![r] = "queued"]
      BY <2>3 DEF InsertRun, TypeOK
    <3> QED
      BY <3>1, ReleasingKeepsLimits DEF TypeOK, HoldsLock, HoldsSlot
  <2>4. ASSUME NEW r \in Runs, Work(r) \/ TaskBreaks(r) \/ SendReport(r) \/ ReportReturns(r)
        PROVE  EngineInv'
    <3>1. /\ task[r] \in HoldsSlot
          /\ \E t \in HoldsSlot \union {"done"} : task' = [task EXCEPT ![r] = t]
      BY <2>4 DEF Work, EndRun, PostCrawl, HandOver, PostLost, TaskBreaks, SendReport,
                  ReportReturns, HoldsSlot
    <3> QED
      BY <3>1, ReleasingKeepsLimits DEF TypeOK, HoldsLock, HoldsSlot
  <2>5. ASSUME Restart PROVE EngineInv'
    <3>1. task' = [r \in Runs |-> IF task[r] = "none" THEN "none" ELSE "done"]
      BY <2>5 DEF Restart
    <3> QED
      BY <3>1, ReleasingKeepsLimits DEF HoldsLock, HoldsSlot
  <2>6. CASE UNCHANGED task
    BY <2>6, ReleasingKeepsLimits
  <2>7. \/ UNCHANGED task \/ Restart
        \/ \E k \in Callers : InsertRun(k)
        \/ \E r \in Runs : Engine(r)
    BY DEF Next, vars, CheckActive, Resolve, ReadRuns, ReaderAsks, AskFails, Finalise,
       FindClosed,
           ReportVerdict, ReaperScan, ReaperAsks, CrawlEnds, CrawlPurged, CacheExpires, Ages
  <2> QED
    BY <2>1, <2>2, <2>3, <2>4, <2>5, <2>6, <2>7 DEF Engine
<1>3. EngineInv => EngineLimits
  BY DEF EngineInv, OneLockHolder, SlotHolders, EngineLimits
<1> QED
  BY <1>1, <1>2, <1>3, TypeCorrect, PTL DEF Spec

(***************************************************************************)
(* The verdict of a handed-over run.  What the resolver has cached for an   *)
(* open row, and what a finaliser is about to write on it, is still borne   *)
(* out by the crawl job: the job only moves on from "running", and a row    *)
(* has a cache entry or a verdict under way only once it is handed over,    *)
(* when no task can post its crawl again.                                   *)
(***************************************************************************)
Bears(r, v) ==
  /\ v = "completed" => job[r] \in {"completed", "gone"}
  /\ v = "failed" => job[r] \in {"failed", "gone"} \/ age[r] = "expired"
VerdictInv ==
  \A r \in Runs :
    /\ cache[r] # "none" => r \in handed
    /\ status[r] = "running" =>
         Bears(r, cache[r]) /\ \A f \in Finalisers : \A d \in found[f] : d[1] = r => Bears(r, d[2])

\* A step that posts no crawl takes no verdict's ground away: the job of a run changes
\* only while it is running, or is purged, and an expired row stays expired.
JobsMoveOn ==
  \A r \in Runs :
    /\ job'[r] = job[r] \/ job[r] = "running" \/ job'[r] = "gone"
    /\ age[r] = "expired" => age'[r] = "expired"

\* A step that opens no row, adds no verdict and fills no cache keeps VerdictInv.
LEMMA QuietStepKeepsVerdicts ==
  ASSUME VerdictInv, JobsMoveOn, handed \subseteq handed',
         \A r \in Runs : status'[r] = "running" => status[r] = "running",
         \A r \in Runs : cache'[r] \in {cache[r], "none"},
         \A f \in Finalisers : found'[f] \subseteq found[f]
  PROVE  VerdictInv'
<1> SUFFICES ASSUME NEW r \in Runs
             PROVE  /\ cache'[r] # "none" => r \in handed'
                    /\ status'[r] = "running" =>
                         /\ Bears(r, cache[r])'
                         /\ \A f \in Finalisers : \A d \in found'[f] : d[1] = r => Bears(r, d[2])'
  BY DEF VerdictInv
<1>1. cache'[r] # "none" => r \in handed'
  BY DEF VerdictInv
<1>2. ASSUME status'[r] = "running" PROVE Bears(r, cache[r])'
  <2>1. CASE cache'[r] = "none"
    BY <2>1 DEF Bears
  <2>2. CASE cache'[r] = cache[r]
    <3>1. Bears(r, cache[r])
      BY <1>2 DEF VerdictInv
    <3>2. /\ cache[r] = "completed" => job'[r] \in {"completed", "gone"}
          /\ cache[r] = "failed" => job'[r] \in {"failed", "gone"} \/ age'[r] = "expired"
      BY <3>1 DEF Bears, JobsMoveOn
    <3> QED
      BY <3>2, <2>2 DEF Bears
  <2> QED
    BY <2>1, <2>2
<1>3. ASSUME status'[r] = "running", NEW f \in Finalisers, NEW d \in found'[f], d[1] = r
      PROVE  Bears(r, d[2])'
  <2>1. Bears(r, d[2])
    BY <1>3 DEF VerdictInv
  <2> QED
    BY <2>1 DEF Bears, JobsMoveOn
<1> QED
  BY <1>1, <1>2, <1>3

\* A finaliser that asks about a run comes to hold a verdict the job bears out, and
\* caches what the job says.
LEMMA AskingKeepsVerdicts ==
  ASSUME TypeOK, VerdictInv, NEW f \in Finalisers, NEW r \in Runs, NEW live, NEW V,
         r \in handed, UNCHANGED <<status, handed, age, job>>,
         cache' = cache \/ cache' = [cache EXCEPT ![r] = live],
         found' = found \/ found' = [found EXCEPT ![f] = {<<r, V>>}],
         status[r] = "running" => Bears(r, live) /\ Bears(r, V)
  PROVE  VerdictInv'
<1> USE DEF TypeOK
<1> SUFFICES ASSUME NEW s \in Runs
             PROVE  /\ cache'[s] # "none" => s \in handed
                    /\ status[s] = "running" =>
                         /\ Bears(s, cache'[s])
                         /\ \A g \in Finalisers : \A d \in found'[g] : d[1] = s => Bears(s, d[2])
  BY DEF VerdictInv, Bears
<1>1. cache'[s] = cache[s] \/ (s = r /\ cache'[s] = live)
  OBVIOUS
<1>2. \A g \in Finalisers : \A d \in found'[g] : d \in found[g] \/ d = <<r, V>>
  OBVIOUS
<1> QED
  BY <1>1, <1>2 DEF VerdictInv

\* The verdict written for a handed-over run is the crawl's own, whatever was cached,
\* however long a finaliser slept on its answer, and whoever closed or purged meanwhile.
THEOREM HandedVerdicts == Spec => HandedVerdictIsTheCrawls
<1>1. Init => VerdictInv
  BY DEF Init, VerdictInv, Bears
<1>2. TypeOK /\ LedgerInv /\ VerdictInv /\ [Next]_vars => VerdictInv'
  <2> SUFFICES ASSUME TypeOK, LedgerInv, VerdictInv, [Next]_vars PROVE VerdictInv'
    OBVIOUS
  <2> USE DEF rows, finalising, counters
  <2>1. ASSUME NEW k \in Callers, InsertRun(k) PROVE VerdictInv'
    <3>1. PICK r \in opening[k] : status' = [status EXCEPT ![r] = "running"]
      BY <2>1 DEF InsertRun
    <3>2. r \in Runs /\ r \notin handed
      BY <3>1 DEF LedgerInv, OpeningInv, RowInv, TypeOK
    <3>3. UNCHANGED <<handed, age, cache, found, job>>
      BY <2>1 DEF InsertRun
    <3>4. cache[r] = "none" /\ \A f \in Finalisers : \A d \in found[f] : d[1] # r
      BY <3>2 DEF VerdictInv, LedgerInv, FinaliserInv
    <3>5. \A s \in Runs : s # r => status'[s] = status[s]
      BY <3>1, <3>2 DEF TypeOK
    <3>6. Bears(r, cache[r])
      BY <3>4 DEF Bears
    <3> QED
      BY <3>3, <3>4, <3>5, <3>6 DEF VerdictInv, Bears
  <2>2. ASSUME NEW r \in Runs, PostCrawl(r) PROVE VerdictInv'
    <3>1. r \notin handed
      BY <2>2 DEF PostCrawl, LedgerInv, RowInv, MayWrite
    <3>2. cache[r] = "none" /\ \A f \in Finalisers : \A d \in found[f] : d[1] # r
      BY <3>1 DEF VerdictInv, LedgerInv, FinaliserInv
    <3>3. /\ job' = [job EXCEPT ![r] = "running"]
          /\ UNCHANGED <<status, handed, age, cache, found>>
      BY <2>2 DEF PostCrawl
    <3>4. \A s \in Runs : s # r => job'[s] = job[s]
      BY <3>3 DEF TypeOK
    <3> QED
      BY <3>2, <3>3, <3>4 DEF VerdictInv, Bears
  <2>3. ASSUME NEW f \in Finalisers, NEW r \in Runs, ReaderAsks(f, r) PROVE VerdictInv'
    <3> DEFINE live == IF cache[r] # "none" THEN cache[r] ELSE job[r]
    <3>1. /\ cache' = [cache EXCEPT ![r] = live]
          /\ found' = IF live \in TerminalCrawl
                      THEN [found EXCEPT ![f] = {<<r, VerdictOf(live)>>}] ELSE found
          /\ r \in todo[f]
          /\ UNCHANGED <<status, handed, age, job>>
      BY <2>3 DEF ReaderAsks
    <3>2. r \in handed
      BY <3>1 DEF LedgerInv, FinaliserInv
    <3>3. status[r] = "running" => Bears(r, live)
      BY DEF VerdictInv, Bears
    <3> HIDE DEF live
    <3>4. CASE live \in TerminalCrawl
      <4>1. VerdictOf(live) = live
        BY <3>4 DEF TerminalCrawl, VerdictOf
      <4>2. found' = [found EXCEPT ![f] = {<<r, live>>}]
        BY <3>1, <3>4, <4>1
      <4> QED
        BY <3>1, <3>2, <3>3, <4>2, AskingKeepsVerdicts
    <3>5. CASE live \notin TerminalCrawl
      <4>1. found' = found
        BY <3>1, <3>5
      <4> QED
        BY <3>1, <3>2, <3>3, <4>1, AskingKeepsVerdicts
    <3> QED
      BY <3>4, <3>5
  <2>4. ASSUME NEW r \in Runs, ReaperAsks(r) PROVE VerdictInv'
    <3> DEFINE verdict == VerdictOf(job[r])
    <3>1. /\ found' = IF job[r] \in TerminalCrawl \/ job[r] = "gone" \/ age[r] = "expired"
                      THEN [found EXCEPT ![Reaper] = {<<r, verdict>>}] ELSE found
          /\ r \in todo[Reaper]
          /\ UNCHANGED <<status, handed, age, job, cache>>
      BY <2>4 DEF ReaperAsks
    <3>2. r \in handed /\ Reaper \in Finalisers
      BY <3>1 DEF LedgerInv, FinaliserInv
    <3>3. job[r] \in TerminalCrawl \/ job[r] = "gone" \/ age[r] = "expired" => Bears(r, verdict)
      BY DEF Bears, VerdictOf, TerminalCrawl
    <3> HIDE DEF verdict
    <3>4. CASE job[r] \in TerminalCrawl \/ job[r] = "gone" \/ age[r] = "expired"
      BY <3>1, <3>2, <3>3, <3>4, AskingKeepsVerdicts
    <3>5. CASE ~(job[r] \in TerminalCrawl \/ job[r] = "gone" \/ age[r] = "expired")
      BY <3>1, <3>5, QuietStepKeepsVerdicts DEF JobsMoveOn
    <3> QED
      BY <3>4, <3>5
  <2>5. ASSUME NEW f \in Finalisers, Finalise(f) PROVE VerdictInv'
    <3>1. PICK d \in found[f] : /\ CloseRow(d[1], d[2])
                                /\ found' = [found EXCEPT ![f] = {}]
      BY <2>5 DEF Finalise
    <3>2. d[1] \in Runs /\ d[2] \in {"completed", "failed"}
      BY <3>1 DEF TypeOK
    <3>3. \A s \in Runs : status'[s] = "running" => status[s] = "running"
      BY <3>1, <3>2 DEF CloseRow, TypeOK
    <3>4. \A g \in Finalisers : found'[g] \subseteq found[g]
      BY <3>1 DEF TypeOK
    <3>5. UNCHANGED <<handed, age, cache, job>>
      BY <2>5 DEF Finalise
    <3> QED
      BY <3>3, <3>4, <3>5, QuietStepKeepsVerdicts DEF JobsMoveOn
  <2>6. ASSUME NEW f \in Finalisers, FindClosed(f) PROVE VerdictInv'
    BY <2>6, QuietStepKeepsVerdicts DEF FindClosed, JobsMoveOn, TypeOK
  <2>7. ASSUME NEW r \in Runs, EndRun(r) \/ PostLost(r) PROVE VerdictInv'
    <3>1. \A s \in Runs : status'[s] = "running" => status[s] = "running"
      BY <2>7 DEF EndRun, PostLost, CloseRow, TypeOK
    <3>2. UNCHANGED <<handed, age, cache, found, job>>
      BY <2>7 DEF EndRun, PostLost
    <3> QED
      BY <3>1, <3>2, QuietStepKeepsVerdicts DEF JobsMoveOn
  <2>8. ASSUME NEW r \in Runs, HandOver(r) PROVE VerdictInv'
    BY <2>8, QuietStepKeepsVerdicts DEF HandOver, JobsMoveOn
  <2>9. ASSUME NEW r \in Runs, CrawlEnds(r) \/ CrawlPurged(r) PROVE VerdictInv'
    <3>1. JobsMoveOn
      BY <2>9 DEF CrawlEnds, CrawlPurged, JobsMoveOn, TypeOK
    <3>2. UNCHANGED <<status, handed, cache, found>>
      BY <2>9 DEF CrawlEnds, CrawlPurged
    <3> QED
      BY <3>1, <3>2, QuietStepKeepsVerdicts
  <2>10. ASSUME NEW r \in Runs, CacheExpires(r) PROVE VerdictInv'
    BY <2>10, QuietStepKeepsVerdicts DEF CacheExpires, JobsMoveOn, TypeOK
  <2>11. ASSUME NEW r \in Runs, Ages(r) PROVE VerdictInv'
    BY <2>11, QuietStepKeepsVerdicts DEF Ages, JobsMoveOn, TypeOK
  <2>12. ASSUME Restart PROVE VerdictInv'
    BY <2>12, QuietStepKeepsVerdicts DEF Restart, JobsMoveOn
  <2>13. CASE UNCHANGED <<status, handed, age, cache, found, job>>
    BY <2>13, QuietStepKeepsVerdicts DEF JobsMoveOn
  <2>14. \/ UNCHANGED <<status, handed, age, cache, found, job>>
         \/ Restart
         \/ \E k \in Callers : InsertRun(k)
         \/ \E f \in Finalisers : Finalise(f) \/ FindClosed(f) \/ \E r \in Runs : ReaderAsks(f, r)
         \/ \E r \in Runs : \/ Work(r) \/ ReaperAsks(r) \/ CrawlEnds(r) \/ CrawlPurged(r)
                            \/ CacheExpires(r) \/ Ages(r)
    BY DEF Next, vars, CheckActive, Engine, StartTask, AcquireSlot, TaskBreaks, SendReport,
           ReportReturns, Resolve, ReadRuns, AskFails, ReportVerdict, ReaperScan
  <2> QED
    BY <2>1, <2>2, <2>3, <2>4, <2>5, <2>6, <2>7, <2>8, <2>9, <2>10, <2>11, <2>12, <2>13, <2>14
    DEF Work
<1> DEFINE OwnVerdict ==
      \A r \in handed :
        status[r] = "running" =>
          /\ status'[r] = "completed" => job[r] \in {"completed", "gone"}
          /\ status'[r] = "failed" => job[r] \in {"failed", "gone"} \/ age[r] = "expired"
<1>3. TypeOK /\ LedgerInv /\ VerdictInv /\ [Next]_vars => [OwnVerdict]_vars
  <2> SUFFICES ASSUME TypeOK, LedgerInv, VerdictInv, Next PROVE OwnVerdict
    OBVIOUS
  <2> SUFFICES ASSUME NEW r \in handed, status[r] = "running", status'[r] \in {"completed", "failed"}
               PROVE  Bears(r, status'[r])
    BY DEF Bears
  <2>1. r \in Runs /\ task[r] \notin MayWrite
    BY DEF TypeOK, LedgerInv, RowInv
  <2>2. ASSUME NEW f \in Finalisers, Finalise(f) PROVE Bears(r, status'[r])
    <3>1. PICK d \in found[f] : CloseRow(d[1], d[2])
      BY <2>2 DEF Finalise
    <3>2. d[1] = r /\ status'[r] = d[2]
      BY <3>1, <2>1 DEF CloseRow, TypeOK
    <3> QED
      BY <3>1, <3>2, <2>1 DEF VerdictInv
  <2>3. ASSUME NEW s \in Runs, EndRun(s) \/ PostLost(s) PROVE status'[r] = status[r]
    <3>1. s # r
      BY <2>1, <2>3 DEF EndRun, PostLost, MayWrite
    <3> QED
      BY <3>1, <2>1, <2>3 DEF EndRun, PostLost, CloseRow, TypeOK
  <2>4. ASSUME NEW k \in Callers, InsertRun(k) PROVE status'[r] = status[r]
    <3>1. PICK s \in opening[k] : status' = [status EXCEPT ![s] = "running"]
      BY <2>4 DEF InsertRun
    <3> QED
      BY <3>1, <2>1 DEF TypeOK
  <2>5. ASSUME Restart PROVE status'[r] = status[r]
    BY <2>1, <2>5 DEF Restart
  <2>6. \/ UNCHANGED status
        \/ Restart
        \/ \E k \in Callers : InsertRun(k)
        \/ \E f \in Finalisers : Finalise(f)
        \/ \E s \in Runs : EndRun(s) \/ PostLost(s)
    BY DEF Next, rows, CheckActive, Engine, Work, PostCrawl, HandOver, StartTask, AcquireSlot,
           TaskBreaks, SendReport, ReportReturns, Resolve, ReadRuns, ReaderAsks, AskFails,
           FindClosed, ReportVerdict, ReaperScan, ReaperAsks, CrawlEnds, CrawlPurged,
           CacheExpires, Ages
  <2> QED
    BY <2>2, <2>3, <2>4, <2>5, <2>6
<1> QED
  BY <1>1, <1>2, <1>3, TypeCorrect, LedgerInvariant, PTL DEF Spec, HandedVerdictIsTheCrawls

=============================================================================
