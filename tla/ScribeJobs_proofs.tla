------------------------- MODULE ScribeJobs_proofs -------------------------
(* What Scribe's queue guarantees for any number of rows, containers,      *)
(* workers, requests, retries and restarts.                                *)
EXTENDS ScribeJobs, TLAPS

USE DEF Live

Loaded == {"loaded", "heard", "done", "failing", "purged"}

\* A job that has loaded its row stays well typed as it goes on.
LEMMA GoesToType ==
  ASSUME job \in [Workers -> Jobs], NEW w \in Workers, job[w].pc \in Loaded,
         NEW pc \in Loaded, GoesTo(w, pc)
  PROVE  job' \in [Workers -> Jobs]
<1> DEFINE J == [pc : Loaded, row : Rows, mine : Nat, token : Nat]
<1>1. job[w] \in J
  BY DEF Jobs, Resting, Loaded
<1>2. [job[w] EXCEPT !.pc = pc] \in J
  BY <1>1
<1>3. J \subseteq Jobs
  BY DEF Jobs, Loaded
<1>4. job' = [job EXCEPT ![w] = [job[w] EXCEPT !.pc = pc]]
  BY DEF GoesTo
<1> QED
  BY <1>2, <1>3, <1>4

\* The row of a busy worker or request is a row.
LEMMA RowsOfJobs ==
  ASSUME TypeOK
  PROVE  /\ \A w \in Workers : job[w].pc # "idle" => job[w].row \in Rows
         /\ \A q \in Callers : call[q].pc \notin {"idle", "erasing"} => call[q].row \in Rows
         /\ \A q \in Callers : call[q].pc = "erasing" => call[q].rows \subseteq Rows
BY DEF TypeOK, Jobs, Calls, Resting

\* Every state of the system is well typed; no row is claimed more than MaxAttempts times.
THEOREM TypeCorrect == Spec => []TypeOK
<1>1. Init => TypeOK
  BY CountsAssumption DEF Init, TypeOK, Jobs, Calls, Resting, Excuses
<1>2. TypeOK /\ [Next]_vars => TypeOK'
  <2> SUFFICES ASSUME TypeOK, [Next]_vars PROVE TypeOK'
    OBVIOUS
  <2> USE DEF TypeOK, queue, disk, counters
  <2> USE RowsOfJobs
  <2>i. Resting \in Jobs /\ Resting \in Calls
    BY DEF Jobs, Calls
  <2>1. ASSUME NEW q \in Callers, NEW r \in Rows, SaveAudio(q, r) PROVE TypeOK'
    BY <2>1 DEF SaveAudio, Calls
  <2>2. ASSUME NEW q \in Callers, NEW r \in Rows, RetryLoads(q, r) PROVE TypeOK'
    BY <2>2 DEF RetryLoads, Calls
  <2>3. ASSUME NEW q \in Callers, NEW r \in Rows, DeleteAudio(q, r) PROVE TypeOK'
    BY <2>3 DEF DeleteAudio, Calls, Excused, Excuses
  <2>4. ASSUME NEW q \in Callers, InsertRow(q) PROVE TypeOK'
    BY <2>4, <2>i DEF InsertRow, Resting
  <2>5. ASSUME NEW q \in Callers, RetryWrites(q) PROVE TypeOK'
    BY <2>5, <2>i, CountsAssumption DEF RetryWrites, Excused, Excuses
  <2>6. ASSUME NEW q \in Callers, DeleteRow(q) PROVE TypeOK'
    BY <2>6, <2>i DEF DeleteRow
  <2>7. ASSUME NEW w \in Workers, Claim(w) PROVE TypeOK'
    <3>1. PICK r \in Rows :
            /\ Claimable(r)
            /\ claimed' = [claimed EXCEPT ![r] = @ + 1]
            /\ claim' = [claim EXCEPT ![r] = claimed[r] + 1]
            /\ claimAge' = [claimAge EXCEPT ![r] = "fresh"]
            /\ attempts' = [attempts EXCEPT ![r] = @ + 1]
            /\ job' = [job EXCEPT ![w] = [pc |-> "claimed", row |-> r, mine |-> claimed[r] + 1]]
      BY <2>7 DEF Claim
    <3>2. attempts[r] + 1 \in 0..MaxAttempts
      BY <3>1, CountsAssumption DEF Claimable
    <3>3. [pc |-> "claimed", row |-> r, mine |-> claimed[r] + 1] \in Jobs
      BY DEF Jobs
    <3>4. UNCHANGED <<status, disk, aged, phase, call, counters>>
      BY <2>7 DEF Claim
    <3> QED
      BY <3>1, <3>2, <3>3, <3>4
  <2>8. ASSUME NEW w \in Workers, LoadJob(w) PROVE TypeOK'
    <3>1. job[w].row \in Rows /\ job[w].mine \in Nat
      BY <2>8 DEF LoadJob, Jobs, Resting
    <3>2. [pc |-> "loaded", row |-> job[w].row, mine |-> job[w].mine, token |-> claim[job[w].row]]
            \in Jobs
      BY <3>1 DEF Jobs
    <3> QED
      BY <2>8, <2>i, <3>2 DEF LoadJob, Ends
  <2>9. ASSUME NEW w \in Workers, ReadAudio(w) PROVE TypeOK'
    <3>1. job' \in [Workers -> Jobs]
      BY <2>9, GoesToType DEF ReadAudio, Loaded
    <3> QED
      BY <2>9, <3>1 DEF ReadAudio
  <2>10. ASSUME NEW w \in Workers, Transcribe(w) PROVE TypeOK'
    <3>1. job' \in [Workers -> Jobs]
      BY <2>10, GoesToType DEF Transcribe, Loaded
    <3> QED
      BY <2>10, <3>1 DEF Transcribe
  <2>11. ASSUME NEW w \in Workers, LosesRow(w) PROVE TypeOK'
    BY <2>11, <2>i DEF LosesRow, Ends
  <2>12. ASSUME NEW w \in Workers, FailRow(w) PROVE TypeOK'
    BY <2>12, <2>i DEF FailRow, Ends
  <2>13. ASSUME NEW w \in Workers, PurgeAudio(w) PROVE TypeOK'
    <3>1. job' \in [Workers -> Jobs]
      BY <2>13, GoesToType DEF PurgeAudio, Loaded
    <3> QED
      BY <2>13, <3>1 DEF PurgeAudio
  <2>14. ASSUME NEW w \in Workers, CommitResult(w) PROVE TypeOK'
    BY <2>14, <2>i DEF CommitResult, MarkTranscribed, Ends
  <2>15. ASSUME NEW w \in Workers, CommitBreaks(w) PROVE TypeOK'
    <3>1. job' \in [Workers -> Jobs]
      BY <2>15, GoesToType DEF CommitBreaks, Loaded
    <3> QED
      BY <2>15, <3>1 DEF CommitBreaks, MarkTranscribed, Excused, Excuses
  <2>16. ASSUME NEW w \in Workers, JobBreaks(w) PROVE TypeOK'
    BY <2>16, <2>i DEF JobBreaks, Ends
  <2>17. ASSUME NEW c \in Containers, Reap(c) PROVE TypeOK'
    BY <2>17 DEF Reap, FailRows
  <2>18. ASSUME NEW c \in Containers, Boot(c) PROVE TypeOK'
    BY <2>18 DEF Boot, FailRows
  <2>19. ASSUME NEW c \in Containers, Recover(c) PROVE TypeOK'
    BY <2>19 DEF Recover, FailRows
  <2>20. ASSUME NEW c \in Containers, RecoveryBreaks(c) PROVE TypeOK'
    BY <2>20 DEF RecoveryBreaks
  <2>21. ASSUME NEW c \in Containers, Stop(c) PROVE TypeOK'
    BY <2>21, <2>i DEF Stop, Excused, Excuses
  <2>25. ASSUME NEW q \in Callers, EraseAudio(q) PROVE TypeOK'
    <3> DEFINE R == {r \in Rows : status[r] \in Live}
    <3>1. [pc |-> "erasing", rows |-> R] \in Calls
      BY DEF Calls
    <3>2. Excused(R, "deleted") \in [Rows -> SUBSET Excuses]
      BY DEF Excused, Excuses
    <3> QED
      BY <2>25, <3>1, <3>2 DEF EraseAudio
  <2>26. ASSUME NEW q \in Callers, EraseRows(q) PROVE TypeOK'
    BY <2>26, <2>i DEF EraseRows, Excused, Excuses
  <2>27. ASSUME NEW q \in Callers, ErasureBreaks(q) PROVE TypeOK'
    BY <2>27, <2>i DEF ErasureBreaks
  <2>22. ASSUME NEW r \in Rows, ClaimAges(r) PROVE TypeOK'
    BY <2>22 DEF ClaimAges
  <2>23. ASSUME NEW r \in Rows, RowAges(r) PROVE TypeOK'
    BY <2>23 DEF RowAges
  <2>24. CASE UNCHANGED vars
    BY <2>24 DEF vars
  <2> QED
    BY <2>1, <2>2, <2>3, <2>4, <2>5, <2>6, <2>7, <2>8, <2>9, <2>10, <2>11, <2>12, <2>13,
       <2>14, <2>15, <2>16, <2>17, <2>18, <2>19, <2>20, <2>21, <2>22, <2>23, <2>24,
       <2>25, <2>26, <2>27
    DEF Next, Request, Work
<1> QED
  BY <1>1, <1>2, PTL DEF Spec

\* While a finisher holds the lock of a row it has purged, the row stays in the queue, and
\* no other finisher and no erasure holds it.
LockInv ==
  /\ \A w \in Workers : job[w].pc = "purged" =>
       status[job[w].row] = "processing" /\ job[w].row \notin file
  /\ \A v, w \in Workers :
       job[v].pc = "purged" /\ job[w].pc = "purged" /\ job[v].row = job[w].row => v = w
  /\ \A w \in Workers, q \in Callers :
       job[w].pc = "purged" /\ call[q].pc = "erasing" => job[w].row \notin call[q].rows

\* The row of an upload that is under way is its own, and its recording is there; nobody
\* deletes a row that is not there yet.
UploadInv ==
  /\ \A q \in Callers : call[q].pc = "saved" =>
       status[call[q].row] = "absent" /\ call[q].row \in file
  /\ \A p, q \in Callers :
       call[p].pc = "saved" /\ call[q].pc = "saved" /\ call[p].row = call[q].row => p = q
  /\ \A q \in Callers : call[q].pc = "deleting" => status[call[q].row] # "absent"
  /\ \A r \in Rows : status[r] = "absent" => r \notin path

RecordingsInv == RecordingsKept /\ LockInv /\ UploadInv

\* The invariant behind the recordings, for any overlap of containers, takeovers, retries,
\* deletes and late finishers.
THEOREM RecordingsInvariant == Spec => []RecordingsInv
<1>1. Init => RecordingsInv
  BY DEF Init, RecordingsInv, RecordingsKept, LockInv, UploadInv, Locked, Purging, Resting
<1>2. TypeOK /\ RecordingsInv /\ [Next]_vars => RecordingsInv'
  <2> SUFFICES ASSUME TypeOK, RecordingsInv, [Next]_vars PROVE RecordingsInv'
    OBVIOUS
  <2> USE RowsOfJobs DEF TypeOK, RecordingsInv, queue, disk, counters, Resting
  <2>1. ASSUME NEW q \in Callers, NEW r \in Rows, SaveAudio(q, r) PROVE RecordingsInv'
    <3>1. LockInv'
      BY <2>1 DEF SaveAudio, LockInv
    <3>2. UploadInv'
      BY <2>1 DEF SaveAudio, UploadInv
    <3>3. RecordingsKept'
      BY <2>1 DEF SaveAudio, RecordingsKept, LockInv, UploadInv, Locked, Purging
    <3> QED
      BY <3>1, <3>2, <3>3
  <2>2. ASSUME NEW q \in Callers, NEW r \in Rows, RetryLoads(q, r) PROVE RecordingsInv'
    <3>1. LockInv'
      BY <2>2 DEF RetryLoads, LockInv
    <3>2. UploadInv'
      BY <2>2 DEF RetryLoads, UploadInv
    <3>3. RecordingsKept'
      BY <2>2 DEF RetryLoads, RecordingsKept, LockInv, UploadInv, Locked, Purging
    <3> QED
      BY <3>1, <3>2, <3>3
  <2>3. ASSUME NEW q \in Callers, NEW r \in Rows, DeleteAudio(q, r) PROVE RecordingsInv'
    <3>1. LockInv'
      BY <2>3 DEF DeleteAudio, LockInv
    <3>2. UploadInv'
      BY <2>3 DEF DeleteAudio, UploadInv
    <3>3. RecordingsKept'
      BY <2>3 DEF DeleteAudio, Excused, RecordingsKept, LockInv, UploadInv, Locked, Purging
    <3> QED
      BY <3>1, <3>2, <3>3
  <2>4. ASSUME NEW q \in Callers, InsertRow(q) PROVE RecordingsInv'
    <3>1. LockInv'
      BY <2>4 DEF InsertRow, LockInv, Locked, Purging
    <3>2. UploadInv'
      BY <2>4 DEF InsertRow, UploadInv
    <3>3. RecordingsKept'
      BY <2>4 DEF InsertRow, RecordingsKept, LockInv, UploadInv, Locked, Purging
    <3> QED
      BY <3>1, <3>2, <3>3
  <2>5. ASSUME NEW q \in Callers, RetryWrites(q) PROVE RecordingsInv'
    <3>1. LockInv'
      BY <2>5 DEF RetryWrites, LockInv, Locked, Purging
    <3>2. UploadInv'
      BY <2>5 DEF RetryWrites, UploadInv
    <3>3. RecordingsKept'
      <4> DEFINE r == call[q].row
      <4>1. /\ r \in Rows /\ ~Purging(r)
            /\ UNCHANGED <<path, file, job>>
            /\ \A t \in Rows \ {r} : status'[t] = status[t] /\ excuse'[t] = excuse[t]
            /\ status[r] = "transcribed" => excuse'[r] # {}
            /\ status[r] # "transcribed" => excuse'[r] = excuse[r]
            /\ status'[r] # "transcribed"
            /\ status'[r] \in {"processing", "failed"} => status[r] \in Live
        BY <2>5 DEF RetryWrites, Excused, Locked
      <4>2. \A t \in Rows : Purging(t)' <=> Purging(t)
        BY <4>1 DEF Purging
      <4> QED
        BY <4>1, <4>2 DEF RecordingsKept
    <3> QED
      BY <3>1, <3>2, <3>3
  <2>6. ASSUME NEW q \in Callers, DeleteRow(q) PROVE RecordingsInv'
    <3>1. LockInv'
      BY <2>6 DEF DeleteRow, LockInv, Locked, Purging
    <3>2. UploadInv'
      BY <2>6 DEF DeleteRow, UploadInv
    <3>3. RecordingsKept'
      BY <2>6 DEF DeleteRow, RecordingsKept, LockInv, UploadInv, Locked, Purging
    <3> QED
      BY <3>1, <3>2, <3>3
  <2>7. ASSUME NEW w \in Workers, Claim(w) PROVE RecordingsInv'
    <3>1. LockInv'
      BY <2>7 DEF Claim, Claimable, LockInv, Locked, Purging
    <3>2. UploadInv'
      BY <2>7 DEF Claim, Claimable, UploadInv
    <3>3. RecordingsKept'
      BY <2>7 DEF Claim, Claimable, RecordingsKept, LockInv, UploadInv, Locked, Purging
    <3> QED
      BY <3>1, <3>2, <3>3
  <2>8. ASSUME NEW w \in Workers, LoadJob(w) PROVE RecordingsInv'
    <3>1. LockInv'
      BY <2>8 DEF LoadJob, Ends, LockInv
    <3>2. UploadInv'
      BY <2>8 DEF LoadJob, UploadInv
    <3>3. RecordingsKept'
      BY <2>8 DEF LoadJob, Ends, RecordingsKept, LockInv, UploadInv, Locked, Purging
    <3> QED
      BY <3>1, <3>2, <3>3
  <2>9. ASSUME NEW w \in Workers, ReadAudio(w) PROVE RecordingsInv'
    <3>1. LockInv'
      BY <2>9 DEF ReadAudio, GoesTo, LockInv
    <3>2. UploadInv'
      BY <2>9 DEF ReadAudio, UploadInv
    <3>3. RecordingsKept'
      BY <2>9 DEF ReadAudio, GoesTo, RecordingsKept, LockInv, UploadInv, Locked, Purging
    <3> QED
      BY <3>1, <3>2, <3>3
  <2>10. ASSUME NEW w \in Workers, Transcribe(w) PROVE RecordingsInv'
    <3>1. LockInv'
      <4>1. PICK pc \in {"done", "failing"} : GoesTo(w, pc)
        BY <2>10 DEF Transcribe
      <4> QED
        BY <2>10, <4>1 DEF Transcribe, GoesTo, LockInv
    <3>2. UploadInv'
      BY <2>10 DEF Transcribe, UploadInv
    <3>3. RecordingsKept'
      BY <2>10 DEF Transcribe, GoesTo, RecordingsKept, LockInv, UploadInv, Locked, Purging
    <3> QED
      BY <3>1, <3>2, <3>3
  <2>11. ASSUME NEW w \in Workers, LosesRow(w) PROVE RecordingsInv'
    <3>1. LockInv'
      BY <2>11 DEF LosesRow, Ends, LockInv
    <3>2. UploadInv'
      BY <2>11 DEF LosesRow, UploadInv
    <3>3. RecordingsKept'
      BY <2>11 DEF LosesRow, Ends, RecordingsKept, LockInv, UploadInv, Locked, Purging
    <3> QED
      BY <3>1, <3>2, <3>3
  <2>12. ASSUME NEW w \in Workers, FailRow(w) PROVE RecordingsInv'
    <3>1. LockInv'
      BY <2>12 DEF FailRow, Ends, Owns, LockInv, Locked, Purging
    <3>2. UploadInv'
      BY <2>12 DEF FailRow, Ends, Owns, UploadInv
    <3>3. RecordingsKept'
      BY <2>12 DEF FailRow, Ends, Owns, RecordingsKept, LockInv, UploadInv, Locked, Purging
    <3> QED
      BY <3>1, <3>2, <3>3
  <2>13. ASSUME NEW w \in Workers, PurgeAudio(w) PROVE RecordingsInv'
    <3>1. LockInv'
      <4> DEFINE r == job[w].row
      <4>1. /\ r \in Rows /\ status[r] = "processing" /\ r \notin file'
            /\ file' \subseteq file
            /\ job'[w].pc = "purged" /\ job'[w].row = r
            /\ \A v \in Workers \ {w} : job'[v] = job[v]
            /\ UNCHANGED <<status, call>>
        BY <2>13 DEF PurgeAudio, GoesTo, Owns, Jobs
      <4>2. ~Purging(r) /\ ~Erasing(r)
        BY <2>13 DEF PurgeAudio, Locked
      <4> QED
        BY <4>1, <4>2 DEF LockInv, Purging, Erasing
    <3>2. UploadInv'
      BY <2>13 DEF PurgeAudio, GoesTo, Owns, UploadInv
    <3>3. RecordingsKept'
      BY <2>13 DEF PurgeAudio, GoesTo, Owns, RecordingsKept, LockInv, UploadInv, Locked, Purging
    <3> QED
      BY <3>1, <3>2, <3>3
  <2>14. ASSUME NEW w \in Workers, CommitResult(w) PROVE RecordingsInv'
    <3>1. LockInv'
      BY <2>14 DEF CommitResult, MarkTranscribed, Ends, LockInv
    <3>2. UploadInv'
      BY <2>14 DEF CommitResult, MarkTranscribed, UploadInv, LockInv
    <3>3. RecordingsKept'
      BY <2>14 DEF CommitResult, MarkTranscribed, Ends, RecordingsKept, LockInv, UploadInv,
                   Locked, Purging
    <3> QED
      BY <3>1, <3>2, <3>3
  <2>15. ASSUME NEW w \in Workers, CommitBreaks(w) PROVE RecordingsInv'
    <3> DEFINE r == job[w].row
    <3>1. /\ job[w].pc = "purged" /\ r \in Rows /\ status[r] = "processing" /\ r \notin file
          /\ GoesTo(w, "failing")
          /\ UNCHANGED <<file, call>>
      BY <2>15 DEF CommitBreaks, LockInv
    <3>2. CASE MarkTranscribed(r) /\ UNCHANGED excuse
      <4>1. LockInv'
        BY <3>1, <3>2 DEF LockInv, MarkTranscribed, GoesTo
      <4>2. UploadInv'
        BY <3>1, <3>2 DEF UploadInv, MarkTranscribed
      <4>3. RecordingsKept'
        BY <3>1, <3>2 DEF RecordingsKept, LockInv, Locked, Purging, MarkTranscribed, GoesTo
      <4> QED
        BY <4>1, <4>2, <4>3
    <3>3. CASE UNCHANGED <<status, path>> /\ excuse' = Excused({r}, "broken")
      <4>1. LockInv'
        BY <3>1, <3>3 DEF LockInv, GoesTo
      <4>2. UploadInv'
        BY <3>1, <3>3 DEF UploadInv
      <4>3. RecordingsKept'
        BY <3>1, <3>3 DEF RecordingsKept, Locked, Purging, GoesTo, Excused
      <4> QED
        BY <4>1, <4>2, <4>3
    <3> QED
      BY <2>15, <3>2, <3>3 DEF CommitBreaks
  <2>16. ASSUME NEW w \in Workers, JobBreaks(w) PROVE RecordingsInv'
    <3>1. LockInv'
      BY <2>16 DEF JobBreaks, Ends, LockInv
    <3>2. UploadInv'
      BY <2>16 DEF JobBreaks, UploadInv
    <3>3. RecordingsKept'
      BY <2>16 DEF JobBreaks, Ends, RecordingsKept, LockInv, UploadInv, Locked, Purging
    <3> QED
      BY <3>1, <3>2, <3>3
  <2>17. ASSUME NEW c \in Containers, Reap(c) PROVE RecordingsInv'
    <3>1. LockInv'
      BY <2>17 DEF Reap, FailRows, Reapable, LockInv, Locked, Purging
    <3>2. UploadInv'
      BY <2>17 DEF Reap, FailRows, Reapable, UploadInv
    <3>3. RecordingsKept'
      <4>1. /\ \A r \in Rows :
                 status'[r] = status[r] \/ (status[r] = "processing" /\ status'[r] = "failed")
            /\ UNCHANGED <<path, file, excuse, job>>
        BY <2>17 DEF Reap, FailRows, Reapable
      <4> QED
        BY <4>1 DEF RecordingsKept, Purging
    <3> QED
      BY <3>1, <3>2, <3>3
  <2>18. ASSUME NEW c \in Containers, Boot(c) PROVE RecordingsInv'
    <3>1. LockInv'
      BY <2>18 DEF Boot, FailRows, Reapable, LockInv, Locked, Purging
    <3>2. UploadInv'
      BY <2>18 DEF Boot, FailRows, Reapable, UploadInv
    <3>3. RecordingsKept'
      <4>1. /\ \A r \in Rows :
                 status'[r] = status[r] \/ (status[r] = "processing" /\ status'[r] = "failed")
            /\ UNCHANGED <<path, file, excuse, job>>
        BY <2>18 DEF Boot, FailRows, Reapable
      <4> QED
        BY <4>1 DEF RecordingsKept, Purging
    <3> QED
      BY <3>1, <3>2, <3>3
  <2>19. ASSUME NEW c \in Containers, Recover(c) PROVE RecordingsInv'
    <3>1. LockInv'
      BY <2>19 DEF Recover, FailRows, Exhausted, LockInv, Locked, Purging
    <3>2. UploadInv'
      BY <2>19 DEF Recover, FailRows, Exhausted, UploadInv
    <3>3. RecordingsKept'
      <4>1. /\ \A r \in Rows :
                 status'[r] = status[r] \/ (status[r] = "processing" /\ status'[r] = "failed")
            /\ UNCHANGED <<path, file, excuse, job>>
        BY <2>19 DEF Recover, FailRows, Exhausted
      <4> QED
        BY <4>1 DEF RecordingsKept, Purging
    <3> QED
      BY <3>1, <3>2, <3>3
  <2>20. ASSUME NEW c \in Containers, RecoveryBreaks(c) PROVE RecordingsInv'
    <3>1. LockInv'
      BY <2>20 DEF RecoveryBreaks, LockInv
    <3>2. UploadInv'
      BY <2>20 DEF RecoveryBreaks, UploadInv
    <3>3. RecordingsKept'
      BY <2>20 DEF RecoveryBreaks, RecordingsKept, LockInv, UploadInv, Locked, Purging
    <3> QED
      BY <3>1, <3>2, <3>3
  <2>21. ASSUME NEW c \in Containers, Stop(c) PROVE RecordingsInv'
    <3>1. LockInv'
      BY <2>21 DEF Stop, LockInv
    <3>2. UploadInv'
      BY <2>21 DEF Stop, UploadInv
    <3>3. ASSUME NEW r \in Rows, Purging(r), ~Purging(r)' PROVE excuse'[r] # {}
      <4>1. PICK w \in Workers : job[w].pc = "purged" /\ job[w].row = r
        BY <3>3 DEF Purging
      <4>2. HomeOf[w] = c
        BY <2>21, <3>3, <4>1 DEF Stop, Purging
      <4> QED
        BY <2>21, <4>1, <4>2 DEF Stop, Excused
    <3>4. \A r \in Rows : excuse[r] \subseteq excuse'[r]
      BY <2>21 DEF Stop, Excused
    <3>5. RecordingsKept'
      BY <2>21, <3>3, <3>4 DEF Stop, RecordingsKept
    <3> QED
      BY <3>1, <3>2, <3>5
  <2>25. ASSUME NEW q \in Callers, EraseAudio(q) PROVE RecordingsInv'
    <3>1. LockInv'
      BY <2>25 DEF EraseAudio, LockInv, Locked, Purging
    <3>2. UploadInv'
      BY <2>25 DEF EraseAudio, UploadInv
    <3>3. RecordingsKept'
      BY <2>25 DEF EraseAudio, Excused, RecordingsKept, Purging
    <3> QED
      BY <3>1, <3>2, <3>3
  <2>26. ASSUME NEW q \in Callers, EraseRows(q) PROVE RecordingsInv'
    <3>1. LockInv'
      BY <2>26 DEF EraseRows, LockInv, Locked, Purging
    <3>2. UploadInv'
      BY <2>26 DEF EraseRows, UploadInv
    <3>3. RecordingsKept'
      BY <2>26 DEF EraseRows, Excused, RecordingsKept, Purging
    <3> QED
      BY <3>1, <3>2, <3>3
  <2>27. ASSUME NEW q \in Callers, ErasureBreaks(q) PROVE RecordingsInv'
    <3>1. LockInv'
      BY <2>27 DEF ErasureBreaks, LockInv
    <3>2. UploadInv'
      BY <2>27 DEF ErasureBreaks, UploadInv
    <3>3. RecordingsKept'
      BY <2>27 DEF ErasureBreaks, RecordingsKept, Purging
    <3> QED
      BY <3>1, <3>2, <3>3
  <2>22. ASSUME NEW r \in Rows, ClaimAges(r) PROVE RecordingsInv'
    <3>1. LockInv'
      BY <2>22 DEF ClaimAges, LockInv, Locked, Purging
    <3>2. UploadInv'
      BY <2>22 DEF ClaimAges, UploadInv
    <3>3. RecordingsKept'
      BY <2>22 DEF ClaimAges, RecordingsKept, LockInv, UploadInv, Locked, Purging
    <3> QED
      BY <3>1, <3>2, <3>3
  <2>23. ASSUME NEW r \in Rows, RowAges(r) PROVE RecordingsInv'
    <3>1. LockInv'
      BY <2>23 DEF RowAges, LockInv
    <3>2. UploadInv'
      BY <2>23 DEF RowAges, UploadInv
    <3>3. RecordingsKept'
      BY <2>23 DEF RowAges, RecordingsKept, LockInv, UploadInv, Locked, Purging
    <3> QED
      BY <3>1, <3>2, <3>3
  <2>24. CASE UNCHANGED vars
    BY <2>24 DEF vars, RecordingsInv, RecordingsKept, LockInv, UploadInv, Locked, Purging
  <2> QED
    BY <2>1, <2>2, <2>3, <2>4, <2>5, <2>6, <2>7, <2>8, <2>9, <2>10, <2>11, <2>12, <2>13,
       <2>14, <2>15, <2>16, <2>17, <2>18, <2>19, <2>20, <2>21, <2>22, <2>23, <2>24,
       <2>25, <2>26, <2>27
    DEF Next, Request, Work
<1> QED
  BY <1>1, <1>2, TypeCorrect, PTL DEF Spec

\* No unfinished row loses its recording to takeovers, releases, retries and late finishers,
\* and no transcribed row keeps one.
THEOREM RecordingsAreKept == Spec => []RecordingsKept
<1>1. RecordingsInv => RecordingsKept
  BY DEF RecordingsInv
<1> QED
  BY <1>1, RecordingsInvariant, PTL

\* Where recordings are: a row that still has one knows it, and what a delete or an
\* erasure is about to drop has none any more.
FilesInv ==
  /\ \A r \in Rows : status[r] \in Live /\ r \in file => r \in path
  /\ \A q \in Callers : call[q].pc = "deleting" => call[q].row \notin file
  /\ \A q \in Callers : call[q].pc = "erasing" =>
       \A r \in call[q].rows : r \notin file /\ status[r] # "absent"
  /\ DeletedWithRecording

\* The step only moves rows between the live statuses, and takes no path from a row with a
\* recording.
LiveStep ==
  /\ UNCHANGED call
  /\ \A r \in Rows :
       status'[r] = status[r] \/ (status[r] \in Live /\ status'[r] \in Live)
  /\ file' \subseteq file
  /\ \A r \in Rows : r \in file' /\ r \in path => r \in path'
  /\ \A r \in Rows : excuse[r] \subseteq excuse'[r]

\* Such a step leaves every recording where its row says.
LEMMA LiveStepsKeepFiles ==
  ASSUME TypeOK, FilesInv, LiveStep
  PROVE  FilesInv'
<1> USE RowsOfJobs DEF FilesInv, LiveStep
<1>1. (\A r \in Rows : status[r] \in Live /\ r \in file => r \in path)'
  BY DEF Live
<1>2. (\A q \in Callers : call[q].pc = "deleting" => call[q].row \notin file)'
  OBVIOUS
<1>3. (\A q \in Callers : call[q].pc = "erasing" =>
         \A r \in call[q].rows : r \notin file /\ status[r] # "absent")'
  BY DEF Live
<1>4. DeletedWithRecording'
  BY DEF DeletedWithRecording, Live
<1> QED
  BY <1>1, <1>2, <1>3, <1>4

\* A deleted or erased row leaves no recording behind, whatever its workers, retries and
\* restarts did in between.
THEOREM DeletionsAreComplete == Spec => []DeletedWithRecording
<1>1. Init => FilesInv
  BY DEF Init, FilesInv, DeletedWithRecording, Resting
<1>2. TypeOK /\ RecordingsInv /\ FilesInv /\ [Next]_vars => FilesInv'
  <2> SUFFICES ASSUME TypeOK, RecordingsInv, FilesInv, [Next]_vars PROVE FilesInv'
    OBVIOUS
  <2> USE RowsOfJobs DEF queue, disk, counters, Resting
  <2>1. ASSUME NEW q \in Callers, NEW r \in Rows, SaveAudio(q, r) PROVE FilesInv'
    BY <2>1 DEF SaveAudio, FilesInv, DeletedWithRecording, RecordingsInv, UploadInv, TypeOK
  <2>2. ASSUME NEW q \in Callers, NEW r \in Rows, RetryLoads(q, r) PROVE FilesInv'
    BY <2>2 DEF RetryLoads, FilesInv, DeletedWithRecording, TypeOK
  <2>3. ASSUME NEW q \in Callers, NEW r \in Rows, DeleteAudio(q, r) PROVE FilesInv'
    BY <2>3 DEF DeleteAudio, Excused, FilesInv, DeletedWithRecording, TypeOK
  <2>4. ASSUME NEW q \in Callers, InsertRow(q) PROVE FilesInv'
    BY <2>4 DEF InsertRow, FilesInv, DeletedWithRecording, TypeOK
  <2>5. ASSUME NEW q \in Callers, RetryWrites(q) PROVE FilesInv'
    BY <2>5 DEF RetryWrites, Excused, FilesInv, DeletedWithRecording, TypeOK
  <2>6. ASSUME NEW q \in Callers, DeleteRow(q) PROVE FilesInv'
    BY <2>6 DEF DeleteRow, FilesInv, DeletedWithRecording, TypeOK
  <2>7. ASSUME NEW q \in Callers, EraseAudio(q) PROVE FilesInv'
    BY <2>7 DEF EraseAudio, Excused, FilesInv, DeletedWithRecording, TypeOK
  <2>8. ASSUME NEW q \in Callers, EraseRows(q) PROVE FilesInv'
    BY <2>8 DEF EraseRows, Excused, FilesInv, DeletedWithRecording, TypeOK
  <2>9. ASSUME NEW q \in Callers, ErasureBreaks(q) PROVE FilesInv'
    BY <2>9 DEF ErasureBreaks, FilesInv, DeletedWithRecording, TypeOK
  <2>10. ASSUME NEW w \in Workers,
                \/ Claim(w) \/ LoadJob(w) \/ ReadAudio(w) \/ Transcribe(w)
                \/ LosesRow(w) \/ PurgeAudio(w) \/ JobBreaks(w)
         PROVE FilesInv'
    <3>1. LiveStep
      BY <2>10 DEF Claim, LoadJob, ReadAudio, Transcribe, LosesRow, PurgeAudio, JobBreaks,
                   LiveStep
    <3> QED
      BY <3>1, LiveStepsKeepFiles
  <2>11. ASSUME NEW w \in Workers, FailRow(w) PROVE FilesInv'
    <3>1. LiveStep
      BY <2>11 DEF FailRow, Owns, TypeOK, LiveStep, Live
    <3> QED
      BY <3>1, LiveStepsKeepFiles
  <2>12. ASSUME NEW w \in Workers, CommitResult(w) \/ CommitBreaks(w) PROVE FilesInv'
    <3> DEFINE r == job[w].row
    <3>1. r \in Rows /\ status[r] = "processing" /\ r \notin file
      BY <2>12 DEF CommitResult, CommitBreaks, RecordingsInv, LockInv, TypeOK
    <3>2. \/ MarkTranscribed(r) /\ UNCHANGED excuse
          \/ UNCHANGED <<status, path>> /\ excuse' = Excused({r}, "broken")
      BY <2>12 DEF CommitResult, CommitBreaks
    <3>3. UNCHANGED <<file, call>>
      BY <2>12 DEF CommitResult, CommitBreaks
    <3>4. LiveStep
      BY <3>1, <3>2, <3>3 DEF MarkTranscribed, Excused, TypeOK, LiveStep, Live
    <3> QED
      BY <3>4, LiveStepsKeepFiles
  <2>13. ASSUME NEW c \in Containers, Reap(c) \/ Boot(c) PROVE FilesInv'
    <3>1. LiveStep
      BY <2>13 DEF Reap, Boot, FailRows, Reapable, LiveStep, Live
    <3> QED
      BY <3>1, LiveStepsKeepFiles
  <2>14. ASSUME NEW c \in Containers, Recover(c) \/ RecoveryBreaks(c) PROVE FilesInv'
    <3>1. LiveStep
      BY <2>14 DEF Recover, RecoveryBreaks, FailRows, Exhausted, LiveStep, Live
    <3> QED
      BY <3>1, LiveStepsKeepFiles
  <2>15. ASSUME NEW c \in Containers, Stop(c) PROVE FilesInv'
    BY <2>15 DEF Stop, Excused, FilesInv, DeletedWithRecording, TypeOK
  <2>16. ASSUME NEW r \in Rows, ClaimAges(r) \/ RowAges(r) PROVE FilesInv'
    <3>1. LiveStep
      BY <2>16 DEF ClaimAges, RowAges, LiveStep
    <3> QED
      BY <3>1, LiveStepsKeepFiles
  <2>17. CASE UNCHANGED vars
    BY <2>17 DEF vars, FilesInv, DeletedWithRecording
  <2> QED
    BY <2>1, <2>2, <2>3, <2>4, <2>5, <2>6, <2>7, <2>8, <2>9, <2>10, <2>11, <2>12, <2>13,
       <2>14, <2>15, <2>16, <2>17
    DEF Next, Request, Work
<1>3. FilesInv => DeletedWithRecording
  BY DEF FilesInv
<1> QED
  BY <1>1, <1>2, <1>3, TypeCorrect, RecordingsInvariant, PTL DEF Spec

\* finalize_success and _fail write only a row that is still in the queue.  What carries the
\* argument is LockInv: between the check of a claim and the commit the row lock is held.
THEOREM FinalTranscripts == Spec => TranscribedIsFinal
<1> DEFINE Retried(r) == \E q \in Callers :
             call[q].pc = "retrying" /\ call[q].row = r /\ call'[q].pc = "idle"
           Kept(r) == status'[r] \in {"transcribed", "deleted"}
<1>1. TypeOK /\ RecordingsInv /\ [Next]_vars =>
        \A r \in Rows : status[r] = "transcribed" =>
          \/ status'[r] \in {"transcribed", "deleted"}
          \/ \E q \in Callers : /\ call[q].pc = "retrying" /\ call[q].row = r
                                /\ call'[q].pc = "idle"
  <2> SUFFICES ASSUME TypeOK, RecordingsInv, [Next]_vars,
                      NEW r \in Rows, status[r] = "transcribed"
               PROVE  Kept(r) \/ Retried(r)
    OBVIOUS
  <2> USE RowsOfJobs DEF TypeOK, RecordingsInv, queue, Resting
  <2>1. ASSUME NEW q \in Callers, InsertRow(q) PROVE Kept(r)
    BY <2>1 DEF InsertRow, UploadInv
  <2>2. ASSUME NEW q \in Callers, RetryWrites(q) PROVE Kept(r) \/ Retried(r)
    <3>1. CASE call[q].row = r
      BY <2>2, <3>1 DEF RetryWrites
    <3>2. CASE call[q].row # r
      BY <2>2, <3>2 DEF RetryWrites
    <3> QED
      BY <3>1, <3>2
  <2>3. ASSUME NEW q \in Callers, DeleteRow(q) PROVE Kept(r)
    BY <2>3 DEF DeleteRow
  <2>4. ASSUME NEW q \in Callers, NEW s \in Rows,
               SaveAudio(q, s) \/ RetryLoads(q, s) \/ DeleteAudio(q, s)
        PROVE Kept(r)
    BY <2>4 DEF SaveAudio, RetryLoads, DeleteAudio
  <2>13. ASSUME NEW q \in Callers, EraseAudio(q) \/ EraseRows(q) \/ ErasureBreaks(q)
         PROVE Kept(r)
    BY <2>13 DEF EraseAudio, EraseRows, ErasureBreaks
  <2>5. ASSUME NEW w \in Workers, FailRow(w) PROVE Kept(r)
    BY <2>5 DEF FailRow, Owns
  <2>6. ASSUME NEW w \in Workers, CommitResult(w) \/ CommitBreaks(w) PROVE Kept(r)
    BY <2>6 DEF CommitResult, CommitBreaks, MarkTranscribed
  <2>7. ASSUME NEW w \in Workers,
               \/ Claim(w) \/ LoadJob(w) \/ ReadAudio(w) \/ Transcribe(w)
               \/ LosesRow(w) \/ PurgeAudio(w) \/ JobBreaks(w)
        PROVE Kept(r)
    BY <2>7 DEF Claim, LoadJob, ReadAudio, Transcribe, LosesRow, PurgeAudio, JobBreaks
  <2>8. ASSUME NEW c \in Containers, Reap(c) \/ Boot(c) PROVE Kept(r)
    BY <2>8 DEF Reap, Boot, FailRows, Reapable
  <2>9. ASSUME NEW c \in Containers, Recover(c) PROVE Kept(r)
    BY <2>9 DEF Recover, FailRows, Exhausted
  <2>10. ASSUME NEW c \in Containers, RecoveryBreaks(c) \/ Stop(c) PROVE Kept(r)
    BY <2>10 DEF RecoveryBreaks, Stop
  <2>11. ASSUME NEW s \in Rows, ClaimAges(s) \/ RowAges(s) PROVE Kept(r)
    BY <2>11 DEF ClaimAges, RowAges
  <2>12. CASE UNCHANGED vars
    BY <2>12 DEF vars
  <2> QED
    BY <2>1, <2>2, <2>3, <2>4, <2>5, <2>6, <2>7, <2>8, <2>9, <2>10, <2>11, <2>12, <2>13
    DEF Next, Request, Work
<1> QED
  BY <1>1, TypeCorrect, RecordingsInvariant, PTL DEF Spec, TranscribedIsFinal

=============================================================================
