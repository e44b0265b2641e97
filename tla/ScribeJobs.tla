------------------------------ MODULE ScribeJobs ------------------------------
(***************************************************************************)
(* Scribe's transcription queue: rows of scribe.transcriptions are the      *)
(* queue, the workers of one or, during a deploy, two containers claim them *)
(* with FOR UPDATE SKIP LOCKED, and a finisher writes only while the row    *)
(* carries the claim its job has read.  Next to the workers: the upload,    *)
(* retry and delete routes, the erasure of the organisation (all rows are   *)
(* one organisation's), the reaper, and the recovery at startup.            *)
(* Recordings are files beside the database, deleted inside the finisher's  *)
(* transaction.                                                             *)
(*                                                                          *)
(* Abstracted: texts and names; created_at's order among claimable rows;    *)
(* time, of which the limits of 30 and 60 minutes are kept; the wake-up and *)
(* the waiting responses (a poll every 3 s claims without them).            *)
(***************************************************************************)
EXTENDS Naturals

CONSTANTS
  Rows,            \* ids of transcriptions
  Containers,
  Workers,         \* worker tasks
  Callers,         \* concurrent requests
  HomeOf,          \* the container a worker or a request runs in
  MaxAttempts,     \* jobs.MAX_ATTEMPTS
  MaxStops,        \* bound: containers stopped or killed
  MaxAsked,        \* bound: calls of the retry and erase routes
  MaxErrors        \* bound: database errors

ASSUME HomesAssumption == HomeOf \in [Workers \union Callers -> Containers]
ASSUME CountsAssumption ==
  MaxAttempts \in Nat \ {0} /\ MaxStops \in Nat /\ MaxAsked \in Nat /\ MaxErrors \in Nat

VARIABLES
  status,          \* "absent" before the INSERT, "deleted" after the DELETE
  path,            \* rows whose audio_path is set
  claim,           \* claimed_at: the number of the claim; 0 is NULL
  attempts,
  file,            \* recordings on disk
  claimed,         \* how many claims of a row there have been
  claimAge,        \* claimed_at against the limits: fresh, stale (30 min), old (60 min)
  aged,            \* rows created more than 60 minutes ago
  phase,           \* of a container
  job,             \* what a worker is doing
  call,            \* what a request is doing
  excuse,          \* history: what may have cost a row its recording
  stops, asked, errors

queue == <<status, claim, attempts, claimed, claimAge>>
disk == <<path, file, excuse>>
counters == <<stops, asked, errors>>
vars == <<queue, disk, aged, phase, job, call, counters>>

Live == {"processing", "transcribed", "failed"}
Resting == [pc |-> "idle"]
Jobs == {Resting} \union [pc : {"claimed"}, row : Rows, mine : Nat]
        \union [pc : {"loaded", "heard", "done", "failing", "purged"},
                row : Rows, mine : Nat, token : Nat]
Calls == {Resting} \union [pc : {"saved", "deleting"}, row : Rows]
         \union [pc : {"retrying"}, row : Rows, claim : Nat, attempts : Nat]
         \union [pc : {"erasing"}, rows : SUBSET Rows]
Excuses == {"broken", "deleted", "overwritten", "late"}

Up(t) == phase[HomeOf[t]] = "up"
\* The finisher that has deleted the recording holds the row lock until it commits, and so
\* does the erasure.
Purging(r) == \E w \in Workers : job[w].pc = "purged" /\ job[w].row = r
Erasing(r) == \E q \in Callers : call[q].pc = "erasing" /\ r \in call[q].rows
Locked(r) == Purging(r) \/ Erasing(r)
Excused(R, why) == [r \in Rows |-> IF r \in R THEN excuse[r] \union {why} ELSE excuse[r]]

Init ==
  /\ status = [r \in Rows |-> "absent"]
  /\ path = {} /\ file = {} /\ aged = {}
  /\ claim = [r \in Rows |-> 0]
  /\ attempts = [r \in Rows |-> 0]
  /\ claimed = [r \in Rows |-> 0]
  /\ claimAge = [r \in Rows |-> "fresh"]
  /\ phase = [c \in Containers |-> "down"]
  /\ job = [w \in Workers |-> Resting]
  /\ call = [q \in Callers |-> Resting]
  /\ excuse = [r \in Rows |-> {}]
  /\ stops = 0 /\ asked = 0 /\ errors = 0

(***************************************************************************)
(* Requests                                                                 *)
(***************************************************************************)

\* Upload: the recording is on disk before the row exists.
SaveAudio(q, r) ==
  /\ Up(q) /\ call[q] = Resting
  /\ status[r] = "absent" /\ r \notin file
  /\ file' = file \union {r}
  /\ call' = [call EXCEPT ![q] = [pc |-> "saved", row |-> r]]
  /\ UNCHANGED <<queue, path, excuse, aged, phase, job, counters>>

InsertRow(q) ==
  /\ call[q].pc = "saved"
  /\ status' = [status EXCEPT ![call[q].row] = "processing"]
  /\ path' = path \union {call[q].row}
  /\ call' = [call EXCEPT ![q] = Resting]
  /\ UNCHANGED <<claim, attempts, claimed, claimAge, file, excuse, aged, phase, job, counters>>

\* Retry: the row is loaded without a lock ...
RetryLoads(q, r) ==
  /\ asked < MaxAsked
  /\ Up(q) /\ call[q] = Resting
  /\ status[r] = "failed" /\ r \in path
  /\ call' = [call EXCEPT ![q] =
       [pc |-> "retrying", row |-> r, claim |-> claim[r], attempts |-> attempts[r]]]
  /\ asked' = asked + 1
  /\ UNCHANGED <<queue, disk, aged, phase, job, stops, errors>>

\* ... and the UPDATE, which waits for the row lock, names the columns whose new value
\* differs from the loaded one.  A row deleted meanwhile matches no UPDATE.
RetryWrites(q) ==
  /\ call[q].pc = "retrying"
  /\ ~Locked(call[q].row)
  /\ LET r == call[q].row
         resetsClaim == status[r] \in Live /\ call[q].claim # 0
         resetsCount == status[r] \in Live /\ call[q].attempts # 0
     IN /\ status' = [status EXCEPT ![r] = IF @ \in Live THEN "processing" ELSE @]
        /\ claim' = [claim EXCEPT ![r] = IF resetsClaim THEN 0 ELSE @]
        /\ claimAge' = [claimAge EXCEPT ![r] = IF resetsClaim THEN "fresh" ELSE @]
        /\ attempts' = [attempts EXCEPT ![r] = IF resetsCount THEN 0 ELSE @]
        /\ excuse' = IF status[r] = "transcribed" THEN Excused({r}, "overwritten") ELSE excuse
  /\ call' = [call EXCEPT ![q] = Resting]
  /\ UNCHANGED <<claimed, path, file, aged, phase, job, counters>>

\* Delete: the recording goes before the row, and without a lock.
DeleteAudio(q, r) ==
  /\ Up(q) /\ call[q] = Resting
  /\ status[r] \in Live
  /\ file' = IF r \in path THEN file \ {r} ELSE file
  /\ excuse' = Excused({r}, "deleted")
  /\ call' = [call EXCEPT ![q] = [pc |-> "deleting", row |-> r]]
  /\ UNCHANGED <<queue, path, aged, phase, job, counters>>

DeleteRow(q) ==
  /\ call[q].pc = "deleting"
  /\ ~Locked(call[q].row)
  /\ status' = [status EXCEPT ![call[q].row] = "deleted"]
  /\ path' = path \ {call[q].row}
  /\ call' = [call EXCEPT ![q] = Resting]
  /\ UNCHANGED <<claim, attempts, claimed, claimAge, file, excuse, aged, phase, job, counters>>

\* Mutant of EraseAudio: only failed rows keep a recording at rest, so only theirs go.
EraseFailedAudio(q) ==
  /\ asked < MaxAsked
  /\ Up(q) /\ call[q] = Resting
  /\ LET R == {r \in Rows : status[r] \in Live}
     IN /\ \A r \in R : ~Locked(r)
        /\ file' = file \ {r \in R \intersect path : status[r] = "failed"}
        /\ excuse' = Excused(R, "deleted")
        /\ call' = [call EXCEPT ![q] = [pc |-> "erasing", rows |-> R]]
  /\ asked' = asked + 1
  /\ UNCHANGED <<queue, path, aged, phase, job, stops, errors>>

\* wipe_org_state, one transaction: the organisation's rows are locked, their recordings
\* deleted, ...
EraseAudio(q) ==
  /\ asked < MaxAsked
  /\ Up(q) /\ call[q] = Resting
  /\ LET R == {r \in Rows : status[r] \in Live}
     IN /\ \A r \in R : ~Locked(r)
        /\ file' = file \ (R \intersect path)
        /\ excuse' = Excused(R, "deleted")
        /\ call' = [call EXCEPT ![q] = [pc |-> "erasing", rows |-> R]]
  /\ asked' = asked + 1
  /\ UNCHANGED <<queue, path, aged, phase, job, stops, errors>>

\* ... then every row of the organisation, those inserted meanwhile included.
EraseRows(q) ==
  /\ call[q].pc = "erasing"
  /\ LET R == {r \in Rows : status[r] \in Live}
     IN /\ \A r \in R \ call[q].rows : ~Locked(r)
        /\ status' = [r \in Rows |-> IF r \in R THEN "deleted" ELSE status[r]]
        /\ path' = path \ R
        /\ excuse' = Excused(R \ call[q].rows, "late")
  /\ call' = [call EXCEPT ![q] = Resting]
  /\ UNCHANGED <<claim, attempts, claimed, claimAge, file, aged, phase, job, counters>>

\* A database error rolls the erasure back; the recordings are gone.
ErasureBreaks(q) ==
  /\ errors < MaxErrors
  /\ call[q].pc = "erasing"
  /\ call' = [call EXCEPT ![q] = Resting]
  /\ errors' = errors + 1
  /\ UNCHANGED <<queue, disk, aged, phase, job, stops, asked>>

(***************************************************************************)
(* Workers                                                                  *)
(***************************************************************************)
Stale(r) == claim[r] = 0 \/ claimAge[r] \in {"stale", "old"}

\* Mutant of Claimable: attempts are not counted.
ClaimableForever(r) == status[r] = "processing" /\ r \in path /\ Stale(r) /\ ~Locked(r)

Claimable(r) ==
  status[r] = "processing" /\ r \in path /\ attempts[r] < MaxAttempts /\ Stale(r) /\ ~Locked(r)

\* One UPDATE; SKIP LOCKED keeps concurrent claims apart.
Claim(w) ==
  /\ Up(w) /\ job[w] = Resting
  /\ \E r \in {s \in Rows : Claimable(s)} :
       /\ claimed' = [claimed EXCEPT ![r] = @ + 1]
       /\ claim' = [claim EXCEPT ![r] = claimed[r] + 1]
       /\ claimAge' = [claimAge EXCEPT ![r] = "fresh"]
       /\ attempts' = [attempts EXCEPT ![r] = @ + 1]
       /\ job' = [job EXCEPT ![w] = [pc |-> "claimed", row |-> r, mine |-> claimed[r] + 1]]
  /\ UNCHANGED <<status, disk, aged, phase, call, counters>>

GoesTo(w, pc) == job' = [job EXCEPT ![w].pc = pc]
Ends(w) == job' = [job EXCEPT ![w] = Resting]

\* run_job reads the row in a transaction of its own, claimed_at included.
LoadJob(w) ==
  /\ job[w].pc = "claimed"
  /\ LET r == job[w].row
     IN IF status[r] # "processing" THEN Ends(w)
        ELSE job' = [job EXCEPT ![w] =
               [pc |-> "loaded", row |-> r, mine |-> job[w].mine, token |-> claim[r]]]
  /\ UNCHANGED <<queue, disk, aged, phase, call, counters>>

\* A recording that is not there fails the job as audio_missing.
ReadAudio(w) ==
  /\ job[w].pc = "loaded"
  /\ GoesTo(w, IF job[w].row \in file THEN "heard" ELSE "failing")
  /\ UNCHANGED <<queue, disk, aged, phase, call, counters>>

\* Mutant of Transcribe: the recording goes as soon as there is a text.
TranscribeAndPurge(w) ==
  /\ job[w].pc = "heard"
  /\ \/ GoesTo(w, "done") /\ file' = file \ {job[w].row}
     \/ GoesTo(w, "failing") /\ UNCHANGED file
  /\ UNCHANGED <<queue, path, excuse, aged, phase, call, counters>>

Transcribe(w) ==
  /\ job[w].pc = "heard"
  /\ GoesTo(w, "done") \/ GoesTo(w, "failing")
  /\ UNCHANGED <<queue, disk, aged, phase, call, counters>>

\* Mutant of Owns: the status is not looked at.
OwnsAnyStatus(w) == claim[job[w].row] = job[w].token

\* _finish: the row is read again under its lock.
Owns(w) == status[job[w].row] = "processing" /\ claim[job[w].row] = job[w].token

LosesRow(w) ==
  /\ job[w].pc \in {"done", "failing"}
  /\ ~Locked(job[w].row) /\ ~Owns(w)
  /\ Ends(w)
  /\ UNCHANGED <<queue, disk, aged, phase, call, counters>>

FailRow(w) ==
  /\ job[w].pc = "failing"
  /\ ~Locked(job[w].row) /\ Owns(w)
  /\ status' = [status EXCEPT ![job[w].row] = "failed"]
  /\ Ends(w)
  /\ UNCHANGED <<claim, attempts, claimed, claimAge, disk, aged, phase, call, counters>>

\* finalize_success: the recording goes, then the row is changed, then the commit.
PurgeAudio(w) ==
  /\ job[w].pc = "done"
  /\ ~Locked(job[w].row) /\ Owns(w)
  /\ file' = file \ {job[w].row}
  /\ GoesTo(w, "purged")
  /\ UNCHANGED <<queue, path, excuse, aged, phase, call, counters>>

\* Mutant of MarkTranscribed: audio_path stays.
MarkOnly(r) == status' = [status EXCEPT ![r] = "transcribed"] /\ UNCHANGED path

MarkTranscribed(r) ==
  status' = [status EXCEPT ![r] = "transcribed"] /\ path' = path \ {r}

CommitResult(w) ==
  /\ job[w].pc = "purged"
  /\ MarkTranscribed(job[w].row)
  /\ Ends(w)
  /\ UNCHANGED <<claim, attempts, claimed, claimAge, file, excuse, aged, phase, call, counters>>

\* The commit raises, applied or not: run_job goes on to fail the row.
CommitBreaks(w) ==
  /\ errors < MaxErrors
  /\ job[w].pc = "purged"
  /\ GoesTo(w, "failing")
  /\ errors' = errors + 1
  /\ \/ MarkTranscribed(job[w].row) /\ UNCHANGED excuse
     \/ UNCHANGED <<status, path>> /\ excuse' = Excused({job[w].row}, "broken")
  /\ UNCHANGED <<claim, attempts, claimed, claimAge, file, aged, phase, call, stops, asked>>

\* Any other database error ends the job; the row keeps its claim.
JobBreaks(w) ==
  /\ errors < MaxErrors
  /\ job[w].pc \in {"claimed", "loaded", "done", "failing"}
  /\ Ends(w)
  /\ errors' = errors + 1
  /\ UNCHANGED <<queue, disk, aged, phase, call, stops, asked>>

(***************************************************************************)
(* The reaper, startup and shutdown                                         *)
(***************************************************************************)
\* Mutant of Reapable: only rows without a recording are reaped.
ReapableWithoutAudio(r) ==
  status[r] = "processing" /\ r \in aged /\ ~Locked(r) /\ r \notin path

Reapable(r) ==
  /\ status[r] = "processing" /\ r \in aged /\ ~Locked(r)
  /\ r \notin path \/ (attempts[r] >= MaxAttempts /\ (claim[r] = 0 \/ claimAge[r] = "old"))

FailRows(R) == status' = [r \in Rows |-> IF r \in R THEN "failed" ELSE status[r]]

Reap(c) ==
  /\ phase[c] = "up"
  /\ \E r \in Rows : Reapable(r)
  /\ FailRows({r \in Rows : Reapable(r)})
  /\ UNCHANGED <<claim, attempts, claimed, claimAge, disk, aged, phase, job, call, counters>>

\* The reaper runs before anything else of a new container.
Boot(c) ==
  /\ phase[c] = "down"
  /\ FailRows({r \in Rows : Reapable(r)})
  /\ phase' = [phase EXCEPT ![c] = "booting"]
  /\ UNCHANGED <<claim, attempts, claimed, claimAge, disk, aged, job, call, counters>>

\* _recover_on_startup, one transaction: exhausted rows nobody runs fail, and every other
\* row in the queue is released, whoever claimed it.
Exhausted(r) == status[r] = "processing" /\ attempts[r] >= MaxAttempts /\ Stale(r)

Recover(c) ==
  /\ phase[c] = "booting"
  /\ \A r \in Rows : ~Locked(r)
  /\ FailRows({r \in Rows : Exhausted(r)})
  /\ LET released == {r \in Rows : status[r] = "processing" /\ ~Exhausted(r)}
     IN /\ claim' = [r \in Rows |-> IF r \in released THEN 0 ELSE claim[r]]
        /\ claimAge' = [r \in Rows |-> IF r \in released THEN "fresh" ELSE claimAge[r]]
  /\ phase' = [phase EXCEPT ![c] = "up"]
  /\ UNCHANGED <<attempts, claimed, disk, aged, job, call, counters>>

\* The recovery fails; the container starts all the same.
RecoveryBreaks(c) ==
  /\ errors < MaxErrors
  /\ phase[c] = "booting"
  /\ phase' = [phase EXCEPT ![c] = "up"]
  /\ errors' = errors + 1
  /\ UNCHANGED <<queue, disk, aged, job, call, stops, asked>>

\* A deploy, an OOM or a kill: jobs and requests end where they are, and the database
\* rolls back what was not committed.
Stop(c) ==
  /\ stops < MaxStops
  /\ phase[c] # "down"
  /\ phase' = [phase EXCEPT ![c] = "down"]
  /\ job' = [w \in Workers |-> IF HomeOf[w] = c THEN Resting ELSE job[w]]
  /\ call' = [q \in Callers |-> IF HomeOf[q] = c THEN Resting ELSE call[q]]
  /\ LET purging == {w \in Workers : HomeOf[w] = c /\ job[w].pc = "purged"}
     IN excuse' = Excused({job[w].row : w \in purging}, "broken")
  /\ stops' = stops + 1
  /\ UNCHANGED <<queue, path, file, aged, asked, errors>>

\* Time, as far as anyone looks at it.
ClaimAges(r) ==
  /\ status[r] = "processing" /\ claim[r] # 0
  /\ \/ claimAge[r] = "fresh" /\ claimAge' = [claimAge EXCEPT ![r] = "stale"]
     \/ claimAge[r] = "stale" /\ r \in aged /\ claimAge' = [claimAge EXCEPT ![r] = "old"]
  /\ UNCHANGED <<status, claim, attempts, claimed, disk, aged, phase, job, call, counters>>

RowAges(r) ==
  /\ status[r] = "processing" /\ r \notin aged
  /\ aged' = aged \union {r}
  /\ UNCHANGED <<queue, disk, phase, job, call, counters>>

Work(w) ==
  \/ LoadJob(w) \/ ReadAudio(w) \/ Transcribe(w)
  \/ LosesRow(w) \/ FailRow(w) \/ PurgeAudio(w) \/ CommitResult(w)

Request(q) ==
  \/ \E r \in Rows : SaveAudio(q, r) \/ RetryLoads(q, r) \/ DeleteAudio(q, r)
  \/ InsertRow(q) \/ RetryWrites(q) \/ DeleteRow(q)
  \/ EraseAudio(q) \/ EraseRows(q) \/ ErasureBreaks(q)

Next ==
  \/ \E q \in Callers : Request(q)
  \/ \E w \in Workers : Claim(w) \/ Work(w) \/ CommitBreaks(w) \/ JobBreaks(w)
  \/ \E c \in Containers : Reap(c) \/ Boot(c) \/ Recover(c) \/ RecoveryBreaks(c) \/ Stop(c)
  \/ \E r \in Rows : ClaimAges(r) \/ RowAges(r)

Spec == Init /\ [][Next]_vars

(***************************************************************************)
(* Fairness.  A stopped container is started again; its workers poll, its   *)
(* reaper ticks, the provider call ends by its timeout, and time passes.    *)
(* Nobody has to send a request; an erasure that holds locks goes on.       *)
(***************************************************************************)
Fairness ==
  /\ \A w \in Workers : WF_vars(Claim(w)) /\ WF_vars(Work(w))
  /\ \A c \in Containers : WF_vars(Reap(c)) /\ WF_vars(Boot(c)) /\ WF_vars(Recover(c))
  /\ \A r \in Rows : WF_vars(ClaimAges(r)) /\ WF_vars(RowAges(r))
  /\ \A q \in Callers : WF_vars(EraseRows(q))

FairSpec == Spec /\ Fairness

(***************************************************************************)
(* Properties                                                               *)
(***************************************************************************)

\* Every variable stays in its domain; a row is claimed at most MaxAttempts times
\* between two retries.
TypeOK ==
  /\ status \in [Rows -> Live \union {"absent", "deleted"}]
  /\ path \subseteq Rows /\ file \subseteq Rows /\ aged \subseteq Rows
  /\ claim \in [Rows -> Nat] /\ claimed \in [Rows -> Nat]
  /\ attempts \in [Rows -> 0..MaxAttempts]
  /\ claimAge \in [Rows -> {"fresh", "stale", "old"}]
  /\ phase \in [Containers -> {"down", "booting", "up"}]
  /\ job \in [Workers -> Jobs]
  /\ call \in [Callers -> Calls]
  /\ excuse \in [Rows -> SUBSET Excuses]
  /\ stops \in Nat /\ asked \in Nat /\ errors \in Nat

\* A recording is there as long as there is a use for it, and no longer: takeovers,
\* releases, retries and late finishers cost no unfinished row its recording (only a
\* commit that fails behind the purge, a delete or erasure, and a retry that overwrites a
\* finished row do), and no transcribed row keeps one.
RecordingsKept ==
  \A r \in Rows :
    /\ status[r] \in {"processing", "failed"} /\ excuse[r] = {} /\ ~Purging(r) =>
         r \in file \intersect path
    /\ status[r] = "transcribed" => r \notin file \union path

\* A row that was deleted, or erased with its organisation, leaves no recording behind,
\* whatever its workers, retries and restarts did, unless it was inserted after the
\* erasure had looked for recordings.
DeletedWithRecording ==
  \A r \in Rows : status[r] = "deleted" /\ "late" \notin excuse[r] => r \notin file

\* A finished transcript is not taken back by a late finisher, the reaper or a startup,
\* only by a retry that has loaded the row as failed before it was finished.
TranscribedIsFinal ==
  [][\A r \in Rows :
       status[r] = "transcribed" =>
         \/ status'[r] \in {"transcribed", "deleted"}
         \/ \E q \in Callers : /\ call[q].pc = "retrying" /\ call[q].row = r
                               /\ call'[q].pc = "idle"
    ]_vars

\* A row in the queue leaves it, whatever stops, breaks or is claimed in vain.
QueuedRowEnds == \A r \in Rows : status[r] = "processing" ~> status[r] # "processing"

\* jobs.py: "a finisher that lost its claim never overwrites the newer attempt, never
\* fails it" (rows that are being deleted aside).
LostClaimWritesNothing ==
  [][\A w \in Workers :
       /\ job[w].pc \in {"failing", "purged"} /\ job'[w].pc = "idle"
       /\ status'[job[w].row] # status[job[w].row]
       /\ excuse[job[w].row] = {}
       => claim[job[w].row] \in {0, job[w].mine}
    ]_vars
===============================================================================
