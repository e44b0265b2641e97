----------------------------- MODULE Provisioning -----------------------------
(* The life of one tenant at the portal: provisioned step by step after signup, rolled back
   when a step fails, provisioned again by an administrator, deleted step by step, the
   deletion tried again. Translated from klai-portal/backend/app/services/provisioning
   (orchestrator, state machine, deprovisioning, stuck detector) and its three endpoints.

   Every task runs inside the portal's one process. It keeps its own copy of the tenant's
   row for as long as it holds the row object: a row lock taken later does not refresh it
   (expire_on_commit=False, no populate_existing). _provision holds its copy throughout, so
   that its from_state checks compare the run with itself; the two endpoints that take a
   slug guard with the status they read BEFORE they waited for the lock.

   Differences from the code: one tenant, whose slug no other tenant takes; the wipes of
   Redis, Qdrant, the graph, Postgres, klai-connector, Scribe and S3 are one step, and what
   they wipe one resource; archiving the Moneybird subscription is left out; an upload that
   was already accepted when the deletion began is not followed; a commit is never applied
   with its answer lost. *)
EXTENDS Naturals, Sequences, FiniteSets

CONSTANTS Tasks,         \* background tasks and requests alive at one time
          Teams,         \* ids LiteLLM gives to teams, all with the tenant's alias
          NoTeam,
          MaxFaults,     \* bound: failed calls, database errors and restarts in a behaviour
          Disturbances   \* which of these happen

ASSUME ProvisioningAssumption ==
    /\ NoTeam \notin Teams
    /\ MaxFaults \in Nat
    /\ Cardinality(Teams) > MaxFaults   \* each team left behind costs a fault
    /\ Disturbances \subseteq {"call", "database", "restart"}

VARIABLES status,        \* portal_orgs.provisioning_status; "gone": no row
          deleted,       \* portal_orgs.deleted_at is set
          rowApp,        \* portal_orgs.zitadel_oidc_app_id is set
          rowTeam,       \* portal_orgs.litellm_team_id
          resources,     \* what exists of the tenant outside its row
          task,          \* what each task is at
          leftovers,     \* history: what a swallowed failure or a lost answer left behind
          overlapped,    \* history: two deletions were under way at once
          faults

vars == <<status, deleted, rowApp, rowTeam, resources, task, leftovers, overlapped, faults>>
rows == <<status, deleted, rowApp, rowTeam>>
-------------------------------------------------------------------------------
\* FORWARD_SEQUENCE, each external call of a step on its own.
Forward == <<
    [state |-> "creating_zitadel_app",   makes |-> "app"],
    [state |-> "creating_litellm_team",  makes |-> "team"],
    [state |-> "creating_litellm_team",  makes |-> "team_key"],
    [state |-> "creating_mongo_user",    makes |-> "mongo_user"],
    [state |-> "creating_mongo_user",    makes |-> "meili_key"],
    [state |-> "writing_env_file",       makes |-> "chat_key"],
    [state |-> "writing_env_file",       makes |-> "files"],
    [state |-> "creating_personal_kb",   makes |-> "personal_kb"],
    [state |-> "creating_portal_kbs",    makes |-> "rows"],
    [state |-> "starting_container",     makes |-> "container"],
    [state |-> "writing_caddyfile",      makes |-> "caddyfile"],
    [state |-> "reloading_caddy",        makes |-> "reload"],
    [state |-> "creating_system_groups", makes |-> "rows"] >>

\* The steps of a deletion, in the order of STEPS.
DeprovisionSteps == <<"mark", "caddyfile", "container", "files", "chats", "mongo_user",
    "meili_key", "knowledge", "team", "personal_kb", "app", "users", "org", "finalize">>

EntryStates == {"pending", "queued"}
InitialEntryStates == {"ready", "failed_rollback_complete"}
DeprovisionEntryStates == InitialEntryStates \cup {"failed_deprovisioning"}
ForwardStates == {Forward[i].state : i \in DOMAIN Forward}
\* Mutant of StuckCandidates: deletions are forgotten.
StuckCandidatesRunsOnly == ForwardStates

StuckCandidates == ForwardStates \cup {"deprovisioning"}
Statuses == EntryStates \cup ForwardStates \cup DeprovisionEntryStates
                \cup {"failed_rollback_pending", "deprovisioning", "gone"}

Kept == {"team_key", "rows", "reload"}   \* steps that make nothing a rollback has to remove
Made(t) == LET thing == Forward[task[t].n].makes
           IN  IF thing \in Kept THEN {} ELSE IF thing = "team" THEN Teams \ resources ELSE {thing}
Wired == {"app", "mongo_user", "meili_key", "chat_key", "files", "container", "caddyfile"}
Resources == Wired \cup {"personal_kb", "knowledge", "chats", "users", "org"} \cup Teams

ASSUME TeamsAssumption ==   \* a team's id is none of the names used here
    (Teams \cup {NoTeam}) \cap
        (Wired \cup {"personal_kb", "knowledge", "chats", "users", "org", "mark", "team",
                     "finalize"}) = {}

Idle == [pc |-> "idle", n |-> 0, wrote |-> "none", undo |-> <<>>, team |-> NoTeam,
         app |-> FALSE, broken |-> FALSE]
At(t, pc) == task[t].pc = pc
Provisions(t) == task[t].pc \in {"begin", "checkpoint", "perform", "compensate", "marking",
                                 "closing", "completing"}
Deletes(t) == task[t].pc \in {"load", "wipe", "failed"}
Becomes(t, r) == task' = [task EXCEPT ![t] = r]
Goes(t, pc) == Becomes(t, [task[t] EXCEPT !.pc = pc])
Fault(kind) == /\ kind \in Disturbances
               /\ faults < MaxFaults
               /\ faults' = faults + 1

\* A tenant just signed up, or one of those provisioned before the portal kept their ids.
Init ==
    /\ \E legacy \in BOOLEAN, m \in Teams, first \in Tasks :
        /\ status = IF legacy THEN "ready" ELSE "pending"
        /\ resources = {"users", "org"} \cup IF legacy THEN Wired \cup {m} ELSE {}
        /\ task = [t \in Tasks |-> IF t = first /\ ~legacy
                                    THEN [Idle EXCEPT !.pc = "begin"] ELSE Idle]
    /\ deleted = FALSE
    /\ rowApp = FALSE
    /\ rowTeam = NoTeam
    /\ leftovers = {}
    /\ overlapped = FALSE
    /\ faults = 0
-------------------------------------------------------------------------------
(* Provisioning *)

Begin(t) ==
    /\ At(t, "begin")
    /\ IF status \in EntryStates /\ ~deleted
       THEN /\ status' = "queued"
            /\ Becomes(t, [Idle EXCEPT !.pc = "checkpoint", !.n = 1, !.wrote = "queued"])
       ELSE /\ Becomes(t, Idle)
            /\ UNCHANGED status
    /\ UNCHANGED <<deleted, rowApp, rowTeam, resources, leftovers, overlapped, faults>>

Checkpoint(t) ==
    /\ At(t, "checkpoint")
    /\ task[t].n <= Len(Forward)
    /\ status' = Forward[task[t].n].state
    /\ Becomes(t, [task[t] EXCEPT !.pc = "perform", !.wrote = status'])
    /\ UNCHANGED <<deleted, rowApp, rowTeam, resources, leftovers, overlapped, faults>>

\* A step's second call follows without a checkpoint of its own.
After(n) == IF n < Len(Forward) /\ Forward[n + 1].state = Forward[n].state
            THEN "perform" ELSE "checkpoint"
Advanced(t) == [task[t] EXCEPT !.n = @ + 1, !.pc = After(task[t].n)]

\* Names that must be free: the app's, the database user's, the repository's.
Taken(t) == Forward[task[t].n].makes \in {"app", "mongo_user", "personal_kb"} \cap resources

Perform(t) ==
    /\ At(t, "perform")
    /\ ~Taken(t)
    /\ IF Made(t) = {}
       THEN /\ Becomes(t, Advanced(t))
            /\ UNCHANGED resources
       ELSE \E r \in Made(t) :
              /\ resources' = resources \cup {r}
              /\ Becomes(t, [Advanced(t) EXCEPT !.undo = <<r>> \o @,
                                                !.team = IF r \in Teams THEN r ELSE @])
    /\ UNCHANGED <<rows, leftovers, overlapped, faults>>

Refused(t) ==
    /\ At(t, "perform")
    /\ Taken(t)
    /\ Goes(t, "compensate")
    /\ UNCHANGED <<rows, resources, leftovers, overlapped, faults>>

\* A call fails, and what it was to make is there all the same or not.
Spill(t, applied) ==
    \E left \in IF applied THEN {{r} : r \in Made(t)} ELSE {{}} :
        /\ resources' = resources \cup left
        /\ leftovers' = leftovers \cup left

CallFails(t) ==
    /\ At(t, "perform")
    /\ ~Taken(t)
    /\ Forward[task[t].n].makes # "rows"
    /\ \E applied \in BOOLEAN : Spill(t, applied)
    /\ Goes(t, "compensate")
    /\ Fault("call")
    /\ UNCHANGED <<rows, overlapped>>

\* The docs app does not answer: the run goes on without the personal knowledge base.
DocsUnreachable(t) ==
    /\ At(t, "perform")
    /\ ~Taken(t)
    /\ Forward[task[t].n].makes = "personal_kb"
    /\ \E applied \in BOOLEAN : Spill(t, applied)
    /\ Becomes(t, Advanced(t))
    /\ Fault("call")
    /\ UNCHANGED <<rows, overlapped>>

\* Mutant of Finish: the stack is not emptied when the run succeeds.
FinishUndrained(t) ==
    /\ At(t, "checkpoint")
    /\ task[t].n > Len(Forward)
    /\ status' = "ready"
    /\ rowApp' = TRUE
    /\ rowTeam' = task[t].team
    /\ Goes(t, "compensate")
    /\ UNCHANGED <<deleted, resources, leftovers, overlapped, faults>>

Finish(t) ==
    /\ At(t, "checkpoint")
    /\ task[t].n > Len(Forward)
    /\ status' = "ready"
    /\ rowApp' = TRUE
    /\ rowTeam' = task[t].team
    /\ Becomes(t, Idle)
    /\ UNCHANGED <<deleted, resources, leftovers, overlapped, faults>>

\* The compensators run last to first and swallow their failures.
Undo(t) == task[t].undo # <<>> /\ At(t, "compensate")
Undone(t) == Becomes(t, [task[t] EXCEPT !.undo = Tail(@)])

\* Mutant of Compensate: the flag the container's compensator goes by is not set.
CompensateUnflagged(t) ==
    /\ Undo(t)
    /\ resources' = resources \ ({Head(task[t].undo)} \ {"container"})
    /\ leftovers' = leftovers \ {Head(task[t].undo)}
    /\ Undone(t)
    /\ UNCHANGED <<rows, overlapped, faults>>

Compensate(t) ==
    /\ Undo(t)
    /\ resources' = resources \ {Head(task[t].undo)}
    /\ leftovers' = leftovers \ {Head(task[t].undo)}
    /\ Undone(t)
    /\ UNCHANGED <<rows, overlapped, faults>>

CompensationFails(t) ==
    /\ Undo(t)
    /\ leftovers' = leftovers \cup {Head(task[t].undo)}
    /\ Undone(t)
    /\ Fault("call")
    /\ UNCHANGED <<rows, resources, overlapped>>

\* After a database error the run's session takes no further statement.
RolledBack(t) ==
    /\ At(t, "compensate")
    /\ task[t].undo = <<>>
    /\ IF task[t].broken THEN Becomes(t, Idle) ELSE Goes(t, "marking")
    /\ UNCHANGED <<rows, resources, leftovers, overlapped, faults>>

\* Mutant of Marking: a status the column's constraint does not know.
MarkingAsFailed(t) ==
    /\ At(t, "marking")
    /\ status' = "failed_rollback"
    /\ Becomes(t, [task[t] EXCEPT !.pc = "closing", !.wrote = status'])
    /\ UNCHANGED <<deleted, rowApp, rowTeam, resources, leftovers, overlapped, faults>>

Marking(t) ==
    /\ At(t, "marking")
    /\ status' = "failed_rollback_pending"
    /\ Becomes(t, [task[t] EXCEPT !.pc = "closing", !.wrote = status'])
    /\ UNCHANGED <<deleted, rowApp, rowTeam, resources, leftovers, overlapped, faults>>

Closing(t) ==
    /\ At(t, "closing")
    /\ deleted' = TRUE
    /\ Goes(t, "completing")
    /\ UNCHANGED <<status, rowApp, rowTeam, resources, leftovers, overlapped, faults>>

Completing(t) ==
    /\ At(t, "completing")
    /\ status' = "failed_rollback_complete"
    /\ Becomes(t, Idle)
    /\ UNCHANGED <<deleted, rowApp, rowTeam, resources, leftovers, overlapped, faults>>
-------------------------------------------------------------------------------
(* Deletion *)

\* The ids the row keeps, or what the services list under the tenant's name. Without a row
\* the task ends: it can neither be loaded nor marked.
ListedTeams == IF Teams \cap resources = {} THEN {NoTeam} ELSE Teams \cap resources
Load(t) ==
    /\ At(t, "load")
    /\ IF status = "gone"
       THEN Becomes(t, Idle)
       ELSE \E m \in IF rowTeam # NoTeam THEN {rowTeam} ELSE ListedTeams :
              Becomes(t, [Idle EXCEPT !.pc = "wipe", !.n = 1, !.team = m,
                                      !.app = rowApp \/ "app" \in resources])
    /\ UNCHANGED <<rows, resources, leftovers, overlapped, faults>>

\* Mutant of LookupFails: a failed lookup counts as an absent app and team.
LookupFailsAsAbsent(t) ==
    /\ At(t, "load")
    /\ status # "gone"
    /\ ~rowApp \/ rowTeam = NoTeam
    /\ Becomes(t, [Idle EXCEPT !.pc = "wipe", !.n = 1])
    /\ Fault("call")
    /\ UNCHANGED <<rows, resources, leftovers, overlapped>>

LookupFails(t) ==
    /\ At(t, "load")
    /\ status # "gone"
    /\ ~rowApp \/ rowTeam = NoTeam
    /\ Goes(t, "failed")
    /\ Fault("call")
    /\ UNCHANGED <<rows, resources, leftovers, overlapped>>

Step(t) == DeprovisionSteps[task[t].n]
StepDone(t) == Becomes(t, [task[t] EXCEPT !.n = @ + 1])

Mark(t) ==
    /\ At(t, "wipe")
    /\ Step(t) = "mark"
    /\ IF status \in DeprovisionEntryStates \cup {"deprovisioning"}
       THEN status' = "deprovisioning" /\ StepDone(t)
       ELSE Goes(t, "failed") /\ UNCHANGED status
    /\ UNCHANGED <<deleted, rowApp, rowTeam, resources, leftovers, overlapped, faults>>

Wiped(t) == IF Step(t) = "team" THEN {task[t].team} ELSE {Step(t)}
Wipe(t) ==
    /\ At(t, "wipe")
    /\ Step(t) \notin {"mark", "app", "finalize"}
    /\ resources' = resources \ Wiped(t)
    /\ StepDone(t)
    /\ UNCHANGED <<rows, leftovers, overlapped, faults>>

DeleteApp(t) ==
    /\ At(t, "wipe")
    /\ Step(t) = "app"
    /\ task[t].app => "app" \in resources
    /\ resources' = resources \ {"app"}
    /\ StepDone(t)
    /\ UNCHANGED <<rows, leftovers, overlapped, faults>>

\* Zitadel answers 404 for an app that is gone, on every attempt.
AppAbsent(t) ==
    /\ At(t, "wipe")
    /\ Step(t) = "app"
    /\ task[t].app
    /\ "app" \notin resources
    /\ Goes(t, "failed")
    /\ UNCHANGED <<rows, resources, leftovers, overlapped, faults>>

\* An attempt fails, applied or not; another follows, or it was the last.
StepFails(t) ==
    /\ At(t, "wipe")
    /\ Step(t) \notin {"mark", "finalize"}
    /\ \E applied, last \in BOOLEAN :
        /\ resources' = IF applied THEN resources \ Wiped(t) ELSE resources
        /\ IF last THEN Goes(t, "failed") ELSE UNCHANGED task
    /\ Fault("call")
    /\ UNCHANGED <<rows, leftovers, overlapped>>

Finalise(t) ==
    /\ At(t, "wipe")
    /\ Step(t) = "finalize"
    /\ status' = "gone"
    /\ resources' = resources \ {"chat_key"}
    /\ Becomes(t, Idle)
    /\ UNCHANGED <<deleted, rowApp, rowTeam, leftovers, overlapped, faults>>

MarkFailed(t) ==
    /\ At(t, "failed")
    /\ status' = IF status = "deprovisioning" THEN "failed_deprovisioning" ELSE status
    /\ Becomes(t, Idle)
    /\ UNCHANGED <<deleted, rowApp, rowTeam, resources, leftovers, overlapped, faults>>

\* A statement of the task's session fails. A provisioning run still undoes what it made;
\* neither it nor a deletion can write the row any more.
DatabaseFails(t) ==
    /\ \/ task[t].pc \in {"begin", "checkpoint", "marking", "closing", "completing", "load",
                          "failed"}
       \/ At(t, "perform") /\ Forward[task[t].n].makes = "rows"
       \/ At(t, "wipe") /\ Step(t) \in {"mark", "finalize"}
    /\ IF task[t].pc \in {"checkpoint", "perform"}
       THEN Becomes(t, [task[t] EXCEPT !.pc = "compensate", !.broken = TRUE])
       ELSE Becomes(t, Idle)
    /\ Fault("database")
    /\ UNCHANGED <<rows, resources, leftovers, overlapped>>
-------------------------------------------------------------------------------
(* The tenant's people, the administrators, the portal's restarts *)

\* DELETE /org/me, which reads the row under its lock.
DeleteOwn(t) ==
    /\ At(t, "idle")
    /\ "users" \in resources
    /\ status \in InitialEntryStates
    /\ status' = "deprovisioning"
    /\ Goes(t, "load")
    /\ overlapped' = (overlapped \/ \E u \in Tasks : Deletes(u))
    /\ UNCHANGED <<deleted, rowApp, rowTeam, resources, leftovers, faults>>

\* DELETE /orgs/{slug}/deprovision and POST /orgs/{slug}/retry-deprovisioning read the row,
\* wait for its lock, and judge by what they read.
FindToDelete(t) ==
    /\ At(t, "idle")
    /\ ~deleted
    /\ status \in InitialEntryStates
    /\ Goes(t, "locking")
    /\ UNCHANGED <<rows, resources, leftovers, overlapped, faults>>

FindToRetry(t) ==
    /\ At(t, "idle")
    /\ ~deleted
    /\ status = "failed_deprovisioning"
    /\ Goes(t, "locking")
    /\ UNCHANGED <<rows, resources, leftovers, overlapped, faults>>

LockAndDelete(t) ==
    /\ At(t, "locking")
    /\ IF status = "gone"
       THEN /\ Becomes(t, Idle)
            /\ UNCHANGED <<status, overlapped>>
       ELSE /\ status' = "deprovisioning"
            /\ Goes(t, "load")
            /\ overlapped' = (overlapped \/ \E u \in Tasks : Deletes(u))
    /\ UNCHANGED <<deleted, rowApp, rowTeam, resources, leftovers, faults>>

\* Mutant of RetryProvisioning: a rollback under way may be retried.
RetryAnyRollback(t) ==
    /\ At(t, "idle")
    /\ status \in {"failed_rollback_complete", "failed_rollback_pending"}
    /\ deleted
    /\ status' = "queued"
    /\ deleted' = FALSE
    /\ Goes(t, "begin")
    /\ UNCHANGED <<rowApp, rowTeam, resources, leftovers, overlapped, faults>>

\* POST /orgs/{slug}/retry-provisioning: found, locked and judged in one statement.
RetryProvisioning(t) ==
    /\ At(t, "idle")
    /\ status = "failed_rollback_complete"
    /\ deleted
    /\ status' = "queued"
    /\ deleted' = FALSE
    /\ Goes(t, "begin")
    /\ UNCHANGED <<rowApp, rowTeam, resources, leftovers, overlapped, faults>>

\* The portal refuses a caller only while his tenant is being deleted.
WriteKnowledge ==
    /\ status \notin {"deprovisioning", "gone"}
    /\ "users" \in resources
    /\ resources' = resources \cup {"knowledge"}
    /\ UNCHANGED <<rows, task, leftovers, overlapped, faults>>

\* LibreChat writes its database and indexes for as long as it runs.
Chat ==
    /\ {"container", "mongo_user"} \subseteq resources
    /\ resources' = resources \cup {"chats"}
    /\ UNCHANGED <<rows, task, leftovers, overlapped, faults>>

\* A restart stops the tasks; the detector then takes rows older than its threshold.
Alive == \E t \in Tasks : ~At(t, "idle")
Restart(aged) ==
    /\ IF Alive THEN Fault("restart")
       ELSE aged /\ status \in StuckCandidates /\ UNCHANGED faults
    /\ task' = [t \in Tasks |-> Idle]
    /\ status' = IF aged /\ status \in StuckCandidates THEN "failed_rollback_pending" ELSE status
    /\ UNCHANGED <<deleted, rowApp, rowTeam, resources, leftovers, overlapped>>
-------------------------------------------------------------------------------
Work(t) ==
    \/ Begin(t) \/ Checkpoint(t) \/ Perform(t) \/ Refused(t) \/ Finish(t)
    \/ Compensate(t) \/ RolledBack(t) \/ Marking(t) \/ Closing(t) \/ Completing(t)
    \/ Load(t) \/ Mark(t) \/ Wipe(t) \/ DeleteApp(t) \/ AppAbsent(t) \/ Finalise(t)
    \/ MarkFailed(t) \/ LockAndDelete(t)
Fails(t) ==
    \/ CallFails(t) \/ DocsUnreachable(t) \/ CompensationFails(t) \/ LookupFails(t)
    \/ StepFails(t) \/ DatabaseFails(t)
Request(t) ==
    DeleteOwn(t) \/ FindToDelete(t) \/ FindToRetry(t) \/ RetryProvisioning(t)
Next ==
    \/ \E t \in Tasks : Work(t) \/ Fails(t) \/ Request(t)
    \/ WriteKnowledge \/ Chat
    \/ \E aged \in BOOLEAN : Restart(aged)

Spec == Init /\ [][Next]_vars

\* A task goes on until it ends; the portal is restarted again some day, long after its
\* tasks have ended.
FairSpec == /\ Spec
            /\ \A t \in Tasks : WF_vars(Work(t))
            /\ WF_vars(~Alive /\ Restart(TRUE))
\* The administrators do try a failed deletion again.
RetriedSpec == FairSpec /\ WF_vars(\E t \in Tasks : FindToRetry(t))
-------------------------------------------------------------------------------
(* Properties *)

TaskTypes == [pc : {"idle", "begin", "checkpoint", "perform", "compensate", "marking",
                    "closing", "completing", "load", "wipe", "failed", "locking"},
              n : 0..15, wrote : Statuses \cup {"none"}, undo : Seq(Resources),
              team : Teams \cup {NoTeam}, app : BOOLEAN, broken : BOOLEAN]

\* The row holds one of the column's values, and every task stands at one of its points.
TypeOK ==
    /\ status \in Statuses
    /\ deleted \in BOOLEAN
    /\ rowApp \in BOOLEAN
    /\ rowTeam \in Teams \cup {NoTeam}
    /\ resources \subseteq Resources
    /\ task \in [Tasks -> TaskTypes]
    /\ leftovers \subseteq Resources
    /\ overlapped \in BOOLEAN
    /\ faults \in 0..MaxFaults

\* "the state flip is the observable marker that everything is wired up": whatever failed,
\* was rolled back and tried again before, a tenant shown as ready has all it needs, and
\* the team its row names exists.
ReadyIsWired ==
    status = "ready" => /\ Wired \subseteq resources
                        /\ rowTeam # NoTeam => rowTeam \in resources

\* A rollback that is reported complete left nothing of what any attempt had made, except
\* what a compensator failed to remove or a call made without saying so.
RollbackIsComplete ==
    status = "failed_rollback_complete" =>
        resources \cap (Wired \cup {"personal_kb"} \cup Teams) \subseteq leftovers

\* A tenant whose row is deleted is gone everywhere, whichever steps failed, were repeated
\* or overtaken by people who used the tenant between two attempts. A team that an earlier
\* attempt at provisioning lost is all that can remain, unless two deletions overlapped.
GoneIsClean ==
    status = "gone" /\ ~overlapped => resources \subseteq (Teams \cap leftovers)

\* A run that provisions holds its copy of the row to its end and checks its transitions
\* against that copy; so nobody else may touch row or tenant as long as it is alive.
OwnRow ==
    \A t \in Tasks : Provisions(t) =>
        /\ IF At(t, "begin") THEN status \in EntryStates ELSE status = task[t].wrote
        /\ deleted = At(t, "completing")
        /\ \A u \in Tasks \ {t} : ~Provisions(u) /\ ~Deletes(u) /\ ~At(u, "locking")

\* No tenant stays half-way: its task ends, or the detector reports it after a restart.
Midway == ForwardStates \cup {"deprovisioning"}
MidwayIsReported == status \in Midway ~> status \notin Midway

\* "This enables safe retry from the beginning on failed_deprovisioning rows": a deletion
\* that a single failed call interrupted is finished by trying it again.
RetriedDeletionEnds == (status = "deprovisioning" /\ ~deleted) ~> status = "gone"
===============================================================================
