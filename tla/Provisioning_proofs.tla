------------------------ MODULE Provisioning_proofs ------------------------
(* What the life of a tenant guarantees for any number of tasks, teams and faults. *)
EXTENDS Provisioning, TLAPS

Undos(t) == {task[t].undo[i] : i \in DOMAIN task[t].undo}
Removable == Wired \cup {"personal_kb"} \cup Teams
Ending == {"deprovisioning", "failed_deprovisioning", "gone"}

\* What a task has written tells which kind of status the row can hold; an endpoint that
\* waits for the row's lock saw a tenant that was not closed.
StatusInv ==
  /\ status = "failed_rollback_complete" => deleted
  /\ \A t \in Tasks :
       /\ task[t].pc \in {"checkpoint", "perform", "compensate", "marking"}
            => task[t].wrote \in {"queued"} \cup ForwardStates
       /\ task[t].pc \in {"closing", "completing"} => task[t].wrote = "failed_rollback_pending"
       /\ Deletes(t) => status \in Ending
       /\ At(t, "locking") => ~deleted /\ status \in {"ready"} \cup Ending

\* Where a task stands in its sequence; one that has not begun has nothing to undo,
\* and only the second step makes a team.
PlaceInv ==
  \A t \in Tasks :
    /\ At(t, "checkpoint") => task[t].n \in 1..14
    /\ At(t, "perform") => task[t].n \in 1..13
    /\ At(t, "wipe") => task[t].n \in 1..14
    /\ At(t, "idle") \/ At(t, "begin") => task[t].undo = <<>>
    /\ task[t].pc \in {"checkpoint", "perform"} /\ task[t].n < 3 => task[t].team = NoTeam

\* A run has made what its steps so far make, and can undo all that it has made.
RunInv ==
  \A t \in Tasks :
    /\ task[t].pc \in {"checkpoint", "perform"} =>
         /\ \A i \in 1..13 : i < task[t].n /\ Forward[i].makes \in Wired
                               => Forward[i].makes \in resources
         /\ task[t].team # NoTeam => task[t].team \in resources
         /\ Undos(t) \cap Teams \subseteq {task[t].team}
    /\ Provisions(t) => resources \cap Removable \subseteq leftovers \cup Undos(t)
    /\ task[t].pc \in {"marking", "closing", "completing"} => Undos(t) = {}

\* The team a deletion would find is the only one that is not left over; what a deletion has
\* wiped stays wiped.
Loadable == IF rowTeam # NoTeam THEN {rowTeam} ELSE ListedTeams
Wiping(t) ==
  /\ resources \cap Teams \subseteq leftovers \cup {task[t].team}
  /\ \A i \in 1..13 : i < task[t].n => DeprovisionSteps[i] \notin resources
  /\ task[t].n > 9 => task[t].team \notin resources
DeletionInv ==
  /\ status \in {"ready", "deprovisioning", "failed_deprovisioning"} =>
       \A m \in Loadable : resources \cap Teams \subseteq leftovers \cup {m}
  /\ ~overlapped => \A t \in Tasks : Deletes(t) =>
       /\ status = "deprovisioning"
       /\ \A u \in Tasks : Deletes(u) => u = t
       /\ At(t, "wipe") => Wiping(t)

TenantInv ==
  /\ OwnRow /\ StatusInv /\ PlaceInv /\ RunInv /\ DeletionInv
  /\ ReadyIsWired /\ RollbackIsComplete /\ GoneIsClean
-----------------------------------------------------------------------------
(* The tables *)

USE ProvisioningAssumption DEF rows

\* What each call of a run makes.
LEMMA ForwardTable ==
  /\ Len(Forward) = 13 /\ DOMAIN Forward = 1..13
  /\ Forward[1].makes = "app" /\ Forward[2].makes = "team" /\ Forward[3].makes = "team_key"
  /\ Forward[4].makes = "mongo_user" /\ Forward[5].makes = "meili_key"
  /\ Forward[6].makes = "chat_key" /\ Forward[7].makes = "files"
  /\ Forward[8].makes = "personal_kb" /\ Forward[9].makes = "rows"
  /\ Forward[10].makes = "container" /\ Forward[11].makes = "caddyfile"
  /\ Forward[12].makes = "reload" /\ Forward[13].makes = "rows"
BY DEF Forward

\* The states of a run, written out.
LEMMA ForwardNames ==
  ForwardStates = {"creating_zitadel_app", "creating_litellm_team", "creating_mongo_user",
                   "writing_env_file", "creating_personal_kb", "creating_portal_kbs",
                   "starting_container", "writing_caddyfile", "reloading_caddy",
                   "creating_system_groups"}
BY DEF Forward, ForwardStates

\* Each call belongs to one of those states; only one makes a team, only one the base.
LEMMA ForwardSteps ==
  ASSUME NEW n \in 1..13
  PROVE  /\ Forward[n].state \in ForwardStates
         /\ Forward[n].makes \in Wired \cup Kept \cup {"personal_kb", "team"}
         /\ Forward[n].makes = "team" => n = 2
         /\ Forward[n].makes = "personal_kb" => n = 8
BY ForwardTable DEF ForwardStates, Wired, Kept

\* The steps of a deletion.
LEMMA DeprovisionTable ==
  /\ DeprovisionSteps[1] = "mark" /\ DeprovisionSteps[2] = "caddyfile"
  /\ DeprovisionSteps[3] = "container" /\ DeprovisionSteps[4] = "files"
  /\ DeprovisionSteps[5] = "chats" /\ DeprovisionSteps[6] = "mongo_user"
  /\ DeprovisionSteps[7] = "meili_key" /\ DeprovisionSteps[8] = "knowledge"
  /\ DeprovisionSteps[9] = "team" /\ DeprovisionSteps[10] = "personal_kb"
  /\ DeprovisionSteps[11] = "app" /\ DeprovisionSteps[12] = "users"
  /\ DeprovisionSteps[13] = "org" /\ DeprovisionSteps[14] = "finalize"
BY DEF DeprovisionSteps

\* A step of a deletion is told by its name.
LEMMA DeprovisionNames ==
  ASSUME NEW n \in 1..14
  PROVE  /\ DeprovisionSteps[n] = "mark" <=> n = 1
         /\ DeprovisionSteps[n] = "team" <=> n = 9
         /\ DeprovisionSteps[n] = "finalize" <=> n = 14
         /\ DeprovisionSteps[n] = "chats" <=> n = 5
         /\ DeprovisionSteps[n] = "knowledge" <=> n = 8
BY DeprovisionTable

\* No two of the kinds of status have a member in common.
LEMMA StatusKinds ==
  /\ ForwardStates \cap (EntryStates \cup DeprovisionEntryStates \cup
       {"failed_rollback_pending", "deprovisioning", "gone", "none"}) = {}
  /\ Statuses = EntryStates \cup ForwardStates \cup
       {"ready", "failed_rollback_complete", "failed_deprovisioning",
        "failed_rollback_pending", "deprovisioning", "gone"}
BY ForwardNames DEF EntryStates, DeprovisionEntryStates, InitialEntryStates, Statuses

\* What is on a stack after a push, and before a pop.
LEMMA Pushed ==
  ASSUME NEW r \in Resources, NEW s \in Seq(Resources)
  PROVE  LET u == <<r>> \o s
         IN  u \in Seq(Resources) /\ {u[i] : i \in DOMAIN u} = {r} \cup {s[i] : i \in DOMAIN s}
<1> DEFINE u == <<r>> \o s
<1>1. /\ u \in Seq(Resources) /\ Len(u) = Len(s) + 1 /\ u[1] = r
      /\ \A i \in 1..Len(s) : u[i + 1] = s[i]
  OBVIOUS
<1>2. DOMAIN u = 1..(Len(s) + 1) /\ DOMAIN s = 1..Len(s) /\ Len(s) \in Nat
  BY <1>1
<1> HIDE DEF u
<1>3. \A i \in DOMAIN u : u[i] \in {r} \cup {s[j] : j \in DOMAIN s}
  <2> SUFFICES ASSUME NEW i \in DOMAIN u, i # 1
               PROVE  u[i] \in {s[j] : j \in DOMAIN s}
    BY <1>1
  <2>1. i - 1 \in 1..Len(s) /\ (i - 1) + 1 = i
    BY <1>2
  <2> QED
    BY <1>1, <1>2, <2>1
<1>4. \A j \in DOMAIN s : s[j] \in {u[i] : i \in DOMAIN u}
  <2> SUFFICES ASSUME NEW j \in DOMAIN s
               PROVE  s[j] \in {u[i] : i \in DOMAIN u}
    OBVIOUS
  <2>1. j + 1 \in DOMAIN u
    BY <1>2
  <2> QED
    BY <1>1, <1>2, <2>1
<1>5. r \in {u[i] : i \in DOMAIN u}
  BY <1>1, <1>2
<1> QED
  BY <1>1, <1>3, <1>4, <1>5 DEF u

\* A stack holds its top and what is below.
LEMMA Popped ==
  ASSUME NEW s \in Seq(Resources), s # <<>>
  PROVE  /\ Tail(s) \in Seq(Resources) /\ Head(s) \in Resources
         /\ {s[i] : i \in DOMAIN s}
              = {Head(s)} \cup {Tail(s)[i] : i \in DOMAIN Tail(s)}
<1>1. Tail(s) \in Seq(Resources) /\ Head(s) \in Resources /\ <<Head(s)>> \o Tail(s) = s
  OBVIOUS
<1> QED
  <2> DEFINE h == Head(s)
             u == Tail(s)
  <2>1. h \in Resources /\ u \in Seq(Resources) /\ <<h>> \o u = s
    BY <1>1
  <2> HIDE DEF h, u
  <2>2. LET w == <<h>> \o u
        IN  {w[i] : i \in DOMAIN w} = {h} \cup {u[i] : i \in DOMAIN u}
    BY <2>1, Pushed
  <2>3. {s[i] : i \in DOMAIN s} = {h} \cup {u[i] : i \in DOMAIN u}
    BY <2>1, <2>2, Zenon
  <2> QED
    BY <2>1, <2>3 DEF h, u
-----------------------------------------------------------------------------
(* What a step changes *)

Points == {"idle", "begin", "checkpoint", "perform", "compensate", "marking", "closing",
           "completing", "load", "wipe", "failed", "locking"}

\* The task's new place; the other tasks stay where they are.
Alters(t, pc, n, wrote, undo, team) ==
  /\ task' \in [Tasks -> TaskTypes]
  /\ \A u \in Tasks \ {t} : task'[u] = task[u]
  /\ task'[t].pc = pc /\ task'[t].n = n /\ task'[t].wrote = wrote
  /\ task'[t].undo = undo /\ task'[t].team = team

\* The fields of a task have their types.
LEMMA Fields ==
  ASSUME TypeOK, NEW t \in Tasks
  PROVE  /\ task[t] \in TaskTypes /\ task[t].pc \in Points /\ task[t].n \in 0..15
         /\ task[t].wrote \in Statuses \cup {"none"} /\ task[t].undo \in Seq(Resources)
         /\ task[t].team \in Teams \cup {NoTeam} /\ task[t].app \in BOOLEAN
         /\ task[t].broken \in BOOLEAN
BY DEF TypeOK, TaskTypes, Points

\* q is a task's record with these fields.
Holds(q, pc, n, wrote, undo, team) ==
  /\ q \in TaskTypes
  /\ q.pc = pc /\ q.n = n /\ q.wrote = wrote /\ q.undo = undo /\ q.team = team

\* A task that becomes such a record moves there, and no other task moves.
LEMMA Replaced ==
  ASSUME TypeOK, NEW t \in Tasks, NEW r, NEW pc, NEW n, NEW wrote, NEW undo, NEW team,
         Holds(r, pc, n, wrote, undo, team), Becomes(t, r)
  PROVE  Alters(t, pc, n, wrote, undo, team)
BY DEF TypeOK, Becomes, Alters, Holds

\* What a record is after the updates the actions make.
LEMMA Writes ==
  ASSUME NEW r \in TaskTypes
  PROVE  /\ \A pc \in Points :
              Holds([r EXCEPT !.pc = pc], pc, r.n, r.wrote, r.undo, r.team)
         /\ \A pc \in Points, w \in Statuses :
              Holds([r EXCEPT !.pc = pc, !.wrote = w], pc, r.n, w, r.undo, r.team)
         /\ Holds([r EXCEPT !.pc = "compensate", !.broken = TRUE], "compensate", r.n, r.wrote,
                  r.undo, r.team)
         /\ \A u \in Seq(Resources) :
              Holds([r EXCEPT !.undo = u], r.pc, r.n, r.wrote, u, r.team)
         /\ \A n \in 0..15 :
              Holds([r EXCEPT !.n = n], r.pc, n, r.wrote, r.undo, r.team)
         /\ \A n \in 0..15, pc \in Points :
              Holds([r EXCEPT !.n = n, !.pc = pc], pc, n, r.wrote, r.undo, r.team)
         /\ \A u \in Seq(Resources), m \in Teams \cup {NoTeam} :
              Holds([r EXCEPT !.undo = u, !.team = m], r.pc, r.n, r.wrote, u, m)
         /\ \A n \in 0..15, pc \in Points, w \in Statuses :
              Holds([r EXCEPT !.pc = pc, !.n = n, !.wrote = w], pc, n, w, r.undo, r.team)
         /\ \A n \in 0..15, pc \in Points, m \in Teams \cup {NoTeam}, a \in BOOLEAN :
              Holds([r EXCEPT !.pc = pc, !.n = n, !.team = m, !.app = a],
                    pc, n, r.wrote, r.undo, m)
<1>0. TaskTypes = [pc : Points, n : 0..15, wrote : Statuses \cup {"none"},
                   undo : Seq(Resources), team : Teams \cup {NoTeam}, app : BOOLEAN,
                   broken : BOOLEAN]
  BY DEF TaskTypes, Points
<1>1. \A pc \in Points :
       Holds([r EXCEPT !.pc = pc], pc, r.n, r.wrote, r.undo, r.team)
  BY DEF TaskTypes, Points, Holds
<1>2. \A pc \in Points, w \in Statuses :
       Holds([r EXCEPT !.pc = pc, !.wrote = w], pc, r.n, w, r.undo, r.team)
  BY DEF TaskTypes, Points, Holds
<1>3. Holds([r EXCEPT !.pc = "compensate", !.broken = TRUE], "compensate", r.n, r.wrote,
            r.undo, r.team)
  BY DEF TaskTypes, Points, Holds
<1>4. \A u \in Seq(Resources) :
       Holds([r EXCEPT !.undo = u], r.pc, r.n, r.wrote, u, r.team)
  BY DEF TaskTypes, Points, Holds
<1>5. \A n \in 0..15 :
       Holds([r EXCEPT !.n = n], r.pc, n, r.wrote, r.undo, r.team)
  BY DEF TaskTypes, Points, Holds
<1>6. ASSUME NEW n \in 0..15, NEW pc \in Points
      PROVE  Holds([r EXCEPT !.n = n, !.pc = pc], pc, n, r.wrote, r.undo, r.team)
  BY <1>0 DEF Holds
<1>7. \A u \in Seq(Resources), m \in Teams \cup {NoTeam} :
       Holds([r EXCEPT !.undo = u, !.team = m], r.pc, r.n, r.wrote, u, m)
  BY DEF TaskTypes, Points, Holds
<1>8. ASSUME NEW n \in 0..15, NEW pc \in Points, NEW w \in Statuses
      PROVE  Holds([r EXCEPT !.pc = pc, !.n = n, !.wrote = w], pc, n, w, r.undo, r.team)
  BY <1>0 DEF Holds
<1>9. ASSUME NEW n \in 0..15, NEW pc \in Points, NEW m \in Teams \cup {NoTeam},
             NEW a \in BOOLEAN
      PROVE  Holds([r EXCEPT !.pc = pc, !.n = n, !.team = m, !.app = a],
                   pc, n, r.wrote, r.undo, m)
  BY <1>0 DEF Holds
<1> QED
  BY <1>1, <1>2, <1>3, <1>4, <1>5, <1>6, <1>7, <1>8, <1>9

\* The records an idle task turns into.
LEMMA Idles ==
  /\ Holds(Idle, "idle", 0, "none", <<>>, NoTeam)
  /\ Holds([Idle EXCEPT !.pc = "begin"], "begin", 0, "none", <<>>, NoTeam)
  /\ Holds([Idle EXCEPT !.pc = "checkpoint", !.n = 1, !.wrote = "queued"],
           "checkpoint", 1, "queued", <<>>, NoTeam)
  /\ \A m \in Teams \cup {NoTeam}, a \in BOOLEAN :
       Holds([Idle EXCEPT !.pc = "wipe", !.n = 1, !.team = m, !.app = a],
             "wipe", 1, "none", <<>>, m)
<1>1. "queued" \in Statuses /\ <<>> \in Seq(Resources)
  BY DEF Statuses, EntryStates
<1>2. Holds(Idle, "idle", 0, "none", <<>>, NoTeam)
  BY <1>1 DEF Idle, TaskTypes, Holds
<1>3. /\ Idle \in TaskTypes /\ Idle.n = 0 /\ Idle.wrote = "none" /\ Idle.undo = <<>>
      /\ Idle.team = NoTeam
  BY <1>2 DEF Holds
<1>4. "begin" \in Points /\ "checkpoint" \in Points /\ "wipe" \in Points /\ 1 \in 0..15
  BY DEF Points
<1>5. Holds([Idle EXCEPT !.pc = "begin"], "begin", Idle.n, Idle.wrote, Idle.undo, Idle.team)
  BY <1>3, <1>4, Writes
<1>6. Holds([Idle EXCEPT !.pc = "checkpoint", !.n = 1, !.wrote = "queued"],
            "checkpoint", 1, "queued", Idle.undo, Idle.team)
  BY <1>1, <1>3, <1>4, Writes
<1>7. ASSUME NEW m \in Teams \cup {NoTeam}, NEW a \in BOOLEAN
      PROVE  Holds([Idle EXCEPT !.pc = "wipe", !.n = 1, !.team = m, !.app = a],
                   "wipe", 1, Idle.wrote, Idle.undo, m)
  BY <1>3, <1>4, Writes
<1> QED
  BY <1>2, <1>3, <1>5, <1>6, <1>7

\* How the forms of step the actions are made of move a task.
LEMMA Moves ==
  ASSUME TypeOK, NEW t \in Tasks
  PROVE  /\ Becomes(t, Idle) => Alters(t, "idle", 0, "none", <<>>, NoTeam)
         /\ \A pc \in Points : Goes(t, pc) =>
              Alters(t, pc, task[t].n, task[t].wrote, task[t].undo, task[t].team)
         /\ \A pc \in Points, w \in Statuses :
              Becomes(t, [task[t] EXCEPT !.pc = pc, !.wrote = w]) =>
                Alters(t, pc, task[t].n, w, task[t].undo, task[t].team)
         /\ Becomes(t, [task[t] EXCEPT !.pc = "compensate", !.broken = TRUE]) =>
              Alters(t, "compensate", task[t].n, task[t].wrote, task[t].undo, task[t].team)
         /\ Undone(t) /\ task[t].undo # <<>> =>
              Alters(t, task[t].pc, task[t].n, task[t].wrote, Tail(task[t].undo), task[t].team)
         /\ StepDone(t) /\ task[t].n < 15 =>
              Alters(t, task[t].pc, task[t].n + 1, task[t].wrote, task[t].undo, task[t].team)
<1>1. /\ task[t] \in TaskTypes /\ task[t].n \in 0..15 /\ "compensate" \in Points
      /\ task[t].undo \in Seq(Resources)
  BY Fields DEF Points
<1>2. Becomes(t, Idle) => Alters(t, "idle", 0, "none", <<>>, NoTeam)
  BY Idles, Replaced
<1>3. ASSUME NEW pc \in Points, Goes(t, pc)
      PROVE  Alters(t, pc, task[t].n, task[t].wrote, task[t].undo, task[t].team)
  BY <1>1, <1>3, Writes, Replaced DEF Goes
<1>4. ASSUME NEW pc \in Points, NEW w \in Statuses,
             Becomes(t, [task[t] EXCEPT !.pc = pc, !.wrote = w])
      PROVE  Alters(t, pc, task[t].n, w, task[t].undo, task[t].team)
  BY <1>1, <1>4, Writes, Replaced
<1>5. Becomes(t, [task[t] EXCEPT !.pc = "compensate", !.broken = TRUE]) =>
        Alters(t, "compensate", task[t].n, task[t].wrote, task[t].undo, task[t].team)
  BY <1>1, Writes, Replaced
<1>6. ASSUME Undone(t), task[t].undo # <<>>
      PROVE  Alters(t, task[t].pc, task[t].n, task[t].wrote, Tail(task[t].undo), task[t].team)
  BY <1>1, <1>6, Popped, Writes, Replaced DEF Undone
<1>7. ASSUME StepDone(t), task[t].n < 15
      PROVE  Alters(t, task[t].pc, task[t].n + 1, task[t].wrote, task[t].undo, task[t].team)
  <2>0. task[t].n \in 0..15
    BY Fields
  <2>1. task[t].n + 1 \in 0..15
    BY <1>7, <2>0
  <2>2. Becomes(t, [task[t] EXCEPT !.n = task[t].n + 1])
    BY <1>7 DEF StepDone
  <2>3. Holds([task[t] EXCEPT !.n = task[t].n + 1],
              task[t].pc, task[t].n + 1, task[t].wrote, task[t].undo, task[t].team)
    BY <1>1, <2>1, Writes
  <2> QED
    BY <2>2, <2>3, Replaced
<1> QED
  BY <1>2, <1>3, <1>4, <1>5, <1>6, <1>7

\* A run goes on to the next call, with or without something new to undo.
LEMMA Advances ==
  ASSUME TypeOK, NEW t \in Tasks, task[t].n \in 1..13
  PROVE  /\ After(task[t].n) \in {"perform", "checkpoint"}
         /\ task[t].n = 13 => After(task[t].n) = "checkpoint"
         /\ Becomes(t, Advanced(t)) =>
              Alters(t, After(task[t].n), task[t].n + 1, task[t].wrote, task[t].undo,
                     task[t].team)
         /\ \A r \in Resources :
              Becomes(t, [Advanced(t) EXCEPT !.undo = <<r>> \o @,
                                             !.team = IF r \in Teams THEN r ELSE @]) =>
                Alters(t, After(task[t].n), task[t].n + 1, task[t].wrote,
                       <<r>> \o task[t].undo, IF r \in Teams THEN r ELSE task[t].team)
<1>1. /\ After(task[t].n) \in {"perform", "checkpoint"}
      /\ task[t].n = 13 => After(task[t].n) = "checkpoint"
  BY ForwardTable DEF After
<1>2. /\ task[t] \in TaskTypes /\ task[t].n + 1 \in 0..15 /\ After(task[t].n) \in Points
      /\ task[t].undo \in Seq(Resources) /\ task[t].team \in Teams \cup {NoTeam}
  <2>1. task[t].n + 1 \in 0..15
    OBVIOUS
  <2>2. After(task[t].n) \in Points
    BY <1>1 DEF Points
  <2> QED
    BY <2>1, <2>2, Fields
<1>3. Holds(Advanced(t), After(task[t].n), task[t].n + 1, task[t].wrote, task[t].undo,
            task[t].team)
  <2>1. PICK n \in 0..15, pc \in Points : n = task[t].n + 1 /\ pc = After(task[t].n)
    BY <1>2
  <2>2. Holds([task[t] EXCEPT !.n = n, !.pc = pc], pc, n, task[t].wrote, task[t].undo,
              task[t].team)
    BY <1>2, Writes
  <2>3. Advanced(t) = [task[t] EXCEPT !.n = n, !.pc = pc]
    BY <2>1 DEF Advanced
  <2> QED
    BY <2>1, <2>2, <2>3
<1>4. Becomes(t, Advanced(t)) =>
        Alters(t, After(task[t].n), task[t].n + 1, task[t].wrote, task[t].undo, task[t].team)
  BY <1>3, Replaced
<1>5. ASSUME NEW r \in Resources,
             Becomes(t, [Advanced(t) EXCEPT !.undo = <<r>> \o @,
                                            !.team = IF r \in Teams THEN r ELSE @])
      PROVE  Alters(t, After(task[t].n), task[t].n + 1, task[t].wrote,
                    <<r>> \o task[t].undo, IF r \in Teams THEN r ELSE task[t].team)
  <2>1. /\ Advanced(t) \in TaskTypes /\ Advanced(t).undo = task[t].undo
        /\ Advanced(t).team = task[t].team /\ Advanced(t).pc = After(task[t].n)
        /\ Advanced(t).n = task[t].n + 1 /\ Advanced(t).wrote = task[t].wrote
    BY <1>3 DEF Holds
  <2>2. <<r>> \o task[t].undo \in Seq(Resources)
    BY <1>2, Pushed
  <2>3. PICK u \in Seq(Resources), m \in Teams \cup {NoTeam} :
          /\ u = <<r>> \o task[t].undo
          /\ m = IF r \in Teams THEN r ELSE task[t].team
    BY <1>2, <2>2
  <2>4. Becomes(t, [Advanced(t) EXCEPT !.undo = u, !.team = m])
    BY <1>5, <2>1, <2>3
  <2>5. Holds([Advanced(t) EXCEPT !.undo = u, !.team = m],
              After(task[t].n), task[t].n + 1, task[t].wrote, u, m)
    BY <2>1, Writes
  <2> QED
    BY <2>3, <2>4, <2>5, Replaced
<1> QED
  BY <1>1, <1>4, <1>5

\* What a call makes can be undone; only the second makes a team.
LEMMA Makes ==
  ASSUME NEW t \in Tasks, task[t].n \in 1..13
  PROVE  /\ Made(t) \subseteq Removable /\ Made(t) \subseteq Resources
         /\ Made(t) \cap Teams # {} => task[t].n = 2
         /\ Forward[task[t].n].makes \in Wired => Made(t) = {Forward[task[t].n].makes}
<1>1. CASE Forward[task[t].n].makes = "team"
  <2>1. task[t].n = 2 /\ "team" \notin Kept /\ "team" \notin Wired
    BY <1>1, ForwardSteps DEF Kept, Wired
  <2> QED
    BY <1>1, <2>1 DEF Made, Removable, Resources
<1>2. CASE Forward[task[t].n].makes # "team"
  <2>1. /\ Forward[task[t].n].makes \in Wired \cup Kept \cup {"personal_kb"}
        /\ Kept \cap Wired = {}
    BY <1>2, ForwardSteps DEF Kept, Wired
  <2>2. Forward[task[t].n].makes \in Wired \cup {"personal_kb"}
          => Forward[task[t].n].makes \notin Teams
    BY TeamsAssumption
  <2> QED
    BY <1>2, <2>1, <2>2 DEF Made, Removable, Resources
<1> QED
  BY <1>1, <1>2

\* The task goes to pc with all else it knows; or it ends.
Moved(t, pc) == Alters(t, pc, task[t].n, task[t].wrote, task[t].undo, task[t].team)
Ended(t) == Alters(t, "idle", 0, "none", <<>>, NoTeam)
Stepped(t) == Alters(t, "wipe", task[t].n + 1, task[t].wrote, task[t].undo, task[t].team)

\* How a run moves.
LEMMA RunWays ==
  ASSUME TypeOK, PlaceInv, NEW t \in Tasks
  PROVE  /\ Begin(t) => IF status \in EntryStates /\ ~deleted
                        THEN Alters(t, "checkpoint", 1, "queued", <<>>, NoTeam)
                        ELSE Ended(t)
         /\ Checkpoint(t) =>
              Alters(t, "perform", task[t].n, status', task[t].undo, task[t].team)
         /\ Perform(t) =>
              IF Made(t) = {}
              THEN Alters(t, After(task[t].n), task[t].n + 1, task[t].wrote, task[t].undo,
                          task[t].team)
              ELSE \E r \in Made(t) :
                     /\ resources' = resources \cup {r}
                     /\ Alters(t, After(task[t].n), task[t].n + 1, task[t].wrote,
                               <<r>> \o task[t].undo, IF r \in Teams THEN r ELSE task[t].team)
         /\ DocsUnreachable(t) =>
              Alters(t, After(task[t].n), task[t].n + 1, task[t].wrote, task[t].undo,
                     task[t].team)
         /\ Refused(t) \/ CallFails(t) => Moved(t, "compensate")
         /\ Compensate(t) \/ CompensationFails(t) =>
              Alters(t, "compensate", task[t].n, task[t].wrote, Tail(task[t].undo),
                     task[t].team)
         /\ RolledBack(t) => Moved(t, "marking") \/ Ended(t)
         /\ Marking(t) => Alters(t, "closing", task[t].n, status', task[t].undo, task[t].team)
         /\ Closing(t) => Moved(t, "completing")
         /\ Finish(t) \/ Completing(t) => Ended(t)
<1> USE DEF Moved, Ended, At
<1>0. /\ {"perform", "compensate", "marking", "closing", "completing"} \subseteq Points
      /\ "failed_rollback_pending" \in Statuses /\ ForwardStates \subseteq Statuses
      /\ At(t, "checkpoint") => task[t].n \in 1..14
      /\ At(t, "perform") => task[t].n \in 1..13
  BY DEF Points, Statuses, PlaceInv
<1>1. Begin(t) => IF status \in EntryStates /\ ~deleted
                  THEN Alters(t, "checkpoint", 1, "queued", <<>>, NoTeam) ELSE Ended(t)
  BY Idles, Replaced, Moves DEF Begin
<1>2. Checkpoint(t) => Alters(t, "perform", task[t].n, status', task[t].undo, task[t].team)
  <2> SUFFICES ASSUME Checkpoint(t)
               PROVE  Alters(t, "perform", task[t].n, status', task[t].undo, task[t].team)
    OBVIOUS
  <2>1. task[t].n \in 1..13
    BY <1>0, ForwardTable DEF Checkpoint
  <2>2. status' \in Statuses
    BY <1>0, <2>1, ForwardSteps DEF Checkpoint
  <2>3. Becomes(t, [task[t] EXCEPT !.pc = "perform", !.wrote = status'])
    BY DEF Checkpoint
  <2> QED
    BY <1>0, <2>2, <2>3, Moves
<1>3. ASSUME Perform(t)
      PROVE  IF Made(t) = {}
             THEN Alters(t, After(task[t].n), task[t].n + 1, task[t].wrote, task[t].undo,
                         task[t].team)
             ELSE \E r \in Made(t) :
                    /\ resources' = resources \cup {r}
                    /\ Alters(t, After(task[t].n), task[t].n + 1, task[t].wrote,
                              <<r>> \o task[t].undo, IF r \in Teams THEN r ELSE task[t].team)
  BY <1>0, <1>3, Advances, Makes DEF Perform
<1>4. DocsUnreachable(t) =>
        Alters(t, After(task[t].n), task[t].n + 1, task[t].wrote, task[t].undo, task[t].team)
  BY <1>0, Advances DEF DocsUnreachable
<1>5. Refused(t) \/ CallFails(t) => Moved(t, "compensate")
  BY <1>0, Moves DEF Refused, CallFails
<1>6. Compensate(t) \/ CompensationFails(t) =>
        Alters(t, "compensate", task[t].n, task[t].wrote, Tail(task[t].undo), task[t].team)
  BY Moves DEF Compensate, CompensationFails, Undo
<1>7. RolledBack(t) => Moved(t, "marking") \/ Ended(t)
  BY <1>0, Moves DEF RolledBack
<1>8. Marking(t) => Alters(t, "closing", task[t].n, status', task[t].undo, task[t].team)
  BY <1>0, Moves DEF Marking
<1>9. Closing(t) => Moved(t, "completing")
  BY <1>0, Moves DEF Closing
<1>10. Finish(t) \/ Completing(t) => Ended(t)
  BY Moves DEF Finish, Completing
<1> QED
  BY <1>1, <1>2, <1>3, <1>4, <1>5, <1>6, <1>7, <1>8, <1>9, <1>10

\* How a deletion moves, and a request.
LEMMA DeletionWays ==
  ASSUME TypeOK, PlaceInv, NEW t \in Tasks
  PROVE  /\ Load(t) => IF status = "gone" THEN Ended(t)
                       ELSE \E m \in Loadable : Alters(t, "wipe", 1, "none", <<>>, m)
         /\ Mark(t) => IF status \in DeprovisionEntryStates \cup {"deprovisioning"}
                       THEN Stepped(t) ELSE Moved(t, "failed")
         /\ Wipe(t) \/ DeleteApp(t) => Stepped(t)
         /\ AppAbsent(t) \/ LookupFails(t) => Moved(t, "failed")
         /\ StepFails(t) => Moved(t, "failed") \/ Moved(t, "wipe")
         /\ Finalise(t) \/ MarkFailed(t) => Ended(t)
         /\ DatabaseFails(t) => IF task[t].pc \in {"checkpoint", "perform"}
                                THEN Moved(t, "compensate") ELSE Ended(t)
         /\ LockAndDelete(t) => IF status = "gone" THEN Ended(t) ELSE Moved(t, "load")
         /\ DeleteOwn(t) => Moved(t, "load")
         /\ FindToDelete(t) \/ FindToRetry(t) => Moved(t, "locking")
         /\ RetryProvisioning(t) => Moved(t, "begin")
<1> USE DEF Moved, Ended, Stepped, At
<1>0. /\ {"begin", "compensate", "load", "failed", "locking"} \subseteq Points
      /\ At(t, "wipe") => task[t].n \in 1..14
  BY DEF Points, PlaceInv
<1>a. StepDone(t) /\ At(t, "wipe") => Stepped(t)
  <2>1. At(t, "wipe") => task[t].n < 15
    BY <1>0
  <2> QED
    BY <2>1, Moves
<1>1. ASSUME Load(t)
      PROVE  IF status = "gone" THEN Ended(t)
             ELSE \E m \in Loadable : Alters(t, "wipe", 1, "none", <<>>, m)
  <2>1. CASE status = "gone"
    BY <1>1, <2>1, Moves DEF Load
  <2>2. CASE status # "gone"
    <3>1. (rowApp \/ "app" \in resources) \in BOOLEAN /\ Loadable \subseteq Teams \cup {NoTeam}
      BY DEF Loadable, ListedTeams, TypeOK
    <3>2. PICK m \in Loadable :
            Becomes(t, [Idle EXCEPT !.pc = "wipe", !.n = 1, !.team = m,
                                    !.app = rowApp \/ "app" \in resources])
      BY <1>1, <2>2 DEF Load, Loadable
    <3>3. Holds([Idle EXCEPT !.pc = "wipe", !.n = 1, !.team = m,
                             !.app = rowApp \/ "app" \in resources],
                "wipe", 1, "none", <<>>, m)
      BY <3>1, Idles
    <3> QED
      BY <2>2, <3>2, <3>3, Replaced
  <2> QED
    BY <2>1, <2>2
<1>2. Mark(t) => IF status \in DeprovisionEntryStates \cup {"deprovisioning"}
                 THEN Stepped(t) ELSE Moved(t, "failed")
  BY <1>0, <1>a, Moves DEF Mark
<1>3. Wipe(t) \/ DeleteApp(t) => Stepped(t)
  BY <1>a DEF Wipe, DeleteApp
<1>4. AppAbsent(t) \/ LookupFails(t) => Moved(t, "failed")
  BY <1>0, Moves DEF AppAbsent, LookupFails
<1>5. StepFails(t) => Moved(t, "failed") \/ Moved(t, "wipe")
  <2>1. At(t, "wipe") /\ UNCHANGED task => Moved(t, "wipe")
    BY DEF Alters, TypeOK
  <2> QED
    BY <1>0, <2>1, Moves DEF StepFails
<1>6. Finalise(t) \/ MarkFailed(t) => Ended(t)
  BY Moves DEF Finalise, MarkFailed
<1>7. DatabaseFails(t) => IF task[t].pc \in {"checkpoint", "perform"}
                          THEN Moved(t, "compensate") ELSE Ended(t)
  BY Moves DEF DatabaseFails
<1>8. LockAndDelete(t) => IF status = "gone" THEN Ended(t) ELSE Moved(t, "load")
  BY <1>0, Moves DEF LockAndDelete
<1>9. DeleteOwn(t) => Moved(t, "load")
  BY <1>0, Moves DEF DeleteOwn
<1>10. FindToDelete(t) \/ FindToRetry(t) => Moved(t, "locking")
  BY <1>0, Moves DEF FindToDelete, FindToRetry
<1>11. RetryProvisioning(t) => Moved(t, "begin")
  BY <1>0, Moves DEF RetryProvisioning
<1> QED
  BY <1>1, <1>2, <1>3, <1>4, <1>5, <1>6, <1>7, <1>8, <1>9, <1>10, <1>11
-----------------------------------------------------------------------------
(* Row and tasks *)

\* What the invariants say of one task and the row.
RowAt(t) ==
  /\ Provisions(t) => /\ IF At(t, "begin") THEN status \in EntryStates
                                           ELSE status = task[t].wrote
                      /\ deleted = At(t, "completing")
  /\ task[t].pc \in {"checkpoint", "perform", "compensate", "marking"}
       => task[t].wrote \in {"queued"} \cup ForwardStates
  /\ task[t].pc \in {"closing", "completing"} => task[t].wrote = "failed_rollback_pending"
  /\ Deletes(t) => status \in Ending
  /\ At(t, "locking") => ~deleted /\ status \in {"ready"} \cup Ending
  /\ status = "failed_rollback_complete" => deleted

\* A step keeps them for the task that makes it; a task comes to provision only by the
\* administrator's retry, and without provisioning it leaves an ending tenant ending.
LEMMA RowAtStep ==
  ASSUME TypeOK, PlaceInv, NEW t \in Tasks, RowAt(t), Work(t) \/ Fails(t) \/ Request(t)
  PROVE  /\ RowAt(t)'
         /\ Provisions(t)' => Provisions(t) \/ RetryProvisioning(t)
         /\ \/ Provisions(t) \/ RetryProvisioning(t)
            \/ /\ status \in Ending => status' \in Ending
               /\ status = "ready" => status' \in {"ready"} \cup Ending
               /\ deleted' = deleted
         /\ At(t, "idle") => Request(t)
<1> USE DEF At, Provisions, Deletes, RowAt, Alters, Ending
<1>0. /\ At(t, "checkpoint") => task[t].n \in 1..14
      /\ At(t, "perform") => task[t].n \in 1..13
  BY DEF PlaceInv
<1>1. CASE Begin(t)
  BY <1>1, RunWays, <1>0, StatusKinds
  DEF Begin, Ended, EntryStates, InitialEntryStates, DeprovisionEntryStates
<1>2. CASE Checkpoint(t)
  <2>1. task[t].n \in 1..13
    BY <1>0, <1>2, ForwardTable DEF Checkpoint
  <2>2. status' \in ForwardStates
    BY <1>2, <2>1, ForwardSteps DEF Checkpoint
  <2> QED
    BY <1>2, <2>2, RunWays, StatusKinds
    DEF Checkpoint, EntryStates, InitialEntryStates, DeprovisionEntryStates
<1>3. CASE Perform(t)
  BY <1>3, RunWays, Advances, <1>0, StatusKinds
  DEF Perform, EntryStates, InitialEntryStates, DeprovisionEntryStates
<1>4. CASE DocsUnreachable(t)
  BY <1>4, RunWays, Advances, <1>0, StatusKinds
  DEF DocsUnreachable, EntryStates, InitialEntryStates, DeprovisionEntryStates
<1>5. CASE Refused(t) \/ CallFails(t)
  BY <1>5, RunWays, <1>0, StatusKinds
  DEF Refused, CallFails, Moved, EntryStates, InitialEntryStates, DeprovisionEntryStates
<1>6. CASE Compensate(t) \/ CompensationFails(t)
  BY <1>6, RunWays, <1>0, StatusKinds
  DEF Compensate, CompensationFails, Undo, EntryStates, InitialEntryStates,
     DeprovisionEntryStates
<1>7. CASE RolledBack(t)
  BY <1>7, RunWays, <1>0, StatusKinds
  DEF RolledBack, Moved, Ended, EntryStates, InitialEntryStates, DeprovisionEntryStates
<1>8. CASE Marking(t)
  BY <1>8, RunWays, <1>0, StatusKinds
  DEF Marking, EntryStates, InitialEntryStates, DeprovisionEntryStates
<1>9. CASE Closing(t)
  BY <1>9, RunWays, <1>0, StatusKinds
  DEF Closing, Moved, EntryStates, InitialEntryStates, DeprovisionEntryStates
<1>10. CASE Finish(t) \/ Completing(t)
  BY <1>10, RunWays, <1>0, StatusKinds
  DEF Finish, Completing, Ended, EntryStates, InitialEntryStates, DeprovisionEntryStates
<1>11. CASE Load(t)
  BY <1>11, DeletionWays, <1>0, StatusKinds
  DEF Load, Ended, EntryStates, InitialEntryStates, DeprovisionEntryStates
<1>12. CASE Mark(t)
  BY <1>12, DeletionWays, <1>0, StatusKinds
  DEF Mark, Step, Stepped, Moved, EntryStates, InitialEntryStates, DeprovisionEntryStates
<1>13. CASE Wipe(t) \/ DeleteApp(t)
  BY <1>13, DeletionWays, <1>0, StatusKinds
  DEF Wipe, DeleteApp, Step, Stepped, EntryStates, InitialEntryStates, DeprovisionEntryStates
<1>14. CASE AppAbsent(t) \/ LookupFails(t) \/ StepFails(t)
  BY <1>14, DeletionWays, <1>0, StatusKinds
  DEF AppAbsent, LookupFails, StepFails, Moved, EntryStates, InitialEntryStates,
     DeprovisionEntryStates
<1>15. CASE Finalise(t) \/ MarkFailed(t)
  BY <1>15, DeletionWays, <1>0, StatusKinds
  DEF Finalise, MarkFailed, Ended, EntryStates, InitialEntryStates, DeprovisionEntryStates
<1>16. CASE DatabaseFails(t)
  <2>1. CASE Moved(t, "compensate") /\ task[t].pc \in {"checkpoint", "perform"}
    BY <1>16, <2>1, StatusKinds
    DEF DatabaseFails, Moved, EntryStates, InitialEntryStates, DeprovisionEntryStates
  <2>2. CASE Ended(t)
    BY <1>16, <2>2 DEF DatabaseFails, Ended
  <2> QED
    BY <1>16, <2>1, <2>2, DeletionWays
<1>17. CASE LockAndDelete(t)
  BY <1>17, DeletionWays, <1>0, StatusKinds
  DEF LockAndDelete, Moved, Ended, EntryStates, InitialEntryStates, DeprovisionEntryStates
<1>18. CASE DeleteOwn(t)
  BY <1>18, DeletionWays, <1>0, StatusKinds
  DEF Request, DeleteOwn, Moved, EntryStates, InitialEntryStates, DeprovisionEntryStates
<1>19. CASE FindToDelete(t) \/ FindToRetry(t)
  BY <1>19, DeletionWays, <1>0, StatusKinds
  DEF Request, FindToDelete, FindToRetry, Moved, EntryStates, InitialEntryStates,
     DeprovisionEntryStates
<1>20. CASE RetryProvisioning(t)
  BY <1>20, DeletionWays, <1>0, StatusKinds
  DEF Request, RetryProvisioning, Moved, EntryStates, InitialEntryStates, DeprovisionEntryStates
<1> QED
  BY <1>1, <1>2, <1>3, <1>4, <1>5, <1>6, <1>7, <1>8, <1>9, <1>10, <1>11, <1>12, <1>13, <1>14,
     <1>15, <1>16, <1>17, <1>18, <1>19, <1>20 DEF Work, Fails, Request

\* While a task provisions, no other task is at work and no request is accepted.
LEMMA Alone ==
  ASSUME TypeOK, OwnRow, StatusInv, NEW t \in Tasks, NEW u \in Tasks, u # t, Provisions(u)
  PROVE  At(t, "idle") /\ ~Request(t)
<1>1. At(t, "idle")
  BY Fields DEF OwnRow, Provisions, Deletes, At, Points
<1>2. status \notin {"ready", "failed_rollback_complete", "failed_deprovisioning"}
  BY StatusKinds DEF OwnRow, StatusInv, Provisions, At, EntryStates, InitialEntryStates,
     DeprovisionEntryStates
<1> QED
  BY <1>1, <1>2 DEF Request, DeleteOwn, FindToDelete, FindToRetry, RetryProvisioning,
     InitialEntryStates

\* So the copy of the row a run holds stays true.
LEMMA RowPreserved ==
  ASSUME TypeOK, OwnRow, StatusInv, PlaceInv, NEW t \in Tasks,
         Work(t) \/ Fails(t) \/ Request(t), \A u \in Tasks \ {t} : task'[u] = task[u]
  PROVE  OwnRow' /\ StatusInv'
<1>1. \A u \in Tasks : RowAt(u)
  BY DEF OwnRow, StatusInv, RowAt
<1>2. /\ RowAt(t)'
      /\ Provisions(t)' => Provisions(t) \/ RetryProvisioning(t)
      /\ \/ Provisions(t) \/ RetryProvisioning(t)
         \/ /\ status \in Ending => status' \in Ending
            /\ status = "ready" => status' \in {"ready"} \cup Ending
            /\ deleted' = deleted
      /\ At(t, "idle") => Request(t)
  BY <1>1, RowAtStep
<1>3. \A u \in Tasks \ {t} : ~Provisions(u)
  BY <1>2, Alone
<1>4. Provisions(t) \/ RetryProvisioning(t) =>
        \A u \in Tasks \ {t} : ~Deletes(u) /\ ~At(u, "locking")
  BY DEF OwnRow, StatusInv, RetryProvisioning, Ending
<1>5. \A u \in Tasks \ {t} :
        /\ Provisions(u)' <=> Provisions(u)
        /\ Deletes(u)' <=> Deletes(u)
        /\ At(u, "locking")' <=> At(u, "locking")
        /\ task'[u].pc = task[u].pc /\ task'[u].wrote = task[u].wrote
  BY DEF Provisions, Deletes, At
<1>6. OwnRow'
  BY <1>2, <1>3, <1>4, <1>5 DEF OwnRow, RowAt
<1>7. ASSUME NEW u \in Tasks
      PROVE  RowAt(u)'
  <2>1. CASE u = t
    BY <1>2, <2>1
  <2>2. CASE u # t
    <3>1. RowAt(u) /\ ~Provisions(u)
      BY <1>1, <1>3, <2>2
    <3>2. status' = "failed_rollback_complete" => deleted'
      BY <1>2 DEF RowAt
    <3> QED
      BY <1>2, <1>4, <1>5, <2>2, <3>1, <3>2 DEF RowAt, Provisions, At
  <2> QED
    BY <2>1, <2>2
<1>8. StatusInv'
  BY <1>2, <1>7 DEF StatusInv, RowAt
<1> QED
  BY <1>6, <1>8

\* A step keeps a task within its sequence, and every variable within its type.
LEMMA PlacePreserved ==
  ASSUME TypeOK, PlaceInv, NEW t \in Tasks, Work(t) \/ Fails(t) \/ Request(t)
  PROVE  PlaceInv'
<1> DEFINE PlaceOf(u) ==
      /\ At(u, "checkpoint") => task[u].n \in 1..14
      /\ At(u, "perform") => task[u].n \in 1..13
      /\ At(u, "wipe") => task[u].n \in 1..14
      /\ At(u, "idle") \/ At(u, "begin") => task[u].undo = <<>>
      /\ task[u].pc \in {"checkpoint", "perform"} /\ task[u].n < 3 => task[u].team = NoTeam
<1>0. PlaceOf(t)
  BY DEF PlaceInv
<1> SUFFICES /\ \A u \in Tasks \ {t} : task'[u] = task[u]
             /\ PlaceOf(t)'
  BY DEF PlaceInv, At
<1> USE DEF At, Alters
<1>1. CASE Begin(t)
  BY <1>1, RunWays, <1>0
  DEF Begin, Ended
<1>2. CASE Checkpoint(t)
  <2>1. task[t].n \in 1..13
    BY <1>0, <1>2, ForwardTable DEF Checkpoint
  <2> QED
    BY <1>0, <1>2, <2>1, RunWays DEF Checkpoint
<1>3. CASE Perform(t)
  <2>1. task[t].pc = "perform"
    BY <1>3 DEF Perform
  <2>2. task[t].n \in 1..13 /\ task[t].n + 1 \in 1..14
        /\ (task[t].n + 1 \in 1..13 \/ task[t].n = 13)
    BY <1>0, <2>1
  <2>3. /\ After(task[t].n) \in {"perform", "checkpoint"}
        /\ task[t].n = 13 => After(task[t].n) = "checkpoint"
    BY <2>2, Advances
  <2>4. CASE Made(t) = {}
    <3>1. Alters(t, After(task[t].n), task[t].n + 1, task[t].wrote, task[t].undo,
                 task[t].team)
      BY <1>3, <2>4, RunWays
    <3> QED
      BY <1>0, <2>1, <2>2, <2>3, <3>1
  <2>5. CASE Made(t) # {}
    <3>1. PICK r \in Made(t) :
            Alters(t, After(task[t].n), task[t].n + 1, task[t].wrote, <<r>> \o task[t].undo,
                   IF r \in Teams THEN r ELSE task[t].team)
      BY <1>3, <2>5, RunWays
    <3>2. r \in Teams => task[t].n = 2
      BY <2>2, Makes
    <3>3. /\ task'[t].pc \in {"perform", "checkpoint"}
          /\ task'[t].pc = "perform" => task'[t].n \in 1..13
          /\ task'[t].n \in 1..14
      BY <2>2, <2>3, <3>1
    <3>4. task'[t].n < 3 => task'[t].team = NoTeam
      <4>1. task[t].n + 1 < 3 => task[t].n < 3 /\ task[t].n # 2
        BY <2>2
      <4> QED
        BY <1>0, <2>1, <3>1, <3>2, <4>1
    <3> QED
      BY <3>1, <3>3, <3>4
  <2> QED
    BY <2>4, <2>5
<1>4. CASE DocsUnreachable(t)
  <2>1. task[t].pc = "perform"
    BY <1>4 DEF DocsUnreachable
  <2>2. task[t].n \in 1..13 /\ task[t].n + 1 \in 1..14
        /\ (task[t].n + 1 \in 1..13 \/ task[t].n = 13)
    BY <1>0, <2>1
  <2>3. /\ After(task[t].n) \in {"perform", "checkpoint"}
        /\ task[t].n = 13 => After(task[t].n) = "checkpoint"
    BY <2>2, Advances
  <2>4. Alters(t, After(task[t].n), task[t].n + 1, task[t].wrote, task[t].undo, task[t].team)
    BY <1>4, RunWays
  <2> QED
    BY <1>0, <2>1, <2>2, <2>3, <2>4
<1>5. CASE Refused(t) \/ CallFails(t)
  BY <1>5, RunWays, <1>0
  DEF Refused, CallFails, Moved
<1>6. CASE Compensate(t) \/ CompensationFails(t)
  BY <1>6, RunWays, <1>0
  DEF Compensate, CompensationFails, Undo
<1>7. CASE RolledBack(t)
  BY <1>7, RunWays, <1>0
  DEF RolledBack, Moved, Ended
<1>8. CASE Marking(t)
  BY <1>8, RunWays, <1>0
  DEF Marking
<1>9. CASE Closing(t)
  BY <1>9, RunWays, <1>0
  DEF Closing, Moved
<1>10. CASE Finish(t) \/ Completing(t)
  BY <1>10, RunWays, <1>0
  DEF Finish, Completing, Ended
<1>11. CASE Load(t)
  <2>1. CASE status = "gone"
    BY <1>11, <2>1, DeletionWays DEF Ended
  <2>2. CASE status # "gone"
    BY <1>11, <2>2, DeletionWays
  <2> QED
    BY <2>1, <2>2
<1>12. CASE Mark(t)
  <2>1. task[t].n = 1 /\ task[t].pc = "wipe"
    BY <1>0, <1>12, DeprovisionNames DEF Mark, Step
  <2> QED
    BY <1>12, <2>1, DeletionWays DEF Stepped, Moved
<1>13. CASE Wipe(t) \/ DeleteApp(t)
  BY <1>13, DeletionWays, <1>0, DeprovisionNames
  DEF Wipe, DeleteApp, Step, Stepped
<1>14. CASE AppAbsent(t) \/ LookupFails(t) \/ StepFails(t)
  BY <1>14, DeletionWays, <1>0
  DEF AppAbsent, LookupFails, StepFails, Moved
<1>15. CASE Finalise(t) \/ MarkFailed(t)
  BY <1>15, DeletionWays, <1>0
  DEF Finalise, MarkFailed, Ended
<1>16. CASE DatabaseFails(t)
  BY <1>16, DeletionWays, <1>0
  DEF DatabaseFails, Moved, Ended
<1>17. CASE LockAndDelete(t)
  BY <1>17, DeletionWays, <1>0
  DEF LockAndDelete, Moved, Ended
<1>18. CASE DeleteOwn(t)
  BY <1>18, DeletionWays, <1>0
  DEF DeleteOwn, Moved
<1>19. CASE FindToDelete(t) \/ FindToRetry(t)
  BY <1>19, DeletionWays, <1>0
  DEF FindToDelete, FindToRetry, Moved
<1>20. CASE RetryProvisioning(t)
  BY <1>20, DeletionWays, <1>0
  DEF RetryProvisioning, Moved
<1> QED
  BY <1>1, <1>2, <1>3, <1>4, <1>5, <1>6, <1>7, <1>8, <1>9, <1>10, <1>11, <1>12, <1>13, <1>14,
     <1>15, <1>16, <1>17, <1>18, <1>19, <1>20 DEF Work, Fails, Request

\* Every step keeps the types.
LEMMA TypesPreserved ==
  ASSUME TypeOK, PlaceInv, NEW t \in Tasks, Work(t) \/ Fails(t) \/ Request(t)
  PROVE  TypeOK'
<1>0. /\ status \in Statuses /\ deleted \in BOOLEAN /\ rowApp \in BOOLEAN
      /\ rowTeam \in Teams \cup {NoTeam} /\ resources \subseteq Resources
      /\ leftovers \subseteq Resources /\ overlapped \in BOOLEAN /\ faults \in 0..MaxFaults
      /\ task[t].team \in Teams \cup {NoTeam}
      /\ At(t, "perform") => task[t].n \in 1..13
      /\ At(t, "checkpoint") => task[t].n \in 1..14
  BY Fields DEF TypeOK, PlaceInv
<1>s. /\ {"queued", "ready", "failed_rollback_pending", "failed_rollback_complete",
          "deprovisioning", "failed_deprovisioning", "gone"} \subseteq Statuses
      /\ ForwardStates \subseteq Statuses
  BY StatusKinds DEF EntryStates
<1> SUFFICES /\ status' \in Statuses /\ deleted' \in BOOLEAN /\ rowApp' \in BOOLEAN
             /\ rowTeam' \in Teams \cup {NoTeam} /\ resources' \subseteq Resources
             /\ leftovers' \subseteq Resources /\ overlapped' \in BOOLEAN
             /\ faults' \in 0..MaxFaults /\ task' \in [Tasks -> TaskTypes]
  BY DEF TypeOK
<1> USE DEF Alters, Fault, At
<1>1. CASE Begin(t)
  BY <1>1, RunWays, <1>0, <1>s
  DEF Begin, Ended
<1>2. CASE Checkpoint(t)
  <2>1. task[t].n \in 1..13
    BY <1>0, <1>2, ForwardTable DEF Checkpoint
  <2>2. status' \in Statuses
    BY <1>s, <1>2, <2>1, ForwardSteps DEF Checkpoint
  <2> QED
    BY <1>0, <1>2, <2>2, RunWays DEF Checkpoint
<1>3. CASE Perform(t)
  <2>1. At(t, "perform")
    BY <1>3 DEF Perform
  <2>2. Made(t) \subseteq Resources
    BY <1>0, <2>1, Makes
  <2>3. resources' \subseteq Resources
    <3>1. resources' \subseteq resources \cup Made(t)
      BY <1>3 DEF Perform
    <3> QED
      BY <1>0, <2>2, <3>1
  <2>4. task' \in [Tasks -> TaskTypes]
    BY <1>3, RunWays
  <2> QED
    BY <1>0, <1>3, <2>3, <2>4 DEF Perform
<1>4. CASE DocsUnreachable(t)
  <2>1. At(t, "perform")
    BY <1>4 DEF DocsUnreachable
  <2>2. Made(t) \subseteq Resources
    BY <1>0, <2>1, Makes
  <2>3. resources' \subseteq Resources /\ leftovers' \subseteq Resources
    BY <1>0, <1>4, <2>2 DEF DocsUnreachable, Spill
  <2>4. faults' \in 0..MaxFaults /\ task' \in [Tasks -> TaskTypes]
    BY <1>0, <1>4, RunWays DEF DocsUnreachable, Moved
  <2> QED
    BY <1>0, <1>4, <2>3, <2>4 DEF DocsUnreachable
<1>5. CASE Refused(t) \/ CallFails(t)
  <2>1. At(t, "perform")
    BY <1>5 DEF Refused, CallFails
  <2>2. Made(t) \subseteq Resources
    BY <1>0, <2>1, Makes
  <2>3. resources' \subseteq Resources /\ leftovers' \subseteq Resources
    BY <1>0, <1>5, <2>2 DEF Refused, CallFails, Spill
  <2>4. faults' \in 0..MaxFaults /\ task' \in [Tasks -> TaskTypes]
    BY <1>0, <1>5, RunWays DEF Refused, CallFails, Moved
  <2> QED
    BY <1>0, <1>5, <2>3, <2>4 DEF Refused, CallFails
<1>6. CASE Compensate(t) \/ CompensationFails(t)
  BY <1>6, RunWays, <1>0, <1>s, Popped, Fields
  DEF Compensate, CompensationFails, Undo
<1>7. CASE RolledBack(t)
  BY <1>7, RunWays, <1>0, <1>s
  DEF RolledBack, Moved, Ended
<1>8. CASE Marking(t)
  BY <1>8, RunWays, <1>0, <1>s
  DEF Marking
<1>9. CASE Closing(t)
  BY <1>9, RunWays, <1>0, <1>s
  DEF Closing, Moved
<1>10. CASE Finish(t) \/ Completing(t)
  <2>1. task' \in [Tasks -> TaskTypes]
    BY <1>10, RunWays DEF Ended
  <2>2. CASE Finish(t)
    BY <1>0, <1>s, <2>1, <2>2 DEF Finish
  <2>3. CASE Completing(t)
    BY <1>0, <1>s, <2>1, <2>3 DEF Completing
  <2> QED
    BY <1>10, <2>2, <2>3
<1>11. CASE Load(t)
  BY <1>11, DeletionWays, <1>0, <1>s
  DEF Load, Ended
<1>12. CASE Mark(t)
  BY <1>12, DeletionWays, <1>0, <1>s
  DEF Mark, Step, Stepped, Moved
<1>13. CASE Wipe(t) \/ DeleteApp(t)
  BY <1>13, DeletionWays, <1>0, <1>s
  DEF Wipe, DeleteApp, Step, Stepped
<1>14. CASE AppAbsent(t) \/ LookupFails(t) \/ StepFails(t)
  BY <1>14, DeletionWays, <1>0, <1>s
  DEF AppAbsent, LookupFails, StepFails, Moved
<1>15. CASE Finalise(t) \/ MarkFailed(t)
  BY <1>15, DeletionWays, <1>0, <1>s
  DEF Finalise, MarkFailed, Ended
<1>16. CASE DatabaseFails(t)
  <2>1. task' \in [Tasks -> TaskTypes]
    BY <1>16, DeletionWays DEF Ended, Moved
  <2>2. faults' \in 0..MaxFaults
    BY <1>0, <1>16 DEF DatabaseFails
  <2> QED
    BY <1>0, <1>16, <2>1, <2>2 DEF DatabaseFails
<1>17. CASE LockAndDelete(t)
  <2>1. task' \in [Tasks -> TaskTypes]
    BY <1>17, DeletionWays DEF Moved, Ended
  <2>2. status' \in Statuses /\ overlapped' \in BOOLEAN
    BY <1>0, <1>s, <1>17 DEF LockAndDelete
  <2> QED
    BY <1>0, <1>17, <2>1, <2>2 DEF LockAndDelete
<1>18. CASE DeleteOwn(t)
  BY <1>18, DeletionWays, <1>0, <1>s
  DEF DeleteOwn, Moved
<1>19. CASE FindToDelete(t) \/ FindToRetry(t)
  BY <1>19, DeletionWays, <1>0, <1>s
  DEF FindToDelete, FindToRetry, Moved
<1>20. CASE RetryProvisioning(t)
  BY <1>20, DeletionWays, <1>0, <1>s
  DEF RetryProvisioning, Moved
<1> QED
  BY <1>1, <1>2, <1>3, <1>4, <1>5, <1>6, <1>7, <1>8, <1>9, <1>10, <1>11, <1>12, <1>13, <1>14,
     <1>15, <1>16, <1>17, <1>18, <1>19, <1>20 DEF Work, Fails, Request
-----------------------------------------------------------------------------
(* Runs *)

\* What a task that provisions does to the row.
LEMMA RunEffects ==
  ASSUME TypeOK, PlaceInv, NEW t \in Tasks, RowAt(t), Provisions(t),
         Work(t) \/ Fails(t) \/ Request(t)
  PROVE  /\ ~Deletes(t)' /\ status' \notin Ending
         /\ status' = "ready" => Finish(t)
         /\ status' = "failed_rollback_complete" => Completing(t)
<1> USE DEF At, Provisions, Deletes, RowAt, Alters, Ending
<1>0. /\ At(t, "checkpoint") => task[t].n \in 1..14
      /\ At(t, "perform") => task[t].n \in 1..13
  BY DEF PlaceInv
<1>1. CASE Begin(t)
  BY <1>1, RunWays, <1>0, StatusKinds
  DEF Begin, Ended, EntryStates, InitialEntryStates, DeprovisionEntryStates
<1>2. CASE Checkpoint(t)
  <2>1. task[t].n \in 1..13
    BY <1>0, <1>2, ForwardTable DEF Checkpoint
  <2>2. status' \in ForwardStates
    BY <1>2, <2>1, ForwardSteps DEF Checkpoint
  <2>3. task'[t].pc = "perform"
    BY <1>2, RunWays
  <2> QED
    BY <2>2, <2>3, StatusKinds DEF DeprovisionEntryStates, InitialEntryStates
<1>3. CASE Perform(t)
  <2>1. At(t, "perform") /\ status' = status
    BY <1>3 DEF Perform
  <2>2. task'[t].pc \in {"perform", "checkpoint"}
    BY <1>0, <1>3, <2>1, RunWays, Advances
  <2> QED
    BY <2>1, <2>2, StatusKinds DEF DeprovisionEntryStates, InitialEntryStates
<1>4. CASE DocsUnreachable(t)
  <2>1. At(t, "perform") /\ status' = status
    BY <1>4 DEF DocsUnreachable
  <2>2. task'[t].pc \in {"perform", "checkpoint"}
    BY <1>0, <1>4, <2>1, RunWays, Advances
  <2> QED
    BY <2>1, <2>2, StatusKinds DEF DeprovisionEntryStates, InitialEntryStates
<1>5. CASE Refused(t) \/ CallFails(t)
  BY <1>5, RunWays, <1>0, StatusKinds
  DEF Refused, CallFails, Moved, EntryStates, InitialEntryStates, DeprovisionEntryStates
<1>6. CASE Compensate(t) \/ CompensationFails(t)
  BY <1>6, RunWays, <1>0, StatusKinds
  DEF Compensate, CompensationFails, Undo, EntryStates, InitialEntryStates,
     DeprovisionEntryStates
<1>7. CASE RolledBack(t)
  BY <1>7, RunWays, <1>0, StatusKinds
  DEF RolledBack, Moved, Ended, EntryStates, InitialEntryStates, DeprovisionEntryStates
<1>8. CASE Marking(t)
  BY <1>8, RunWays, <1>0, StatusKinds
  DEF Marking, EntryStates, InitialEntryStates, DeprovisionEntryStates
<1>9. CASE Closing(t)
  BY <1>9, RunWays, <1>0, StatusKinds
  DEF Closing, Moved, EntryStates, InitialEntryStates, DeprovisionEntryStates
<1>10. CASE Finish(t) \/ Completing(t)
  BY <1>10, RunWays, <1>0, StatusKinds
  DEF Finish, Completing, Ended, EntryStates, InitialEntryStates, DeprovisionEntryStates
<1>11. CASE Load(t)
  BY <1>11, DeletionWays, <1>0, StatusKinds
  DEF Load, Ended, EntryStates, InitialEntryStates, DeprovisionEntryStates
<1>12. CASE Mark(t)
  BY <1>12, DeletionWays, <1>0, StatusKinds
  DEF Mark, Step, Stepped, Moved, EntryStates, InitialEntryStates, DeprovisionEntryStates
<1>13. CASE Wipe(t) \/ DeleteApp(t)
  BY <1>13, DeletionWays, <1>0, StatusKinds
  DEF Wipe, DeleteApp, Step, Stepped, EntryStates, InitialEntryStates, DeprovisionEntryStates
<1>14. CASE AppAbsent(t) \/ LookupFails(t) \/ StepFails(t)
  BY <1>14, DeletionWays, <1>0, StatusKinds
  DEF AppAbsent, LookupFails, StepFails, Moved, EntryStates, InitialEntryStates,
     DeprovisionEntryStates
<1>15. CASE Finalise(t) \/ MarkFailed(t)
  BY <1>15, DeletionWays, <1>0, StatusKinds
  DEF Finalise, MarkFailed, Ended, EntryStates, InitialEntryStates, DeprovisionEntryStates
<1>16. CASE DatabaseFails(t)
  <2>1. task'[t].pc \in {"compensate", "idle"}
    BY <1>16, DeletionWays DEF Moved, Ended
  <2>2. status' = status
    BY <1>16 DEF DatabaseFails
  <2> QED
    BY <2>1, <2>2, StatusKinds
    DEF EntryStates, DeprovisionEntryStates, InitialEntryStates
<1>17. CASE LockAndDelete(t)
  BY <1>17, DeletionWays, <1>0, StatusKinds
  DEF LockAndDelete, Moved, Ended, EntryStates, InitialEntryStates, DeprovisionEntryStates
<1>18. CASE DeleteOwn(t)
  BY <1>18, DeletionWays, <1>0, StatusKinds
  DEF DeleteOwn, Moved, EntryStates, InitialEntryStates, DeprovisionEntryStates
<1>19. CASE FindToDelete(t) \/ FindToRetry(t)
  BY <1>19, DeletionWays, <1>0, StatusKinds
  DEF FindToDelete, FindToRetry, Moved, EntryStates, InitialEntryStates, DeprovisionEntryStates
<1>20. CASE RetryProvisioning(t)
  BY <1>20, DeletionWays, <1>0, StatusKinds
  DEF RetryProvisioning, Moved, EntryStates, InitialEntryStates, DeprovisionEntryStates
<1> QED
  BY <1>1, <1>2, <1>3, <1>4, <1>5, <1>6, <1>7, <1>8, <1>9, <1>10, <1>11, <1>12, <1>13, <1>14,
     <1>15, <1>16, <1>17, <1>18, <1>19, <1>20 DEF Work, Fails, Request

\* What any other task does.
LEMMA OtherEffects ==
  ASSUME NEW t \in Tasks, RowAt(t), ~Provisions(t), Work(t) \/ Fails(t) \/ Request(t)
  PROVE  /\ UNCHANGED <<rowTeam, leftovers>> /\ resources' \subseteq resources
         /\ ~Deletes(t) => resources' = resources
         /\ status' = "ready" => status = "ready"
         /\ status' = "failed_rollback_complete" => status = "failed_rollback_complete"
         /\ status' \in {"deprovisioning", "failed_deprovisioning"} =>
              status \in {"ready", "deprovisioning", "failed_deprovisioning",
                          "failed_rollback_complete"}
         /\ status' = "gone" => status = "gone" \/ Finalise(t)
         /\ overlapped => overlapped'
<1> USE DEF At, Provisions, Deletes, InitialEntryStates, DeprovisionEntryStates
<1>1. /\ ~Begin(t) /\ ~Checkpoint(t) /\ ~Perform(t) /\ ~Refused(t) /\ ~Finish(t)
      /\ ~Compensate(t) /\ ~RolledBack(t) /\ ~Marking(t) /\ ~Closing(t) /\ ~Completing(t)
      /\ ~CallFails(t) /\ ~DocsUnreachable(t) /\ ~CompensationFails(t)
  BY DEF Begin, Checkpoint, Perform, Refused, Finish, Compensate, RolledBack, Marking,
     Closing, Completing, CallFails, DocsUnreachable, CompensationFails, Undo
<1>2. CASE Load(t) \/ AppAbsent(t) \/ LookupFails(t)
  <2>1. UNCHANGED <<status, rowTeam, resources, leftovers, overlapped>>
    BY <1>2 DEF Load, AppAbsent, LookupFails
  <2> QED
    BY <2>1
<1>3. CASE MarkFailed(t)
  BY <1>3 DEF MarkFailed
<1>4. CASE LockAndDelete(t)
  BY <1>4 DEF LockAndDelete, RowAt, Ending
<1>5. CASE Wipe(t) \/ DeleteApp(t) \/ Finalise(t)
  BY <1>5 DEF Wipe, DeleteApp, Finalise
<1>6. CASE Mark(t)
  BY <1>6 DEF Mark
<1>7. CASE StepFails(t) \/ DatabaseFails(t)
  BY <1>7 DEF StepFails, DatabaseFails
<1>8. CASE DeleteOwn(t)
  BY <1>8 DEF DeleteOwn
<1>9. CASE FindToDelete(t) \/ FindToRetry(t) \/ RetryProvisioning(t)
  BY <1>9 DEF FindToDelete, FindToRetry, RetryProvisioning
<1> QED
  BY <1>1, <1>2, <1>3, <1>4, <1>5, <1>6, <1>7, <1>8, <1>9 DEF Work, Fails, Request

\* What RunInv says of one task.
RunOf(t) ==
  /\ task[t].pc \in {"checkpoint", "perform"} =>
       /\ \A i \in 1..13 : i < task[t].n /\ Forward[i].makes \in Wired
                             => Forward[i].makes \in resources
       /\ task[t].team # NoTeam => task[t].team \in resources
       /\ Undos(t) \cap Teams \subseteq {task[t].team}
  /\ Provisions(t) => resources \cap Removable \subseteq leftovers \cup Undos(t)
  /\ task[t].pc \in {"marking", "closing", "completing"} => Undos(t) = {}

\* The set of what a task can undo, as its stack stays, loses its top, or grows.
LEMMA UndosKept ==
  ASSUME NEW t \in Tasks
  PROVE  /\ task'[t].undo = task[t].undo => Undos(t)' = Undos(t)
         /\ task[t].undo = <<>> => Undos(t) = {}
         /\ task'[t].undo = <<>> => Undos(t)' = {}
BY DEF Undos

\* A compensator takes the top of the stack.
LEMMA UndosPopped ==
  ASSUME TypeOK, NEW t \in Tasks, task[t].undo # <<>>, task'[t].undo = Tail(task[t].undo)
  PROVE  Undos(t) = {Head(task[t].undo)} \cup Undos(t)'
<1> DEFINE s == task[t].undo
           u == task'[t].undo
<1>1. s \in Seq(Resources) /\ s # <<>> /\ u = Tail(s)
  BY Fields
<1>2. Undos(t) = {s[i] : i \in DOMAIN s} /\ Undos(t)' = {u[i] : i \in DOMAIN u}
  BY DEF Undos
<1> HIDE DEF s, u
<1>3. {s[i] : i \in DOMAIN s} = {Head(s)} \cup {Tail(s)[i] : i \in DOMAIN Tail(s)}
  BY <1>1, Popped
<1>4. Undos(t) = {Head(s)} \cup Undos(t)'
  BY <1>1, <1>2, <1>3
<1> QED
  BY <1>4 DEF s

\* A call that made something puts it there.
LEMMA UndosPushed ==
  ASSUME TypeOK, NEW t \in Tasks, NEW r \in Resources, task'[t].undo = <<r>> \o task[t].undo
  PROVE  Undos(t)' = {r} \cup Undos(t)
<1> DEFINE s == task[t].undo
           u == task'[t].undo
<1>1. s \in Seq(Resources) /\ u = <<r>> \o s
  BY Fields
<1>2. Undos(t) = {s[i] : i \in DOMAIN s} /\ Undos(t)' = {u[i] : i \in DOMAIN u}
  BY DEF Undos
<1> HIDE DEF s, u
<1>3. LET w == <<r>> \o s
      IN  {w[i] : i \in DOMAIN w} = {r} \cup {s[i] : i \in DOMAIN s}
  BY <1>1, Pushed
<1> QED
  BY <1>1, <1>2, <1>3, Zenon

\* A team is none of the named resources; of those, four no rollback removes.
LEMMA NamesOfTeams ==
  /\ (Wired \cup {"personal_kb", "knowledge", "chats", "users", "org", "mark", "team",
                  "finalize"}) \cap Teams = {}
  /\ {"users", "org", "knowledge", "chats"} \cap Removable = {}
BY TeamsAssumption DEF Removable, Wired

\* A step of a run leaves what has been made in the resources and on the stack.
LEMMA RunOfStep ==
  ASSUME TypeOK, PlaceInv, RollbackIsComplete, NEW t \in Tasks, RowAt(t), RunOf(t),
         Work(t) \/ Fails(t) \/ Request(t)
  PROVE  RunOf(t)'
<1> USE DEF At, Provisions, Alters, RunOf
<1>0. /\ At(t, "checkpoint") => task[t].n \in 1..14
      /\ At(t, "perform") => task[t].n \in 1..13
      /\ At(t, "idle") \/ At(t, "begin") => task[t].undo = <<>>
      /\ task[t].pc \in {"checkpoint", "perform"} /\ task[t].n < 3 => task[t].team = NoTeam
  BY DEF PlaceInv
<1>1. CASE Begin(t)
  <2>1. Undos(t) = {}
    BY <1>0, <1>1, UndosKept DEF Begin
  <2>2. CASE Alters(t, "checkpoint", 1, "queued", <<>>, NoTeam)
    <3>1. Undos(t)' = {}
      BY <2>2, UndosKept
    <3> QED
      BY <1>1, <2>1, <2>2, <3>1 DEF Begin
  <2>3. CASE Ended(t)
    BY <2>3 DEF Ended
  <2> QED
    BY <1>1, <2>2, <2>3, RunWays
<1>2. CASE Checkpoint(t)
  <2>1. Alters(t, "perform", task[t].n, status', task[t].undo, task[t].team)
    BY <1>2, RunWays
  <2>2. Undos(t)' = Undos(t)
    BY <2>1, UndosKept
  <2> QED
    BY <1>2, <2>1, <2>2 DEF Checkpoint
<1>3. CASE Perform(t)
  <2>1. At(t, "perform") /\ leftovers' = leftovers
    BY <1>3 DEF Perform
  <2>2. task[t].n \in 1..13 /\ After(task[t].n) \in {"perform", "checkpoint"}
    BY <1>0, <2>1, Advances
  <2>3. CASE Made(t) = {}
    <3>1. Alters(t, After(task[t].n), task[t].n + 1, task[t].wrote, task[t].undo,
                 task[t].team)
      BY <1>3, <2>3, RunWays
    <3>2. Undos(t)' = Undos(t) /\ resources' = resources
      BY <1>3, <2>3, <3>1, UndosKept DEF Perform
    <3>3. \A i \in 1..13 : i < task[t].n + 1 => i < task[t].n \/ i = task[t].n
      BY <2>2
    <3>4. Forward[task[t].n].makes \notin Wired
      BY <2>2, <2>3, Makes
    <3> QED
      BY <2>1, <2>2, <3>1, <3>2, <3>3, <3>4
  <2>4. CASE Made(t) # {}
    <3>1. PICK r \in Made(t) :
            /\ resources' = resources \cup {r}
            /\ Alters(t, After(task[t].n), task[t].n + 1, task[t].wrote,
                      <<r>> \o task[t].undo, IF r \in Teams THEN r ELSE task[t].team)
      BY <1>3, <2>4, RunWays
    <3>2. r \in Removable /\ r \in Resources /\ (r \in Teams => task[t].n = 2)
      BY <2>2, Makes
    <3>3. Undos(t)' = {r} \cup Undos(t)
      BY <3>1, <3>2, UndosPushed
    <3>4. \A i \in 1..13 : i < task[t].n + 1 => i < task[t].n \/ i = task[t].n
      BY <2>2
    <3>5. Forward[task[t].n].makes \in Wired => Forward[task[t].n].makes = r
      BY <2>2, <3>1, Makes
    <3>6. Undos(t)' \cap Teams \subseteq {task'[t].team}
      <4>1. CASE r \in Teams
        <5>1. task[t].team = NoTeam
          BY <1>0, <2>1, <2>2, <3>2, <4>1
        <5> QED
          BY <2>1, <3>1, <3>3, <4>1, <5>1
      <4>2. CASE r \notin Teams
        BY <2>1, <3>1, <3>3, <4>2
      <4> QED
        BY <4>1, <4>2
    <3>7. task'[t].team # NoTeam => task'[t].team \in resources'
      BY <2>1, <3>1
    <3>8. \A i \in 1..13 : i < task'[t].n /\ Forward[i].makes \in Wired
                             => Forward[i].makes \in resources'
      BY <2>1, <3>1, <3>4, <3>5
    <3>9. resources' \cap Removable \subseteq leftovers' \cup Undos(t)'
      BY <2>1, <3>1, <3>3
    <3> QED
      BY <2>2, <3>1, <3>6, <3>7, <3>8, <3>9
  <2> QED
    BY <2>3, <2>4
<1>4. CASE DocsUnreachable(t)
  <2>1. At(t, "perform") /\ Forward[task[t].n].makes = "personal_kb"
    BY <1>4 DEF DocsUnreachable
  <2>2. task[t].n \in 1..13 /\ After(task[t].n) \in {"perform", "checkpoint"}
    BY <1>0, <2>1, Advances
  <2>3. Alters(t, After(task[t].n), task[t].n + 1, task[t].wrote, task[t].undo, task[t].team)
    BY <1>4, RunWays
  <2>4. Undos(t)' = Undos(t)
    BY <2>3, UndosKept
  <2>5. PICK left : resources' = resources \cup left /\ leftovers' = leftovers \cup left
    BY <1>4 DEF DocsUnreachable, Spill
  <2>6. \A i \in 1..13 : i < task[t].n + 1 => i < task[t].n \/ i = task[t].n
    BY <2>2
  <2>7. Forward[task[t].n].makes \notin Wired
    BY <2>1 DEF Wired
  <2> QED
    BY <2>1, <2>2, <2>3, <2>4, <2>5, <2>6, <2>7
<1>5. CASE Refused(t) \/ CallFails(t)
  <2>1. Moved(t, "compensate") /\ At(t, "perform")
    BY <1>5, RunWays DEF Refused, CallFails
  <2>2. Undos(t)' = Undos(t)
    BY <2>1, UndosKept DEF Moved
  <2>3. PICK left : resources' = resources \cup left /\ leftovers' = leftovers \cup left
    BY <1>5 DEF Refused, CallFails, Spill
  <2> QED
    BY <2>1, <2>2, <2>3 DEF Moved
<1>6. CASE Compensate(t) \/ CompensationFails(t)
  <2>1. /\ Alters(t, "compensate", task[t].n, task[t].wrote, Tail(task[t].undo), task[t].team)
        /\ task[t].undo # <<>> /\ At(t, "compensate")
    BY <1>6, RunWays DEF Compensate, CompensationFails, Undo
  <2>2. Undos(t) = {Head(task[t].undo)} \cup Undos(t)'
    BY <2>1, UndosPopped
  <2>3. \/ /\ resources' = resources \ {Head(task[t].undo)}
           /\ leftovers' = leftovers \ {Head(task[t].undo)}
        \/ /\ resources' = resources
           /\ leftovers' = leftovers \cup {Head(task[t].undo)}
    BY <1>6 DEF Compensate, CompensationFails
  <2> QED
    BY <2>1, <2>2, <2>3
<1>7. CASE RolledBack(t)
  <2>1. Undos(t) = {} /\ At(t, "compensate") /\ UNCHANGED <<resources, leftovers>>
    BY <1>7, UndosKept DEF RolledBack
  <2>2. CASE Moved(t, "marking")
    BY <2>1, <2>2, UndosKept DEF Moved
  <2>3. CASE Ended(t)
    BY <2>3 DEF Ended
  <2> QED
    BY <1>7, <2>2, <2>3, RunWays
<1>8. CASE Marking(t)
  <2>1. Alters(t, "closing", task[t].n, status', task[t].undo, task[t].team)
    BY <1>8, RunWays
  <2>2. Undos(t)' = Undos(t)
    BY <2>1, UndosKept
  <2> QED
    BY <1>8, <2>1, <2>2 DEF Marking
<1>9. CASE Closing(t)
  <2>1. Moved(t, "completing")
    BY <1>9, RunWays
  <2>2. Undos(t)' = Undos(t)
    BY <2>1, UndosKept DEF Moved
  <2> QED
    BY <1>9, <2>1, <2>2 DEF Closing, Moved
<1>10. CASE DatabaseFails(t)
  <2>1. UNCHANGED <<resources, leftovers>>
    BY <1>10 DEF DatabaseFails
  <2>2. CASE Moved(t, "compensate") /\ task[t].pc \in {"checkpoint", "perform"}
    BY <2>1, <2>2, UndosKept DEF Moved
  <2>3. CASE Ended(t)
    BY <2>3 DEF Ended
  <2> QED
    BY <1>10, <2>2, <2>3, DeletionWays
<1>11. CASE RetryProvisioning(t)
  <2>1. /\ Moved(t, "begin") /\ At(t, "idle") /\ UNCHANGED <<resources, leftovers>>
        /\ status = "failed_rollback_complete"
    BY <1>11, DeletionWays DEF RetryProvisioning
  <2>2. resources \cap Removable \subseteq leftovers
    BY <2>1 DEF RollbackIsComplete, Removable
  <2> QED
    BY <2>1, <2>2 DEF Moved
<1>12. CASE ~Provisions(t)'
  BY <1>12
<1>13. ~Provisions(t) /\ ~RetryProvisioning(t) => ~Provisions(t)'
  BY RowAtStep
<1>14. Provisions(t) => \/ Begin(t) \/ Checkpoint(t) \/ Perform(t) \/ DocsUnreachable(t)
                        \/ Refused(t) \/ CallFails(t) \/ Compensate(t)
                        \/ CompensationFails(t) \/ RolledBack(t) \/ Marking(t) \/ Closing(t)
                        \/ Finish(t) \/ Completing(t) \/ DatabaseFails(t)
  BY DEF Work, Fails, Request, Load, Mark, Wipe, DeleteApp, AppAbsent, Finalise, MarkFailed,
     LockAndDelete, LookupFails, StepFails, DeleteOwn, FindToDelete, FindToRetry,
     RetryProvisioning
<1>15. CASE Finish(t) \/ Completing(t)
  BY <1>15, RunWays DEF Ended
<1> QED
  BY <1>1, <1>2, <1>3, <1>4, <1>5, <1>6, <1>7, <1>8, <1>9, <1>10, <1>11, <1>12, <1>13,
     <1>14, <1>15

\* Runs make and undo; nobody else touches a tenant that is ready or rolled back.
LEMMA RunPreserved ==
  ASSUME TypeOK, OwnRow, StatusInv, PlaceInv, RunInv, ReadyIsWired, RollbackIsComplete,
         NEW t \in Tasks, Work(t) \/ Fails(t) \/ Request(t),
         \A u \in Tasks \ {t} : task'[u] = task[u]
  PROVE  RunInv' /\ ReadyIsWired' /\ RollbackIsComplete'
<1>1. RowAt(t) /\ RunOf(t)
  BY DEF OwnRow, StatusInv, RowAt, RunInv, RunOf
<1>2. RunInv'
  <2>1. RunOf(t)'
    BY <1>1, RunOfStep
  <2>2. ASSUME NEW u \in Tasks \ {t}
        PROVE  RunOf(u)'
    <3>1. ~Provisions(u) \/ (At(t, "idle") /\ ~Request(t))
      BY Alone
    <3>2. At(t, "idle") => Request(t)
      BY <1>1, RowAtStep
    <3>3. ~Provisions(u)'
      BY <3>1, <3>2 DEF Provisions
    <3> QED
      BY <3>3 DEF RunOf, Provisions
  <2> QED
    BY <2>1, <2>2 DEF RunInv, RunOf
<1>3. ReadyIsWired'
  <2> SUFFICES ASSUME status' = "ready"
               PROVE  /\ Wired \subseteq resources'
                      /\ rowTeam' # NoTeam => rowTeam' \in resources'
    BY DEF ReadyIsWired
  <2>1. CASE Provisions(t)
    <3>1. Finish(t)
      BY <1>1, <2>1, RunEffects
    <3>2. task[t].n = 14 /\ At(t, "checkpoint")
      <4>1. At(t, "checkpoint") /\ task[t].n > 13
        BY <3>1, ForwardTable DEF Finish
      <4>2. task[t].n \in 1..14
        BY <4>1 DEF PlaceInv
      <4> QED
        BY <4>1, <4>2
    <3>3. \A i \in 1..13 : Forward[i].makes \in Wired => Forward[i].makes \in resources
      BY <1>1, <3>2 DEF RunOf, At
    <3>4. Wired \subseteq resources
      BY <3>3, ForwardTable DEF Wired
    <3> QED
      BY <1>1, <3>1, <3>2, <3>4 DEF Finish, RunOf, At
  <2>2. CASE ~Provisions(t)
    <3>1. status = "ready" /\ rowTeam' = rowTeam
      BY <1>1, <2>2, OtherEffects
    <3>2. ~Deletes(t)
      BY <3>1 DEF StatusInv, Ending
    <3> QED
      BY <1>1, <2>2, <3>1, <3>2, OtherEffects DEF ReadyIsWired
  <2> QED
    BY <2>1, <2>2
<1>4. RollbackIsComplete'
  <2> SUFFICES ASSUME status' = "failed_rollback_complete"
               PROVE  resources' \cap Removable \subseteq leftovers'
    BY DEF RollbackIsComplete, Removable
  <2>1. CASE Provisions(t)
    <3>1. Completing(t)
      BY <1>1, <2>1, RunEffects
    <3> QED
      BY <1>1, <2>1, <3>1 DEF Completing, RunOf, At
  <2>2. CASE ~Provisions(t)
    <3>1. status = "failed_rollback_complete" /\ leftovers' = leftovers
      BY <1>1, <2>2, OtherEffects
    <3>2. ~Deletes(t)
      BY <3>1 DEF StatusInv, Ending
    <3> QED
      BY <1>1, <2>2, <3>1, <3>2, OtherEffects DEF RollbackIsComplete, Removable
  <2> QED
    BY <2>1, <2>2
<1> QED
  BY <1>2, <1>3, <1>4
-----------------------------------------------------------------------------
(* Deletions *)

TeamKnown == \A m \in Loadable : resources \cap Teams \subseteq leftovers \cup {m}

\* Which team a deletion would find does not change while resources only go.
LEMMA TeamStaysKnown ==
  ASSUME TeamKnown, UNCHANGED <<rowTeam, leftovers>>, resources' \subseteq resources
  PROVE  TeamKnown'
BY DEF TeamKnown, Loadable, ListedTeams

\* The only deletion under way wipes what its row's deletion has to wipe.
LEMMA DeleterStep ==
  ASSUME TypeOK, PlaceInv, NEW t \in Tasks, RowAt(t), Deletes(t), TeamKnown,
         status = "deprovisioning", At(t, "wipe") => Wiping(t),
         Work(t) \/ Fails(t) \/ Request(t)
  PROVE  /\ Deletes(t)' => status' = "deprovisioning"
         /\ At(t, "wipe")' => Wiping(t)'
<1>0. /\ At(t, "wipe") => task[t].n \in 1..14
      /\ resources \subseteq Resources
      /\ {"mark", "team", "finalize"} \cap Resources = {}
  BY NamesOfTeams DEF PlaceInv, TypeOK, Resources, Wired
<1>1. UNCHANGED leftovers /\ resources' \subseteq resources
  BY OtherEffects DEF Provisions, Deletes
<1>2. ASSUME Stepped(t), At(t, "wipe"), DeprovisionSteps[task[t].n] \notin resources',
             task[t].n = 9 => task[t].team \notin resources'
      PROVE  Wiping(t)'
  <2>1. \A i \in 1..13 : i < task[t].n + 1 => i < task[t].n \/ i = task[t].n
    BY <1>0, <1>2
  <2>2. /\ resources \cap Teams \subseteq leftovers \cup {task[t].team}
        /\ \A i \in 1..13 : i < task[t].n => DeprovisionSteps[i] \notin resources
        /\ task[t].n > 9 => task[t].team \notin resources
    BY <1>2 DEF Wiping
  <2>3. task[t].n + 1 > 9 => task[t].n = 9 \/ task[t].n > 9
    BY <1>0, <1>2
  <2>4. task'[t].n = task[t].n + 1 /\ task'[t].team = task[t].team
    BY <1>2 DEF Stepped, Alters
  <2> QED
    BY <1>1, <1>2, <2>1, <2>2, <2>3, <2>4 DEF Wiping
<1>3. CASE Load(t)
  <2>1. status' = status /\ resources' = resources /\ status # "gone"
    BY <1>3 DEF Load
  <2>2. PICK m \in Loadable : Alters(t, "wipe", 1, "none", <<>>, m)
    BY <1>3, <2>1, DeletionWays
  <2>3. \A i \in 1..13 : ~(i < 1)
    OBVIOUS
  <2> QED
    BY <1>1, <2>1, <2>2, <2>3 DEF Wiping, Alters, TeamKnown
<1>4. CASE Mark(t)
  <2>1. At(t, "wipe") /\ task[t].n = 1 /\ DeprovisionSteps[task[t].n] = "mark"
    BY <1>0, <1>4, DeprovisionNames DEF Mark, Step
  <2>2. Stepped(t)
    BY <1>4, DeletionWays
  <2>3. Wiping(t)'
    BY <1>0, <1>1, <1>2, <2>1, <2>2
  <2> QED
    BY <1>4, <2>3 DEF Mark
<1>5. CASE Wipe(t)
  <2>1. At(t, "wipe") /\ resources' = resources \ Wiped(t) /\ status' = status
    BY <1>5 DEF Wipe
  <2>2. Stepped(t)
    BY <1>5, DeletionWays
  <2>3. task[t].n = 9 <=> DeprovisionSteps[task[t].n] = "team"
    BY <1>0, <2>1, DeprovisionNames
  <2>4. DeprovisionSteps[task[t].n] \notin resources'
    BY <1>0, <2>1 DEF Wiped, Step
  <2>5. task[t].n = 9 => task[t].team \notin resources'
    BY <2>1, <2>3 DEF Wiped, Step
  <2> QED
    BY <1>2, <2>1, <2>2, <2>4, <2>5
<1>6. CASE DeleteApp(t)
  <2>1. At(t, "wipe") /\ resources' = resources \ {"app"} /\ status' = status
        /\ DeprovisionSteps[task[t].n] = "app"
    BY <1>6 DEF DeleteApp, Step
  <2>2. task[t].n # 9
    BY <1>0, <2>1, DeprovisionNames
  <2> QED
    BY <1>2, <1>6, <2>1, <2>2, DeletionWays
<1>7. CASE StepFails(t)
  <2>1. At(t, "wipe") /\ status' = status
    BY <1>7 DEF StepFails
  <2>2. CASE Moved(t, "wipe")
    BY <1>1, <2>1, <2>2 DEF Wiping, Moved, Alters
  <2>3. CASE Moved(t, "failed")
    BY <2>1, <2>3 DEF Moved, Alters, At
  <2> QED
    BY <1>7, <2>2, <2>3, DeletionWays
<1>8. CASE AppAbsent(t) \/ LookupFails(t)
  BY <1>8, DeletionWays DEF AppAbsent, LookupFails, Moved, Alters, At
<1>9. CASE Finalise(t) \/ MarkFailed(t) \/ DatabaseFails(t)
  <2>1. Ended(t)
    BY <1>9, DeletionWays DEF Deletes
  <2> QED
    BY <2>1 DEF Ended, Alters, At, Deletes
<1>10. ~Begin(t) /\ ~Checkpoint(t) /\ ~Perform(t) /\ ~Refused(t) /\ ~Finish(t)
       /\ ~Compensate(t) /\ ~RolledBack(t) /\ ~Marking(t) /\ ~Closing(t) /\ ~Completing(t)
       /\ ~CallFails(t) /\ ~DocsUnreachable(t) /\ ~CompensationFails(t) /\ ~LockAndDelete(t)
       /\ ~Request(t)
  BY DEF Begin, Checkpoint, Perform, Refused, Finish, Compensate, RolledBack, Marking,
     Closing, Completing, CallFails, DocsUnreachable, CompensationFails, Undo, LockAndDelete,
     Request, DeleteOwn, FindToDelete, FindToRetry, RetryProvisioning, At, Deletes
<1> QED
  BY <1>3, <1>4, <1>5, <1>6, <1>7, <1>8, <1>9, <1>10 DEF Work, Fails

\* A task that neither provisions nor deletes starts a deletion, or leaves the row alone.
LEMMA DeletionBegins ==
  ASSUME TypeOK, PlaceInv, NEW t \in Tasks, ~Deletes(t), ~Provisions(t),
         Work(t) \/ Fails(t) \/ Request(t)
  PROVE  \/ /\ status' = "deprovisioning" /\ At(t, "load")'
            /\ overlapped' = (overlapped \/ \E u \in Tasks : Deletes(u))
         \/ /\ ~Deletes(t)'
            /\ status' = status \/ RetryProvisioning(t)
<1> USE DEF At, Provisions, Deletes
<1>1. /\ ~Begin(t) /\ ~Checkpoint(t) /\ ~Perform(t) /\ ~Refused(t) /\ ~Finish(t)
      /\ ~Compensate(t) /\ ~RolledBack(t) /\ ~Marking(t) /\ ~Closing(t) /\ ~Completing(t)
      /\ ~CallFails(t) /\ ~DocsUnreachable(t) /\ ~CompensationFails(t) /\ ~Load(t) /\ ~Mark(t)
      /\ ~Wipe(t) /\ ~DeleteApp(t) /\ ~AppAbsent(t) /\ ~LookupFails(t) /\ ~StepFails(t)
      /\ ~Finalise(t) /\ ~MarkFailed(t) /\ ~DatabaseFails(t)
  BY DEF Begin, Checkpoint, Perform, Refused, Finish, Compensate, RolledBack, Marking,
     Closing, Completing, CallFails, DocsUnreachable, CompensationFails, Undo, Load, Mark,
     Wipe, DeleteApp, AppAbsent, LookupFails, StepFails, Finalise, MarkFailed, DatabaseFails
<1>2. CASE LockAndDelete(t)
  BY <1>2, DeletionWays DEF LockAndDelete, Moved, Ended, Alters
<1>3. CASE DeleteOwn(t)
  BY <1>3, DeletionWays DEF DeleteOwn, Moved, Alters
<1>4. CASE FindToDelete(t) \/ FindToRetry(t)
  BY <1>4, DeletionWays DEF FindToDelete, FindToRetry, Moved, Alters
<1>5. CASE RetryProvisioning(t)
  BY <1>5, DeletionWays DEF Moved, Alters
<1> QED
  BY <1>1, <1>2, <1>3, <1>4, <1>5 DEF Work, Fails, Request

\* What DeletionInv says of one task, if no two deletions have overlapped.
DeletionOf(t) ==
  Deletes(t) => /\ status = "deprovisioning"
                /\ \A u \in Tasks : Deletes(u) => u = t
                /\ At(t, "wipe") => Wiping(t)

\* One deletion at a time wipes what there is; a run leaves its team known.
LEMMA DeletionPreserved ==
  ASSUME TypeOK, TenantInv, NEW t \in Tasks, Work(t) \/ Fails(t) \/ Request(t),
         \A u \in Tasks \ {t} : task'[u] = task[u]
  PROVE  DeletionInv' /\ GoneIsClean'
<1>1. /\ RowAt(t) /\ RunOf(t) /\ PlaceInv
      /\ status \in {"ready", "deprovisioning", "failed_deprovisioning"} => TeamKnown
      /\ ~overlapped => \A u \in Tasks : DeletionOf(u)
  BY DEF TenantInv, OwnRow, StatusInv, RowAt, RunInv, RunOf, DeletionInv, DeletionOf,
     TeamKnown
<1>2. \A u \in Tasks \ {t} : (Deletes(u)' <=> Deletes(u)) /\ task'[u] = task[u]
  BY DEF Deletes
<1>3. CASE Provisions(t)
  <2>1. \A u \in Tasks : ~Deletes(u)'
    BY <1>1, <1>2, <1>3, RunEffects DEF TenantInv, OwnRow
  <2>2. status' \notin Ending /\ (status' = "ready" => Finish(t))
    BY <1>1, <1>3, RunEffects
  <2>3. ASSUME Finish(t)
        PROVE  TeamKnown'
    <3>1. /\ UNCHANGED <<resources, leftovers>> /\ rowTeam' = task[t].team
          /\ At(t, "checkpoint")
      BY <2>3 DEF Finish
    <3>2. resources \cap Teams \subseteq leftovers \cup {task[t].team}
      BY <1>1, <1>3, <3>1 DEF RunOf, At, Removable
    <3> QED
      BY <3>1, <3>2 DEF TeamKnown, Loadable, ListedTeams
  <2> QED
    BY <2>1, <2>2, <2>3 DEF DeletionInv, GoneIsClean, TeamKnown, Ending
<1>4. CASE ~Provisions(t)
  <2>1. /\ UNCHANGED <<rowTeam, leftovers>> /\ resources' \subseteq resources
        /\ ~Deletes(t) => resources' = resources
        /\ status' = "ready" => status = "ready"
        /\ status' \in {"deprovisioning", "failed_deprovisioning"} =>
             status \in {"ready", "deprovisioning", "failed_deprovisioning",
                         "failed_rollback_complete"}
        /\ status' = "gone" => status = "gone" \/ Finalise(t)
        /\ overlapped => overlapped'
    BY <1>1, <1>4, OtherEffects
  <2>2. status' \in {"ready", "deprovisioning", "failed_deprovisioning"} => TeamKnown'
    <3>1. status = "failed_rollback_complete" => TeamKnown
      BY DEF TenantInv, RollbackIsComplete, TeamKnown
    <3> QED
      BY <1>1, <2>1, <3>1, TeamStaysKnown
  <2>3. ASSUME ~overlapped', NEW u \in Tasks
        PROVE  DeletionOf(u)'
    <3>0. ~overlapped /\ \A v \in Tasks : DeletionOf(v)
      BY <1>1, <2>1, <2>3
    <3>1. CASE Deletes(t)
      <4>1. status = "deprovisioning" /\ (At(t, "wipe") => Wiping(t)) /\ TeamKnown
            /\ \A v \in Tasks : Deletes(v) => v = t
        BY <1>1, <3>0, <3>1 DEF DeletionOf
      <4>2. /\ Deletes(t)' => status' = "deprovisioning"
            /\ At(t, "wipe")' => Wiping(t)'
        BY <1>1, <3>1, <4>1, DeleterStep
      <4>3. \A v \in Tasks : Deletes(v)' => v = t
        BY <1>2, <4>1
      <4> QED
        BY <4>2, <4>3 DEF DeletionOf
    <3>2. CASE ~Deletes(t) /\ ~Deletes(t)' /\ (status' = status \/ RetryProvisioning(t))
      <4>1. CASE u = t
        BY <3>2, <4>1 DEF DeletionOf
      <4>2. CASE u # t /\ Deletes(u)
        <5>1. status = "deprovisioning" /\ \A v \in Tasks : Deletes(v) => v = u
          BY <3>0, <4>2 DEF DeletionOf
        <5>2. status' = status /\ resources' = resources
          BY <2>1, <3>2, <5>1 DEF RetryProvisioning
        <5>3. \A v \in Tasks : Deletes(v)' => v = u
          BY <1>2, <3>2, <5>1
        <5>4. At(u, "wipe")' => Wiping(u)'
          BY <1>2, <2>1, <3>0, <4>2, <5>2 DEF DeletionOf, At, Wiping
        <5> QED
          BY <5>1, <5>2, <5>3, <5>4 DEF DeletionOf
      <4>3. CASE u # t /\ ~Deletes(u)
        BY <1>2, <4>3 DEF DeletionOf
      <4> QED
        BY <4>1, <4>2, <4>3
    <3>3. CASE /\ ~Deletes(t) /\ status' = "deprovisioning" /\ At(t, "load")'
               /\ overlapped' = (overlapped \/ \E v \in Tasks : Deletes(v))
      <4>1. \A v \in Tasks : Deletes(v)' => v = t
        BY <1>2, <2>3, <3>3
      <4> QED
        BY <3>3, <4>1 DEF DeletionOf, At
    <3> QED
      BY <1>1, <1>4, <3>1, <3>2, <3>3, DeletionBegins
  <2>4. GoneIsClean'
    <3> SUFFICES ASSUME status' = "gone", ~overlapped'
                 PROVE  resources' \subseteq Teams \cap leftovers'
      BY DEF GoneIsClean
    <3>1. CASE status = "gone"
      BY <2>1, <3>1 DEF TenantInv, GoneIsClean
    <3>2. CASE Finalise(t)
      <4>1. /\ At(t, "wipe") /\ Step(t) = "finalize"
            /\ resources' = resources \ {"chat_key"}
        BY <3>2 DEF Finalise
      <4>2. task[t].n = 14
        BY <1>1, <4>1, DeprovisionNames DEF PlaceInv, Step
      <4>3. Wiping(t)
        BY <1>1, <2>1, <4>1 DEF DeletionOf, Deletes, At
      <4>4. /\ task[t].team \notin resources
            /\ \A i \in 1..13 : DeprovisionSteps[i] \notin resources
        BY <4>2, <4>3 DEF Wiping
      <4>5. resources' \cap (Resources \ Teams) = {}
        BY <4>1, <4>4, DeprovisionTable DEF Resources, Wired
      <4>6. resources \subseteq Resources
        BY DEF TypeOK
      <4> QED
        BY <2>1, <4>1, <4>3, <4>4, <4>5, <4>6 DEF Wiping
    <3> QED
      BY <2>1, <3>1, <3>2
  <2> QED
    BY <2>2, <2>3, <2>4 DEF DeletionInv, DeletionOf, TeamKnown
<1> QED
  BY <1>3, <1>4
-----------------------------------------------------------------------------
(* The tenant's people, and restarts *)

\* People use the tenant: they add knowledge while it is not being deleted, and chats while
\* it has its container.
LEMMA UsePreserved ==
  ASSUME TypeOK, TenantInv, WriteKnowledge \/ Chat
  PROVE  TypeOK' /\ TenantInv'
<1>1. PICK r \in {"knowledge", "chats"} :
        /\ resources' = resources \cup {r}
        /\ r = "chats" => {"container", "mongo_user"} \subseteq resources
        /\ r = "knowledge" => status \notin {"deprovisioning", "gone"}
  BY DEF WriteKnowledge, Chat
<1>2. UNCHANGED <<status, deleted, rowApp, rowTeam, task, leftovers, overlapped, faults>>
  BY DEF WriteKnowledge, Chat
<1>3. r \notin Removable /\ r \notin Wired /\ r \notin Teams /\ r \in Resources
  BY NamesOfTeams DEF Removable, Wired, Resources
<1>4. TypeOK'
  BY <1>1, <1>2, <1>3 DEF TypeOK
<1>5. OwnRow' /\ StatusInv' /\ PlaceInv'
  BY <1>2 DEF TenantInv, OwnRow, StatusInv, PlaceInv, At, Provisions, Deletes
<1>6. RunInv'
  <2>1. \A t \in Tasks : Undos(t)' = Undos(t) /\ (Provisions(t)' <=> Provisions(t))
    BY <1>2 DEF Undos, Provisions
  <2> QED
    BY <1>1, <1>2, <1>3, <2>1 DEF TenantInv, RunInv
<1>7. DeletionInv'
  <2>1. resources' \cap Teams = resources \cap Teams /\ Loadable' = Loadable
    BY <1>1, <1>2, <1>3 DEF Loadable, ListedTeams
  <2>2. \A t \in Tasks : Deletes(t)' <=> Deletes(t)
    BY <1>2 DEF Deletes
  <2>3. ASSUME ~overlapped, NEW t \in Tasks, Deletes(t), At(t, "wipe")
        PROVE  Wiping(t)'
    <3>1. Wiping(t) /\ status = "deprovisioning" /\ task[t].n \in 1..14
      BY <2>3 DEF TenantInv, DeletionInv, PlaceInv
    <3>2. r = "chats"
      BY <1>1, <3>1
    <3>3. task[t].n <= 3
      <4>1. ~(3 < task[t].n)
        BY <1>1, <3>1, <3>2, DeprovisionTable DEF Wiping
      <4> QED
        BY <3>1, <4>1
    <3>4. \A i \in 1..13 : i < task[t].n => DeprovisionSteps[i] # r
      BY <3>1, <3>2, <3>3, DeprovisionNames
    <3> QED
      BY <1>1, <1>2, <2>1, <3>1, <3>3, <3>4 DEF Wiping
  <2> QED
    BY <1>2, <2>1, <2>2, <2>3 DEF TenantInv, DeletionInv, At
<1>8. ReadyIsWired' /\ RollbackIsComplete'
  BY <1>1, <1>2, <1>3 DEF TenantInv, ReadyIsWired, RollbackIsComplete, Removable
<1>9. GoneIsClean'
  <2>1. status = "gone" /\ ~overlapped => "container" \notin resources
    BY NamesOfTeams DEF TenantInv, GoneIsClean, Wired
  <2> QED
    BY <1>1, <1>2, <2>1 DEF TenantInv, GoneIsClean
<1> QED
  BY <1>4, <1>5, <1>6, <1>7, <1>8, <1>9 DEF TenantInv

\* A restart forgets the tasks; the detector's verdict frees no one to provision or delete.
LEMMA RestartPreserved ==
  ASSUME TypeOK, TenantInv, NEW aged \in BOOLEAN, Restart(aged)
  PROVE  TypeOK' /\ TenantInv'
<1>1. /\ UNCHANGED <<deleted, rowApp, rowTeam, resources, leftovers, overlapped>>
      /\ status' \in {status, "failed_rollback_pending"}
      /\ task' = [t \in Tasks |-> Idle]
  BY DEF Restart
<1>2. \A t \in Tasks : task'[t].pc = "idle" /\ task'[t].undo = <<>>
  BY <1>1, Idles DEF Holds
<1>3. faults' \in 0..MaxFaults
  BY DEF Restart, Fault, TypeOK
<1>4. TypeOK'
  <2>1. task' \in [Tasks -> TaskTypes]
    BY <1>1, Idles DEF Holds
  <2>2. status' \in Statuses
    BY <1>1 DEF TypeOK, Statuses
  <2> QED
    BY <1>1, <1>3, <2>1, <2>2 DEF TypeOK
<1>5. \A t \in Tasks : ~Provisions(t)' /\ ~Deletes(t)' /\ At(t, "idle")'
  BY <1>2 DEF Provisions, Deletes, At
<1>6. OwnRow' /\ RunInv'
  BY <1>2, <1>5 DEF OwnRow, RunInv
<1>7. StatusInv' /\ PlaceInv'
  BY <1>1, <1>2, <1>5 DEF TenantInv, StatusInv, PlaceInv, At
<1>8. DeletionInv'
  BY <1>1, <1>5 DEF TenantInv, DeletionInv, Loadable, ListedTeams
<1>9. ReadyIsWired' /\ RollbackIsComplete' /\ GoneIsClean'
  BY <1>1 DEF TenantInv, ReadyIsWired, RollbackIsComplete, GoneIsClean
<1> QED
  BY <1>4, <1>6, <1>7, <1>8, <1>9 DEF TenantInv

\* A tenant just signed up, or provisioned before the portal kept ids, satisfies it all.
LEMMA Initially ==
  ASSUME Init
  PROVE  TypeOK /\ TenantInv
<1>1. PICK legacy \in BOOLEAN, m \in Teams, first \in Tasks :
        /\ status = IF legacy THEN "ready" ELSE "pending"
        /\ resources = {"users", "org"} \cup IF legacy THEN Wired \cup {m} ELSE {}
        /\ task = [t \in Tasks |-> IF t = first /\ ~legacy
                                    THEN [Idle EXCEPT !.pc = "begin"] ELSE Idle]
  BY DEF Init
<1>2. /\ deleted = FALSE /\ rowApp = FALSE /\ rowTeam = NoTeam /\ leftovers = {}
      /\ overlapped = FALSE /\ faults = 0
  BY DEF Init
<1>3. ASSUME NEW t \in Tasks
      PROVE  /\ task[t] \in TaskTypes /\ task[t].undo = <<>> /\ task[t].team = NoTeam
             /\ task[t].pc = IF t = first /\ ~legacy THEN "begin" ELSE "idle"
  <2>1. CASE t = first /\ ~legacy
    BY <1>1, <2>1, Idles DEF Holds
  <2>2. CASE ~(t = first /\ ~legacy)
    BY <1>1, <2>2, Idles DEF Holds
  <2> QED
    BY <2>1, <2>2
<1>4. TypeOK
  <2>1. task \in [Tasks -> TaskTypes]
    BY <1>1, <1>3
  <2>2. status \in Statuses
    BY <1>1 DEF Statuses, EntryStates, DeprovisionEntryStates, InitialEntryStates
  <2>3. resources \subseteq Resources
    BY <1>1 DEF Resources
  <2>4. faults \in 0..MaxFaults
    BY <1>2
  <2>5. deleted \in BOOLEAN /\ rowApp \in BOOLEAN /\ overlapped \in BOOLEAN
    BY <1>2
  <2>6. leftovers \subseteq Resources /\ rowTeam \in Teams \cup {NoTeam}
    BY <1>2
  <2> QED
    BY <2>1, <2>2, <2>3, <2>4, <2>5, <2>6 DEF TypeOK
<1>5. OwnRow /\ StatusInv
  <2>1. ASSUME NEW t \in Tasks, Provisions(t)
        PROVE  t = first /\ ~legacy /\ At(t, "begin")
    BY <1>3, <2>1 DEF Provisions, At
  <2>2. \A t \in Tasks : task[t].pc \in {"begin", "idle"}
    BY <1>3
  <2>3. OwnRow
    BY <1>1, <1>2, <2>1, <2>2 DEF OwnRow, Deletes, At, EntryStates
  <2>4. status # "failed_rollback_complete"
    BY <1>1
  <2>5. StatusInv
    BY <2>2, <2>4 DEF StatusInv, Deletes, At
  <2> QED
    BY <2>3, <2>5
<1>6. PlaceInv
  BY <1>3 DEF PlaceInv, At
<1>7. RunInv
  <2>1. ~legacy => resources \cap Removable = {}
    BY <1>1, NamesOfTeams
  <2> QED
    BY <1>1, <1>3, <2>1 DEF RunInv, Provisions
<1>8. DeletionInv
  <2>1. \A t \in Tasks : ~Deletes(t)
    BY <1>3 DEF Deletes
  <2>2. status = "ready" => resources \cap Teams = {m}
    BY <1>1, NamesOfTeams
  <2>3. status \notin {"deprovisioning", "failed_deprovisioning"}
    BY <1>1
  <2> QED
    BY <1>2, <2>1, <2>2, <2>3 DEF DeletionInv, Loadable, ListedTeams
<1>9. ReadyIsWired /\ RollbackIsComplete /\ GoneIsClean
  BY <1>1, <1>2 DEF ReadyIsWired, RollbackIsComplete, GoneIsClean
<1> QED
  BY <1>4, <1>5, <1>6, <1>7, <1>8, <1>9 DEF TenantInv
-----------------------------------------------------------------------------
(* Theorems *)

\* A step moves one task.
LEMMA OthersStay ==
  ASSUME TypeOK, PlaceInv, NEW t \in Tasks, Work(t) \/ Fails(t) \/ Request(t)
  PROVE  \A u \in Tasks \ {t} : task'[u] = task[u]
<1> USE DEF Alters, Moved, Ended, Stepped
<1>1. CASE Perform(t)
  BY <1>1, RunWays
<1>2. CASE Load(t)
  BY <1>2, DeletionWays
<1>3. CASE \/ Begin(t) \/ Checkpoint(t) \/ Refused(t) \/ Finish(t) \/ Compensate(t)
           \/ RolledBack(t) \/ Marking(t) \/ Closing(t) \/ Completing(t) \/ CallFails(t)
           \/ DocsUnreachable(t) \/ CompensationFails(t)
  BY <1>3, RunWays
<1>4. CASE Mark(t) \/ Wipe(t) \/ DeleteApp(t) \/ AppAbsent(t) \/ Finalise(t) \/ MarkFailed(t)
           \/ LockAndDelete(t) \/ LookupFails(t) \/ StepFails(t) \/ DatabaseFails(t)
           \/ Request(t)
  BY <1>4, DeletionWays DEF Request
<1> QED
  BY <1>1, <1>2, <1>3, <1>4 DEF Work, Fails

\* The tenant's invariant holds for ever.
THEOREM TenantInvariant == Spec => [](TypeOK /\ TenantInv)
<1>1. Init => TypeOK /\ TenantInv
  BY Initially
<1>2. TypeOK /\ TenantInv /\ [Next]_vars => (TypeOK /\ TenantInv)'
  <2> SUFFICES ASSUME TypeOK, TenantInv, [Next]_vars
               PROVE  TypeOK' /\ TenantInv'
    OBVIOUS
  <2>1. ASSUME NEW t \in Tasks, Work(t) \/ Fails(t) \/ Request(t)
        PROVE  TypeOK' /\ TenantInv'
    <3>1. OwnRow /\ StatusInv /\ PlaceInv /\ RunInv /\ ReadyIsWired /\ RollbackIsComplete
      BY DEF TenantInv
    <3>2. \A u \in Tasks \ {t} : task'[u] = task[u]
      BY <2>1, <3>1, OthersStay
    <3>3. TypeOK' /\ PlaceInv'
      BY <2>1, <3>1, TypesPreserved, PlacePreserved
    <3>4. OwnRow' /\ StatusInv'
      BY <2>1, <3>1, <3>2, RowPreserved
    <3>5. RunInv' /\ ReadyIsWired' /\ RollbackIsComplete'
      BY <2>1, <3>1, <3>2, RunPreserved
    <3>6. DeletionInv' /\ GoneIsClean'
      BY <2>1, <3>2, DeletionPreserved
    <3> QED
      BY <3>3, <3>4, <3>5, <3>6 DEF TenantInv
  <2>2. CASE WriteKnowledge \/ Chat
    BY <2>2, UsePreserved
  <2>3. ASSUME NEW aged \in BOOLEAN, Restart(aged)
        PROVE  TypeOK' /\ TenantInv'
    BY <2>3, RestartPreserved
  <2>4. CASE UNCHANGED vars
    <3>1. TypeOK' /\ OwnRow' /\ StatusInv' /\ PlaceInv'
      BY <2>4 DEF vars, TypeOK, TenantInv, OwnRow, StatusInv, PlaceInv, Provisions, Deletes, At
    <3>2. RunInv'
      <4>1. task' = task /\ resources' = resources /\ leftovers' = leftovers
        BY <2>4 DEF vars
      <4>2. \A t \in Tasks : Undos(t)' = Undos(t) /\ (Provisions(t)' <=> Provisions(t))
        BY <4>1 DEF Undos, Provisions
      <4> QED
        BY <4>1, <4>2 DEF TenantInv, RunInv
    <3>3. DeletionInv'
      BY <2>4 DEF vars, TenantInv, DeletionInv, Deletes, At, Loadable, ListedTeams, Wiping
    <3>4. ReadyIsWired' /\ RollbackIsComplete' /\ GoneIsClean'
      BY <2>4 DEF vars, TenantInv, ReadyIsWired, RollbackIsComplete, GoneIsClean
    <3> QED
      BY <3>1, <3>2, <3>3, <3>4 DEF TenantInv
  <2> QED
    BY <2>1, <2>2, <2>3, <2>4 DEF Next
<1> QED
  BY <1>1, <1>2, PTL DEF Spec

\* Every task of the portal stands at one of its points, with a row of a known status.
THEOREM TypeCorrect == Spec => []TypeOK
BY TenantInvariant, PTL

\* As long as a run is alive nobody else touches the row or the tenant: the copy of the row it
\* works with is never stale, although nothing refreshes it.
THEOREM RowIsOwn == Spec => []OwnRow
<1>1. TypeOK /\ TenantInv => OwnRow
  BY DEF TenantInv
<1> QED
  BY <1>1, TenantInvariant, PTL

\* A tenant shown as ready has everything it needs, whatever failed before.
THEOREM ReadyWired == Spec => []ReadyIsWired
<1>1. TypeOK /\ TenantInv => ReadyIsWired
  BY DEF TenantInv
<1> QED
  BY <1>1, TenantInvariant, PTL

\* A rollback reported complete left nothing that a failed call did not leave.
THEOREM RollbackComplete == Spec => []RollbackIsComplete
<1>1. TypeOK /\ TenantInv => RollbackIsComplete
  BY DEF TenantInv
<1> QED
  BY <1>1, TenantInvariant, PTL

\* Of a tenant whose row is gone nothing is left, unless two deletions overlapped.
THEOREM GoneClean == Spec => []GoneIsClean
<1>1. TypeOK /\ TenantInv => GoneIsClean
  BY DEF TenantInv
<1> QED
  BY <1>1, TenantInvariant, PTL
=============================================================================
