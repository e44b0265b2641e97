----------------------------- MODULE PortalSync -----------------------------
(***************************************************************************)
(* What the portal shows of a connector's runs: portal_connectors'          *)
(* last_sync_status and last_sync_at are written by two handlers that race, *)
(* the trigger endpoint when klai-connector's 202 arrives, and the callback *)
(* when a run has ended.  klai-connector is here what SyncLedger promises   *)
(* of it (ConnectorSync is shown to keep that promise), plus the timestamps *)
(* it hands out.  HTTP delivers late, in any order, or not at all.          *)
(***************************************************************************)
EXTENDS Naturals

CONSTANTS
  Runs,            \* identities of sync_runs rows; a bound on how many runs there are
  Connectors,
  ConnectorOf,     \* the connector a row belongs to
  Users,           \* concurrent calls of the portal's trigger endpoint
  MaxLosses        \* bound: HTTP calls between the two services that are lost

ASSUME PortalAssumption == ConnectorOf \in [Runs -> Connectors] /\ MaxLosses \in Nat

VARIABLES
  status, handed, told,      \* the ledger
  began,           \* started_at as a logical time; 0 before the row's transaction begins
  closed,          \* completed_at, likewise
  now,             \* the logical clock
  firing,          \* rows a schedule is about to insert
  req,             \* where a call of the trigger endpoint stands
  wire,            \* callbacks sent to the portal and not yet applied
  seen,            \* the last_sync_status a callback's handler has loaded; "unread" before
  shown,           \* portal_connectors.last_sync_status
  shownAt,         \* portal_connectors.last_sync_at
  losses,
  excuse           \* history: what happened to a connector that may mislead the portal

ledger == <<status, handed, told>>
times == <<began, closed, now>>
portal == <<shown, shownAt>>
callbacks == <<wire, seen>>
vars == <<ledger, times, firing, req, callbacks, portal, losses, excuse>>

Ledger == INSTANCE SyncLedger WITH Runs <- Runs, status <- status, handed <- handed, told <- told

Idle == [pc |-> "idle"]
Requests == {Idle} \union [pc : {"asked"}, conn : Connectors]
                   \union [pc : {"cleared", "started"}, run : Runs]
Excuses == {"lost", "set aside", "late", "overtaken"}

RunsOf(c) == {r \in Runs : ConnectorOf[r] = c}
Active(c) == \E r \in RunsOf(c) : status[r] = "running"
Fresh(c) == {r \in RunsOf(c) : began[r] = 0}
Excused(C, why) == [c \in Connectors |-> IF c \in C THEN excuse[c] \union {why} ELSE excuse[c]]

Init ==
  /\ Ledger!Init
  /\ began = [r \in Runs |-> 0]
  /\ closed = [r \in Runs |-> 0]
  /\ now = 0
  /\ firing = {}
  /\ req = [u \in Users |-> Idle]
  /\ wire = {}
  /\ seen = [r \in Runs |-> "unread"]
  /\ shown = [c \in Connectors |-> "none"]
  /\ shownAt = [c \in Connectors |-> 0]
  /\ losses = 0
  /\ excuse = [c \in Connectors |-> {}]

\* started_at is the database's now(), the time the transaction of the guard began.
BeginRow(r) ==
  /\ now' = now + 1
  /\ began' = [began EXCEPT ![r] = now + 1]

(***************************************************************************)
(* The portal's trigger endpoint                                            *)
(***************************************************************************)

\* Enabled and active connector, last_sync_status read, POST sent.
PortalAsk(u, c) ==
  /\ req[u] = Idle
  /\ shown[c] # "running"
  /\ Fresh(c) # {}
  /\ req' = [req EXCEPT ![u] = [pc |-> "asked", conn |-> c]]
  /\ UNCHANGED <<ledger, times, firing, callbacks, portal, losses, excuse>>

\* klai-connector's guard finds no RUNNING row; its transaction has begun.
ConnectorBegin(u) ==
  /\ req[u].pc = "asked"
  /\ ~Active(req[u].conn)
  /\ \E r \in Fresh(req[u].conn) :
       /\ BeginRow(r)
       /\ req' = [req EXCEPT ![u] = [pc |-> "cleared", run |-> r]]
  /\ UNCHANGED <<ledger, closed, firing, callbacks, portal, losses, excuse>>

\* 409, an error, or a restart of klai-connector: the endpoint answers 409 or 502.
ConnectorRefuse(u) ==
  /\ req[u].pc \in {"asked", "cleared"}
  /\ req' = [req EXCEPT ![u] = Idle]
  /\ UNCHANGED <<ledger, times, firing, callbacks, portal, losses, excuse>>

ConnectorInsert(u) ==
  /\ req[u].pc = "cleared"
  /\ Ledger!Open(req[u].run)
  /\ req' = [req EXCEPT ![u].pc = "started"]
  /\ UNCHANGED <<times, firing, callbacks, portal, losses, excuse>>

\* The 202 arrived.  db.refresh takes the row lock: comparing and writing are one step.
\* Mutant of Newer: the answer is always applied.
NewerAlways(c, r) == TRUE
Newer(c, r) == shownAt[c] < began[r]

PortalApply(u) ==
  /\ req[u].pc = "started"
  /\ LET r == req[u].run
         c == ConnectorOf[r]
     IN /\ shown' = IF Newer(c, r) THEN [shown EXCEPT ![c] = "running"] ELSE shown
        /\ shownAt' = IF Newer(c, r) THEN [shownAt EXCEPT ![c] = began[r]] ELSE shownAt
  /\ req' = [req EXCEPT ![u] = Idle]
  /\ UNCHANGED <<ledger, times, firing, callbacks, losses, excuse>>

\* The 202 does not arrive: 502, nothing written.
AnswerLost(u) ==
  /\ losses < MaxLosses
  /\ req[u].pc = "started"
  /\ req' = [req EXCEPT ![u] = Idle]
  /\ losses' = losses + 1
  /\ UNCHANGED <<ledger, times, firing, callbacks, portal, excuse>>

(***************************************************************************)
(* klai-connector                                                           *)
(***************************************************************************)

\* A schedule opens a run; the portal is not told of it.
ScheduleBegin(c) ==
  /\ ~Active(c)
  /\ \E r \in Fresh(c) : BeginRow(r) /\ firing' = firing \union {r}
  /\ UNCHANGED <<ledger, closed, req, callbacks, portal, losses, excuse>>

ScheduleInsert(r) ==
  /\ r \in firing
  /\ firing' = firing \ {r}
  /\ Ledger!Open(r)
  /\ UNCHANGED <<times, req, callbacks, portal, losses, excuse>>

HandOver(r) ==
  /\ r \notin handed
  /\ Ledger!HandOver(r)
  /\ UNCHANGED <<times, firing, req, callbacks, portal, losses, excuse>>

\* Mutant of Close: the crawl's own status word goes into the row.
CloseRaw(r) ==
  /\ status[r] = "running"
  /\ status' = [status EXCEPT ![r] = "cancelled"]
  /\ now' = now + 1
  /\ closed' = [closed EXCEPT ![r] = now + 1]
  /\ UNCHANGED <<handed, told, began, firing, req, callbacks, portal, losses, excuse>>

Close(r) ==
  /\ Ledger!Close(r)
  /\ now' = now + 1
  /\ closed' = [closed EXCEPT ![r] = now + 1]
  /\ UNCHANGED <<began, firing, req, callbacks, portal, losses, excuse>>

Tell(r) ==
  /\ Ledger!Tell(r)
  /\ wire' = wire \union {r}
  /\ UNCHANGED <<times, firing, req, seen, portal, losses, excuse>>

\* A restart: rows are set aside, and no callback says so.  Firings die with it.
SetAside ==
  /\ \E r \in Runs : status[r] = "running" /\ r \notin handed
  /\ Ledger!SetAside
  /\ firing' = {}
  /\ excuse' = Excused({ConnectorOf[r] : r \in {s \in Runs : status[s] # status'[s]}}, "set aside")
  /\ UNCHANGED <<times, req, callbacks, portal, losses>>

(***************************************************************************)
(* The portal's callback endpoint.  A callback carries the verdict and the  *)
(* completed_at of its run, which change no more once the row is closed.    *)
(* The connector is loaded without a row lock, and the UPDATE names only    *)
(* the columns whose value differs from the loaded one.                     *)
(***************************************************************************)
CallbackReads(r) ==
  /\ r \in wire /\ seen[r] = "unread"
  /\ seen' = [seen EXCEPT ![r] = shown[ConnectorOf[r]]]
  /\ UNCHANGED <<ledger, times, firing, req, wire, portal, losses, excuse>>

\* The callback is over: written, or lost.
Consume(r) == wire' = wire \ {r} /\ seen' = [seen EXCEPT ![r] = "unread"]
SameAsLoaded(r) == status[r] = seen[r]

\* Mutant of CallbackWrites: last_sync_at is left alone.
CallbackKeepsTime(r) ==
  /\ seen[r] # "unread"
  /\ Consume(r)
  /\ shown' = [shown EXCEPT ![ConnectorOf[r]] = IF SameAsLoaded(r) THEN @ ELSE status[r]]
  /\ UNCHANGED <<ledger, times, firing, req, shownAt, losses, excuse>>

CallbackWrites(r) ==
  /\ seen[r] # "unread"
  /\ Consume(r)
  /\ LET c == ConnectorOf[r]
     IN /\ shown' = [shown EXCEPT ![c] = IF SameAsLoaded(r) THEN @ ELSE status[r]]
        /\ shownAt' = [shownAt EXCEPT ![c] = closed[r]]
        /\ excuse' = [excuse EXCEPT ![c] =
             @ \union (IF closed[r] < shownAt[c] THEN {"late"} ELSE {})
               \union (IF SameAsLoaded(r) /\ shown[c] # seen[r] THEN {"overtaken"} ELSE {})]
  /\ UNCHANGED <<ledger, times, firing, req, losses>>

\* report_sync_status swallows the error, or one of the services stops in between;
\* nobody sends the callback again.
CallbackLost(r) ==
  /\ losses < MaxLosses
  /\ r \in wire
  /\ Consume(r)
  /\ losses' = losses + 1
  /\ excuse' = Excused({ConnectorOf[r]}, "lost")
  /\ UNCHANGED <<ledger, times, firing, req, portal>>

Trigger(u) ==
  \/ \E c \in Connectors : PortalAsk(u, c)
  \/ ConnectorBegin(u) \/ ConnectorRefuse(u) \/ ConnectorInsert(u)
  \/ PortalApply(u) \/ AnswerLost(u)

Next ==
  \/ \E u \in Users : Trigger(u)
  \/ \E c \in Connectors : ScheduleBegin(c)
  \/ \E r \in Runs : ScheduleInsert(r) \/ HandOver(r) \/ Close(r) \/ Tell(r)
  \/ SetAside
  \/ \E r \in Runs : CallbackReads(r) \/ CallbackWrites(r) \/ CallbackLost(r)

Spec == Init /\ [][Next]_vars

(***************************************************************************)
(* Properties                                                               *)
(***************************************************************************)

\* Every variable stays in its domain.
TypeOK ==
  /\ status \in [Runs -> Ledger!Verdicts \union {"unused", "running", "pending"}]
  /\ handed \subseteq Runs /\ firing \subseteq Runs /\ wire \subseteq Runs
  /\ seen \in [Runs -> Ledger!Verdicts \union {"unread", "none", "running"}]
  /\ told \in [Runs -> Nat] /\ began \in [Runs -> Nat] /\ closed \in [Runs -> Nat]
  /\ now \in Nat /\ losses \in Nat
  /\ req \in [Users -> Requests]
  /\ shown \in [Connectors -> Ledger!Verdicts \union {"none", "running"}]
  /\ shownAt \in [Connectors -> Nat]
  /\ excuse \in [Connectors -> SUBSET Excuses]

\* A worker may report before the portal has the answer to the call that started the
\* run: that late answer never puts "running" over the run's own verdict.
OwnVerdictStands ==
  [][\A r \in Runs :
       closed[r] > 0 /\ shownAt[ConnectorOf[r]] = closed[r]
         => shownAt'[ConnectorOf[r]] # began[r]]_vars

\* A connector that shows "running", and so refuses to be started, has a run that is
\* open or whose verdict is still on its way: the portal is not stuck.
Backed(c) == \E r \in RunsOf(c) :
  status[r] = "running" \/ (status[r] \in Ledger!Verdicts /\ told[r] = 0) \/ r \in wire

\* Only a lost callback, a run set aside by a restart, a callback that arrives after a
\* newer one, or one whose handler the start answer overtook between its load and its
\* write can leave a connector showing "running" for nothing.
RunningIsBacked ==
  \A c \in Connectors : shown[c] = "running" /\ excuse[c] = {} => Backed(c)
=============================================================================
