----------------------------- MODULE SyncLedger -----------------------------
(***************************************************************************)
(* What klai-connector promises about the rows of connector.sync_runs and  *)
(* about the callback it owes the portal, with every actor left out: no     *)
(* background task, no crawl job, no resolver, no reaper, no restart.       *)
(*                                                                          *)
(*   - a row is opened once, and closed at most once;                       *)
(*   - a closed row never changes again;                                    *)
(*   - a row that a crawl at knowledge-ingest stands behind is never set    *)
(*     aside (PENDING) by a restart;                                        *)
(*   - the portal is told a verdict at most once, and never before the row  *)
(*     holds it.                                                            *)
(*                                                                          *)
(* ConnectorSync is shown to implement this module.                         *)
(***************************************************************************)
EXTENDS Naturals

CONSTANT Runs        \* the identities of sync_runs rows

Verdicts == {"completed", "failed", "auth_error"}

VARIABLES
  status,            \* status[r]: "unused" until the row is inserted
  handed,            \* rows whose cursor_state names a crawl at knowledge-ingest
  told               \* told[r]: how many callbacks the portal was sent for r

ledger == <<status, handed, told>>

Init ==
  /\ status = [r \in Runs |-> "unused"]
  /\ handed = {}
  /\ told = [r \in Runs |-> 0]

Open(r) ==
  /\ status[r] = "unused"
  /\ status' = [status EXCEPT ![r] = "running"]
  /\ UNCHANGED <<handed, told>>

HandOver(r) ==
  /\ status[r] = "running"
  /\ handed' = handed \union {r}
  /\ UNCHANGED <<status, told>>

Close(r) ==
  /\ status[r] = "running"
  /\ \E v \in Verdicts : status' = [status EXCEPT ![r] = v]
  /\ UNCHANGED <<handed, told>>

\* One restart sets every row aside that no crawl stands behind.
SetAside ==
  /\ status' = [r \in Runs |-> IF status[r] = "running" /\ r \notin handed
                               THEN "pending" ELSE status[r]]
  /\ UNCHANGED <<handed, told>>

Tell(r) ==
  /\ status[r] \in Verdicts
  /\ told[r] = 0
  /\ told' = [told EXCEPT ![r] = 1]
  /\ UNCHANGED <<status, handed>>

Next ==
  \/ SetAside
  \/ \E r \in Runs : Open(r) \/ HandOver(r) \/ Close(r) \/ Tell(r)

Spec == Init /\ [][Next]_ledger
=============================================================================
