---------------------------- MODULE CrawlContract ----------------------------
(***************************************************************************)
(* What knowledge-ingest promises about a row of knowledge.crawl_jobs, with *)
(* the queue, the workers, the advisory lock, the fetching and every crash  *)
(* left out:                                                                *)
(*                                                                          *)
(*   - a crawl is claimed by one execution after another, each under the    *)
(*     next generation, and none is claimed once its cancellation is asked; *)
(*   - progress, the rate-limit observation and the outcome are only ever   *)
(*     written by the newest generation, of a crawl that runs;              *)
(*   - the observation is applied once, however many executions there are;  *)
(*   - an outcome is final.                                                 *)
(*                                                                          *)
(* CrawlExecution is shown to implement this module.  It is also the crawl  *)
(* job that ConnectorSync polls.                                            *)
(***************************************************************************)
EXTENDS Naturals

CONSTANT Jobs        \* ids of crawl_jobs rows

Outcomes == {"completed", "failed", "cancelled"}

VARIABLES
  status,            \* "none" until the row is inserted
  gen,               \* execution_generation
  cancelReq,         \* rows with cancel_requested
  observed,          \* how often the rate-limit effect of a crawl was applied
  author             \* the generation that wrote a crawl's progress or outcome last

contract == <<status, gen, cancelReq, observed, author>>

Init ==
  /\ status = [j \in Jobs |-> "none"]
  /\ gen = [j \in Jobs |-> 0]
  /\ cancelReq = {}
  /\ observed = [j \in Jobs |-> 0]
  /\ author = [j \in Jobs |-> 0]

Submit(j) ==
  /\ status[j] = "none"
  /\ status' = [status EXCEPT ![j] = "pending"]
  /\ UNCHANGED <<gen, cancelReq, observed, author>>

Claim(j) ==
  /\ status[j] \in {"pending", "running"} /\ j \notin cancelReq
  /\ status' = [status EXCEPT ![j] = "running"]
  /\ gen' = [gen EXCEPT ![j] = @ + 1]
  /\ UNCHANGED <<cancelReq, observed, author>>

Persist(j) ==
  /\ status[j] = "running"
  /\ author' = [author EXCEPT ![j] = gen[j]]
  /\ UNCHANGED <<status, gen, cancelReq, observed>>

Apply(j) ==
  /\ status[j] = "running" /\ observed[j] = 0
  /\ observed' = [observed EXCEPT ![j] = 1]
  /\ author' = [author EXCEPT ![j] = gen[j]]
  /\ UNCHANGED <<status, gen, cancelReq>>

Finish(j) ==
  /\ status[j] = "running"
  /\ \E v \in Outcomes : status' = [status EXCEPT ![j] = v]
  /\ author' = [author EXCEPT ![j] = gen[j]]
  /\ UNCHANGED <<gen, cancelReq, observed>>

AskCancel(j) ==
  /\ status[j] \in {"pending", "running"}
  /\ cancelReq' = cancelReq \union {j}
  /\ UNCHANGED <<status, gen, observed, author>>

\* The cancellation was seen before the execution could be claimed.
Refuse(j) ==
  /\ status[j] \in {"pending", "running"} /\ j \in cancelReq
  /\ status' = [status EXCEPT ![j] = "cancelled"]
  /\ UNCHANGED <<gen, cancelReq, observed, author>>

Next ==
  \E j \in Jobs :
    Submit(j) \/ Claim(j) \/ Persist(j) \/ Apply(j) \/ Finish(j) \/ AskCancel(j) \/ Refuse(j)

Spec == Init /\ [][Next]_contract
=============================================================================
