---------------------------- MODULE OnceOnlyJobs ----------------------------
(***************************************************************************)
(* What the job queue promises of a job it accepted: its handler runs at   *)
(* most once, and the verdict shown for it, once there is one, is final    *)
(* and does not claim more than the handler reported.  It does not promise *)
(* that there ever is a verdict.                                           *)
(***************************************************************************)
CONSTANT Job

Report  == {"ok", "skipped", "error"}               \* what a handler answers
Verdict == {"none", "done", "skipped", "failed", "forgotten"}

VARIABLES
  handler,  \* Job -> "idle", "running" or the report it ended with
  verdict   \* Job -> what the queue shows

vars == <<handler, verdict>>

Init ==
  /\ handler = [j \in Job |-> "idle"]
  /\ verdict = [j \in Job |-> "none"]

Run(j) ==
  /\ handler[j] = "idle"
  /\ handler' = [handler EXCEPT ![j] = "running"]
  /\ UNCHANGED verdict

End(j, r) ==
  /\ handler[j] = "running"
  /\ handler' = [handler EXCEPT ![j] = r]
  /\ UNCHANGED verdict

\* A failure may be declared at any time, a success only after the report.
Settle(j, v) ==
  /\ verdict[j] = "none"
  /\ v = "done"    => handler[j] = "ok"
  /\ v = "skipped" => handler[j] = "skipped"
  /\ verdict' = [verdict EXCEPT ![j] = v]
  /\ UNCHANGED handler

Forget(j) ==
  /\ verdict' = [verdict EXCEPT ![j] = "forgotten"]
  /\ UNCHANGED handler

Next == \E j \in Job :
  \/ Run(j) \/ Forget(j)
  \/ \E r \in Report : End(j, r)
  \/ \E v \in {"done", "skipped", "failed"} : Settle(j, v)

Spec == Init /\ [][Next]_vars
=============================================================================
