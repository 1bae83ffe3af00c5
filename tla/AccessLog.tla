------------------------------- MODULE AccessLog -------------------------------
(***************************************************************************)
(* audit/api_access.py and audit/mcp_access.py: who called the API.  A request *)
(* that an MCP tool makes is written to mcp_access_log at once; any other    *)
(* under /v1 is put on a bounded queue, and a daemon thread, which the first *)
(* request starts, writes the queue in batches, and prunes rows by their age.*)
(*                                                                          *)
(* Requests are numbered as they end, so the queue, first in first out, is a *)
(* set from which the least number is taken.  The event loop runs enqueue()  *)
(* alone; the thread takes rows from the queue meanwhile.                    *)
(***************************************************************************)
EXTENDS Integers, FiniteSets

CONSTANTS
  Requests,      \* [v1, polling, options, admin : BOOLEAN, client : STRING], what is told of a request
  LogOn,         \* API_ACCESS_LOG
  QueueMax, BatchSize, FlushMax,      \* FlushMax stands for _BATCH * 10
  PruneEvery, Retention,
  MaxRequests, MaxClock, MaxLogFaults   \* bounds

ASSUME LogAssumption == Retention \in Nat /\ PruneEvery \in Nat

VARIABLES
  clock,
  calls,      \* how many requests have ended
  queue,      \* _q
  hand,       \* what flush() has taken
  writer,     \* the thread: none, sleep, take, insert, check, prune
  lastPrune,
  rows,       \* api_access_log: [call, at], where `at' is created_at
  mcpRows,    \* mcp_access_log
  dropped,    \* those that found the queue full (the code counts them)
  lost,       \* those lost with an insert or with the process (history)
  old,        \* rows pruned (history)
  admitted,   \* those for api_access_log, [call, at] as they ended (history)
  logFaults
logVars == <<clock, calls, queue, hand, writer, lastPrune, rows, mcpRows, dropped, lost, old, admitted, logFaults>>

\* time.monotonic() counts from the start of the host, lastPrune from 0.
LogInit ==
  /\ clock \in {0, PruneEvery + 1} /\ calls = 0 /\ queue = {} /\ hand = {} /\ writer = "none" /\ lastPrune = 0
  /\ rows = {} /\ mcpRows = {} /\ dropped = {} /\ lost = {} /\ old = {} /\ admitted = {} /\ logFaults = 0

-----------------------------------------------------------------------------
(* A request has been answered: the two middlewares. *)

Logged(r) == LogOn /\ ~r.options /\ r.v1 /\ ~r.polling /\ r.client # "mcp-server" /\ ~r.admin
ByMcp(r)  == r.client = "mcp-server"

LogFault == logFaults < MaxLogFaults /\ logFaults' = logFaults + 1
Enqueue(c) ==
  /\ writer' = IF writer = "none" THEN "sleep" ELSE writer    \* _ensure_writer()
  /\ admitted' = admitted \union {[call |-> c, at |-> clock]}
  /\ IF Cardinality(queue) < QueueMax THEN queue' = queue \union {c} /\ UNCHANGED dropped
                                      ELSE dropped' = dropped \union {c} /\ UNCHANGED queue
WriteMcp(c) ==    \* in a transaction of its own; a failure is logged
  \/ mcpRows' = mcpRows \union {c} /\ UNCHANGED logFaults
  \/ LogFault /\ UNCHANGED mcpRows
Answered(r) ==
  /\ calls < MaxRequests /\ calls' = calls + 1
  /\ IF ByMcp(r) THEN WriteMcp(calls') ELSE UNCHANGED <<mcpRows, logFaults>>
  /\ IF Logged(r) THEN Enqueue(calls') ELSE UNCHANGED <<writer, admitted, queue, dropped>>
  /\ UNCHANGED <<clock, hand, lastPrune, rows, lost, old>>

-----------------------------------------------------------------------------
(* The writer: _loop(), flush() and prune(). *)

Wake ==
  /\ writer = "sleep" /\ writer' = "take"
  /\ UNCHANGED <<clock, calls, queue, hand, lastPrune, rows, mcpRows, dropped, lost, old, admitted, logFaults>>
TakeRow ==
  /\ writer = "take" /\ Cardinality(hand) < FlushMax
  /\ \E c \in queue :
       /\ \A d \in queue : c <= d
       /\ queue' = queue \ {c} /\ hand' = hand \union {c}
  /\ UNCHANGED <<clock, calls, writer, lastPrune, rows, mcpRows, dropped, lost, old, admitted, logFaults>>
TakenAll ==
  /\ writer = "take" /\ (queue = {} \/ Cardinality(hand) >= FlushMax)
  /\ writer' = IF hand = {} THEN "check" ELSE "insert"
  /\ UNCHANGED <<clock, calls, queue, hand, lastPrune, rows, mcpRows, dropped, lost, old, admitted, logFaults>>
Dated(S) == {[call |-> c, at |-> clock] : c \in S}
\* A full batch: there may be more.
Insert ==
  /\ writer = "insert" /\ rows' = rows \union Dated(hand) /\ hand' = {}
  /\ writer' = IF Cardinality(hand) >= BatchSize THEN "take" ELSE "check"
  /\ UNCHANGED <<clock, calls, queue, lastPrune, mcpRows, dropped, lost, old, admitted, logFaults>>
MutAfterFailure == hand     \* mutant: the rows are kept for another try
AfterFailure == {}
\* flush() gives the rows up, though the commit that failed may have come through.
InsertFails ==
  /\ writer = "insert" /\ LogFault /\ writer' = "check" /\ hand' = AfterFailure
  /\ \/ rows' = rows \union Dated(hand) /\ UNCHANGED lost
     \/ lost' = lost \union hand /\ UNCHANGED rows
  /\ UNCHANGED <<clock, calls, queue, lastPrune, mcpRows, dropped, old, admitted>>
CheckPrune ==
  /\ writer = "check"
  /\ IF clock - lastPrune > PruneEvery THEN writer' = "prune" /\ lastPrune' = clock
                                       ELSE writer' = "sleep" /\ UNCHANGED lastPrune
  /\ UNCHANGED <<clock, calls, queue, hand, rows, mcpRows, dropped, lost, old, admitted, logFaults>>
Expired == {r \in rows : r.at < clock - Retention}
Prune ==
  /\ writer = "prune" /\ writer' = "sleep"
  /\ \/ rows' = rows \ Expired /\ old' = old \union Expired /\ UNCHANGED logFaults
     \/ LogFault /\ UNCHANGED <<rows, old>>
  /\ UNCHANGED <<clock, calls, queue, hand, lastPrune, mcpRows, dropped, lost, admitted>>

\* The process dies with what it has not written.
Crash ==
  /\ LogFault /\ lost' = lost \union queue \union hand /\ queue' = {} /\ hand' = {}
  /\ writer' = "none" /\ lastPrune' = 0
  /\ UNCHANGED <<clock, calls, rows, mcpRows, dropped, old, admitted>>
Tick ==
  /\ clock < MaxClock /\ clock' = clock + 1
  /\ UNCHANGED <<calls, queue, hand, writer, lastPrune, rows, mcpRows, dropped, lost, old, admitted, logFaults>>

LogNext ==
  \/ \E r \in Requests : Answered(r)
  \/ Wake \/ TakeRow \/ TakenAll \/ Insert \/ InsertFails \/ CheckPrune \/ Prune \/ Crash \/ Tick
LogSpec == LogInit /\ [][LogNext]_logVars

-----------------------------------------------------------------------------
(* Properties. *)

CallsOf(R) == {r.call : r \in R}
Where == [queue |-> queue, hand |-> hand, rows |-> CallsOf(rows), old |-> CallsOf(old), dropped |-> dropped, lost |-> lost]

\* A request is in one place: waiting, in the writer's hands, in the table, pruned
\* from it, dropped before a full queue, or lost with an insert or the process; one
\* made by an MCP tool is in none of them.
InOnePlace ==
  /\ CallsOf(admitted) = UNION {Where[p] : p \in DOMAIN Where}
  /\ \A p, q \in DOMAIN Where : p # q => Where[p] \cap Where[q] = {}
  /\ mcpRows \cap CallsOf(admitted) = {}
\* The table has the requests in their order, none before its time, and what was
\* pruned was as old as the setting says.
InOrder ==
  /\ \A r, s \in rows \union old : r.call <= s.call => r.at <= s.at
  /\ \A r \in rows \union old, a \in admitted : r.call = a.call => a.at <= r.at
  /\ \A r \in old : clock - r.at > Retention
LogTypeOK ==
  /\ clock \in Nat /\ calls \in Nat /\ lastPrune \in Nat
  /\ writer \in {"none", "sleep", "take", "insert", "check", "prune"}
  /\ UNION {queue, hand, dropped, lost, mcpRows} \subseteq 1..calls
  /\ UNION {rows, old, admitted} \subseteq [call : 1..calls, at : 0..clock]
\* docstring and enqueue() of api_access.py: every call that is to be logged is logged
\* once, in order, or accounted for.
RowsKept == LogTypeOK /\ InOnePlace /\ InOrder
=============================================================================
