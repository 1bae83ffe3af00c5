------------------------------ MODULE Synonyms ------------------------------
(***************************************************************************)
(* synonyms/: a miner asks a language model for groups of synonyms, batch    *)
(* by batch, and writes what it found beside a checkpoint; the groups become *)
(* candidates, which people approve, reject or disable (SynonymCache is how  *)
(* the search reads the approved ones).                                      *)
(*                                                                          *)
(* An output name o stands for the files <o>.json, <o>.json.progress.jsonl,  *)
(* <o>.exit and <o>.meta.json.  The command line runs an output again and    *)
(* again (Outs \ Fresh); the page of the administrators starts each on a new *)
(* name (Fresh), in a process of its own that outlives the API.  A batch     *)
(* stands for its tickets; `tickets' counts how often they became others.    *)
(***************************************************************************)
EXTENDS Integers, FiniteSets

CONSTANTS
  Groups,       \* candidates, by terms_key
  Batches,      \* 1..n
  Yield,        \* Batches -> the groups the model finds there
  Outs, Fresh,  \* output names, and those of the page
  Commits,      \* the outputs started with --commit
  MaxEvents, MaxFaults   \* bounds

VARIABLES
  tickets,      \* Batches -> version
  cand,         \* Groups -> status
  proc,         \* Outs -> the miner's process
  ckpt,         \* Outs -> Batches -> the line of the progress file
  result, exit, \* Outs -> what the run wrote, and its exit code
  meta,         \* Outs -> the page's own file
  api,          \* what start() is doing: "idle", or the output it has spawned
  orphans,      \* processes the page never learned of (history)
  events, faults
synVars == <<tickets, cand, proc, ckpt, result, exit, meta, api, orphans, events, faults>>
mineVars == <<proc, ckpt, result, exit>>

NoLine == [seen |-> 0, items |-> {}, bad |-> FALSE]
Off    == [pc |-> "off", k |-> 1, tickets |-> [b \in Batches |-> 0], saved |-> [b \in Batches |-> NoLine],
           known |-> {}, items |-> {}, bad |-> FALSE,
           astray |-> FALSE, hurt |-> FALSE]   \* history: took a line of other tickets; met a fault
NoResult == [pc |-> "none", items |-> {}, known |-> {}, astray |-> FALSE]
NoMeta == [there |-> FALSE, cancelled |-> FALSE]

Init ==
  /\ tickets = [b \in Batches |-> 1] /\ cand = [g \in Groups |-> "none"]
  /\ proc = [o \in Outs |-> Off] /\ ckpt = [o \in Outs |-> [b \in Batches |-> NoLine]]
  /\ result = [o \in Outs |-> NoResult] /\ exit = [o \in Outs |-> "none"] /\ meta = [o \in Outs |-> NoMeta]
  /\ api = "idle" /\ orphans = 0
  /\ events = 0 /\ faults = 0

Event == events < MaxEvents /\ events' = events + 1 /\ UNCHANGED faults
Fault == faults < MaxFaults /\ faults' = faults + 1 /\ UNCHANGED events
Calm  == UNCHANGED <<events, faults>>
Candidates == {g \in Groups : cand[g] # "none"}

-----------------------------------------------------------------------------
(* upsert_candidates() and set_status() *)

Upsert(S) == [g \in Groups |-> IF g \in S /\ cand[g] = "none" THEN "proposed" ELSE cand[g]]

Transition == [approve |-> {"proposed", "disabled"}, reject |-> {"proposed"}, disable |-> {"approved"}]
Becomes    == [approve |-> "approved", reject |-> "rejected", disable |-> "disabled"]
Decide(g, a) ==
  /\ Event /\ cand[g] \in Transition[a] /\ cand' = [cand EXCEPT ![g] = Becomes[a]]
  /\ UNCHANGED <<tickets, mineVars, meta, api, orphans>>
\* A ticket more or less shifts the batches after it.
TicketsChange(b) ==
  /\ Event /\ tickets' = [x \in Batches |-> IF x >= b THEN tickets[x] + 1 ELSE tickets[x]]
  /\ UNCHANGED <<cand, mineVars, meta, api, orphans>>

-----------------------------------------------------------------------------
(* cli.py: run_mine() and main() *)

Alive(o) == proc[o].pc # "off"
Started(o) == [Off EXCEPT !.pc = "mine", !.tickets = tickets, !.saved = ckpt[o], !.known = Candidates]
StartCli(o) ==
  /\ Event /\ o \notin Fresh /\ ~Alive(o) /\ proc' = [proc EXCEPT ![o] = Started(o)]
  /\ exit' = [exit EXCEPT ![o] = "none"]
  /\ UNCHANGED <<tickets, cand, ckpt, result, meta, api, orphans>>

MutResumes(p, b) == p.saved[b].seen # 0
\* A checkpoint counts if its batch is made of the same tickets.
Resumes(p, b) == p.saved[b].seen = p.tickets[b]
Took(o, k, line) ==
  proc' = [proc EXCEPT ![o].k = @ + 1, ![o].items = @ \union line.items, ![o].bad = @ \/ line.bad,
                       ![o].astray = @ \/ line.seen # proc[o].tickets[k], ![o].hurt = @ \/ faults' # faults]
Write(o, k, line) == Took(o, k, line) /\ ckpt' = [ckpt EXCEPT ![o][k] = line]
MineBatch(o) ==
  /\ proc[o].pc = "mine" /\ proc[o].k \in Batches
  /\ LET k == proc[o].k  p == proc[o]
         Line(items, bad) == [seen |-> p.tickets[k], items |-> items, bad |-> bad]
     IN
     IF Resumes(p, k) THEN Calm /\ Took(o, k, p.saved[k]) /\ UNCHANGED ckpt
     ELSE \/ Calm /\ Write(o, k, Line(Yield[k] \ p.known, FALSE))
          \* an answer that is no JSON: nothing found, and checkpointed as such
          \/ Fault /\ Write(o, k, Line({}, TRUE))
          \* an error, or an empty answer: not checkpointed, so the next run asks again
          \/ Fault /\ Took(o, k, Line({}, TRUE)) /\ UNCHANGED ckpt
  /\ UNCHANGED <<tickets, cand, result, exit, meta, api, orphans>>
WriteResult(o) ==
  /\ proc[o].pc = "mine" /\ proc[o].k \notin Batches
  /\ proc' = [proc EXCEPT ![o].pc = "commit"]
  /\ result' = [result EXCEPT ![o] = [pc |-> "written", items |-> proc[o].items, known |-> proc[o].known,
                                      astray |-> proc[o].astray]]
  /\ UNCHANGED <<tickets, cand, ckpt, exit, meta, api, orphans, events, faults>>
Finish(o) ==
  /\ proc[o].pc = "commit" /\ proc' = [proc EXCEPT ![o] = Off]
  /\ cand' = IF o \in Commits /\ ~proc[o].bad THEN Upsert(proc[o].items) ELSE cand
  /\ exit' = [exit EXCEPT ![o] = IF proc[o].bad THEN "partial" ELSE "ok"]
  /\ UNCHANGED <<tickets, ckpt, result, meta, api, orphans, events, faults>>
\* The process dies with its shell: no exit file.
Killed(o) ==
  /\ Fault /\ Alive(o) /\ proc' = [proc EXCEPT ![o] = Off]
  /\ UNCHANGED <<tickets, cand, ckpt, result, exit, meta, api, orphans>>

-----------------------------------------------------------------------------
(* runner.py *)

Status(o) ==
  IF exit[o] # "none" THEN (IF meta[o].cancelled THEN "cancelled" ELSE exit[o])
  ELSE IF Alive(o) THEN "running" ELSE IF meta[o].cancelled THEN "cancelled" ELSE "interrupted"
Running == {o \in Fresh : meta[o].there /\ Status(o) = "running"}
\* start(), under its file lock: the process first, then the file that names it.
Spawn(o) ==
  /\ Event /\ o \in Fresh /\ api = "idle" /\ Running = {} /\ ~meta[o].there /\ proc[o] = Off /\ exit[o] = "none"
  /\ ckpt[o] = [b \in Batches |-> NoLine] /\ result[o] = NoResult
  /\ proc' = [proc EXCEPT ![o] = Started(o)] /\ api' = o
  /\ UNCHANGED <<tickets, cand, ckpt, result, exit, meta, orphans>>
WriteMeta ==
  /\ api # "idle" /\ meta' = [meta EXCEPT ![api] = [there |-> TRUE, cancelled |-> FALSE]] /\ api' = "idle"
  /\ UNCHANGED <<tickets, cand, mineVars, orphans, events, faults>>
\* The API goes down: the lock is let go and the process lives on.
ApiDies ==
  /\ Fault /\ api # "idle" /\ api' = "idle" /\ orphans' = orphans + 1
  /\ UNCHANGED <<tickets, cand, mineVars, meta>>
Cancel(o) ==
  /\ Event /\ o \in Running /\ meta' = [meta EXCEPT ![o].cancelled = TRUE]
  /\ proc' = [proc EXCEPT ![o] = Off]
  /\ UNCHANGED <<tickets, cand, ckpt, result, exit, api, orphans>>
Import(o) ==
  /\ Event /\ meta[o].there /\ Status(o) # "running" /\ result[o].pc = "written"
  /\ cand' = Upsert(result[o].items)
  /\ UNCHANGED <<tickets, mineVars, meta, api, orphans>>

Next ==
  \/ \E g \in Groups, a \in DOMAIN Becomes : Decide(g, a)
  \/ \E o \in Outs : StartCli(o) \/ MineBatch(o) \/ WriteResult(o) \/ Finish(o) \/ Killed(o)
                     \/ Spawn(o) \/ Cancel(o) \/ Import(o)
  \/ \E b \in Batches : TicketsChange(b)
  \/ WriteMeta \/ ApiDies
Spec == Init /\ [][Next]_synVars

-----------------------------------------------------------------------------
(* Properties. *)

\* Exit code 0 means whole: what every batch of the tickets read yields is in the
\* result, or was a candidate before, and nothing comes from a checkpoint of
\* other tickets, whichever interrupted runs went before.
OkIsWhole ==
  \A o \in Outs : exit[o] = "ok" =>
    /\ \A b \in Batches : Yield[b] \subseteq result[o].items \union result[o].known
    /\ ~result[o].astray
\* The page runs one miner at a time, but for those it lost between the start of
\* the process and the file that records it.
MinersAlone == Cardinality({o \in Fresh : Alive(o)}) <= 1 + orphans
\* Mining again, importing again, never touches what people decided.
OnlyPeopleChange == \A g \in Groups : cand[g] \notin {"none", "proposed"} /\ cand'[g] # cand[g] =>
  cand'[g] # "proposed" /\ events' = events + 1 /\ mineVars' = mineVars
DecisionsStand == [][OnlyPeopleChange]_synVars
\* "re-run with the same --out to retry failed batches" (cli.py:287): a run that
\* meets no failure itself is not partial.
RerunRepairs == \A o \in Outs : proc[o].pc = "commit" /\ ~proc[o].hurt => ~proc[o].bad
=============================================================================
