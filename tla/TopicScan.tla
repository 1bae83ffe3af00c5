------------------------------ MODULE TopicScan ------------------------------
(***************************************************************************)
(* decisions/scan.py: a periodic job derives questions for people to decide  *)
(* and registers them as proposals.  It counts what is open, reads what is   *)
(* known and under decision, runs its detectors, rewords the chosen          *)
(* questions with a language model, and creates them one after the other;    *)
(* two scans (cron and the button of the dashboard) overlap, and people      *)
(* decide meanwhile.                                                         *)
(*                                                                          *)
(* A topic is one source_key; only scans create decisions with a key.        *)
(* Refining changes words only; of it the answer to a rejected key (401) is  *)
(* kept, which stops further calls of that run.  One quote stands for the    *)
(* evidence of a topic.  Dry runs write nothing and are left out.            *)
(***************************************************************************)
EXTENDS Integers, FiniteSets, Sequences

CONSTANTS
  Topics,       \* source keys
  Detector,     \* Topics -> detector
  High,         \* topics of high stakes
  Ruled,        \* topics made up of incidents the policy may exclude
  DocOf,        \* Topics -> the document quoted
  Caps,         \* settings: [new |-> max_new_per_run, open |-> max_open_server_proposals]
  Refinable,    \* llm_max_per_run, or 0 where llm_refine is off
  Workers,      \* llm_workers
  Scans,
  MaxEvents     \* bound on what people, documents and failures do

VARIABLES
  found,        \* the topics the detectors see now
  quoted,       \* topics whose quote is in its document
  dec,          \* Topics -> the decision with that key
  human,        \* documents under a decision people made themselves
  scan,         \* the runs
  caps,         \* the settings in force (scan_config.py)
  events
scanVars == <<found, quoted, dec, human, scan, caps, events>>

None == [status |-> "none", before |-> "none", backed |-> FALSE, exclude |-> FALSE]
IdleScan == [pc |-> "idle", caps |-> [new |-> 0, open |-> 0], limit |-> 0, known |-> {}, busy |-> {},
             todo |-> <<>>, calls |-> 0, refused |-> FALSE, asked |-> 0, fresh |-> {}, made |-> {}, errors |-> {},
             taken |-> {}, extra |-> 0, late |-> 0]   \* history: keys found taken; proposals others opened; answers after the 401
Rank(t) == LET by == [deadline |-> 0, policy |-> 0, bucket_gap |-> 1, cause_conflict |-> 2, fb_confirm |-> 3]
           IN (IF t \in High THEN 0 ELSE 10) + by[Detector[t]]

Init ==
  /\ found = Topics /\ quoted = Topics /\ dec = [t \in Topics |-> None] /\ human = {}
  /\ scan = [s \in Scans |-> IdleScan] /\ caps \in Caps /\ events = 0

Event == events < MaxEvents /\ events' = events + 1
Go(s, k) == scan' = [scan EXCEPT ![s] = k]
Opened(k) == IF k.pc = "idle" THEN k ELSE [k EXCEPT !.extra = @ + 1]

-----------------------------------------------------------------------------
(* People, documents and settings. *)

\* A verdict that is based on evidence.
Confirm(t) ==
  /\ Event /\ dec[t].status \in {"proposed", "confirmed"} /\ dec[t].backed
  /\ \E b \in IF Detector[t] = "policy" THEN BOOLEAN ELSE {FALSE} :
       dec' = [dec EXCEPT ![t].status = "confirmed", ![t].exclude = b]
  /\ UNCHANGED <<found, quoted, human, scan, caps>>
\* A proposal is put aside: by a person, or by retire_legacy_decision_proposals.py.
Retire(t) ==
  /\ Event /\ dec[t].status \notin {"none", "retired"}
  /\ dec' = [dec EXCEPT ![t].status = "retired", ![t].before = dec[t].status]
  /\ UNCHANGED <<found, quoted, human, scan, caps>>
Restore(t) ==
  /\ Event /\ dec[t].status = "retired" /\ dec' = [dec EXCEPT ![t].status = dec[t].before, ![t].before = "none"]
  /\ scan' = IF dec[t].before = "proposed" THEN [s \in Scans |-> Opened(scan[s])] ELSE scan
  /\ UNCHANGED <<found, quoted, human, caps>>
Ask(t) ==    \* a person proposes something on the same document
  /\ Event /\ human' = human \union {DocOf[t]} /\ UNCHANGED <<found, quoted, dec, scan, caps>>
Rewrite(t) ==    \* until then a quote stays where the detector found it
  /\ Event /\ quoted' = quoted \ {t} /\ found' = found \ {t} /\ UNCHANGED <<dec, human, scan, caps>>
Configure ==    \* scan_config.update(), under its lock
  /\ Event /\ \E c \in Caps : caps' = c
  /\ UNCHANGED <<found, quoted, dec, human, scan>>

-----------------------------------------------------------------------------
(* scan_topics() *)

OpenServer == {t \in Topics : dec[t].status = "proposed"}
Known == {t \in Topics : dec[t].status # "none"}
Busy == human \union {DocOf[t] : t \in {u \in Topics : dec[u].status \notin {"none", "retired"} /\ dec[u].backed}}
Least(a, b) == IF a <= b THEN a ELSE b
MutLimit(c) == Least(c.new, c.open)
Limit(c) == Least(c.new, IF c.open > Cardinality(OpenServer) THEN c.open - Cardinality(OpenServer) ELSE 0)

\* One session that sees, statement by statement, what is committed by then.
Count(s) ==
  /\ scan[s].pc = "idle" /\ Go(s, [IdleScan EXCEPT !.pc = "know", !.caps = caps, !.limit = Limit(caps)])
  /\ UNCHANGED <<found, quoted, dec, human, caps, events>>
Know(s) ==
  /\ scan[s].pc = "know" /\ Go(s, [scan[s] EXCEPT !.pc = "detect", !.known = Known, !.busy = Busy])
  /\ UNCHANGED <<found, quoted, dec, human, caps, events>>
\* bucket_gap leaves out the incidents a policy excludes, while that is confirmed and
\* its document is as it was.  A detector that fails does not stop the others.
Excluding == \E t \in Topics : Detector[t] = "policy" /\ dec[t].status = "confirmed" /\ dec[t].exclude /\ t \in quoted
Detected(broken) == {t \in found : Detector[t] \notin broken /\ ~(Excluding /\ t \in Ruled)}
New(k, broken) == {t \in Detected(broken) : t \notin k.known /\ ~(Detector[t] = "deadline" /\ DocOf[t] \in k.busy)}
\* new.sort() is stable; among equals any order may come out of the detectors.
Orders(S) == {q \in [1..Cardinality(S) -> S] :
                \A i, j \in DOMAIN q : i < j => q[i] # q[j] /\ Rank(q[i]) <= Rank(q[j])}
Detect(s) ==
  /\ scan[s].pc = "detect"
  /\ \E broken \in {{}} \union {{Detector[t]} : t \in Topics} :
       /\ IF broken = {} THEN UNCHANGED events ELSE Event
       /\ \E q \in Orders(New(scan[s], broken)) :
            Go(s, [scan[s] EXCEPT !.pc = "refine", !.fresh = New(scan[s], broken),
                                  !.todo = SubSeq(q, 1, Least(scan[s].limit, Len(q)))])
  /\ UNCHANGED <<found, quoted, dec, human, caps>>

\* refine_all(): a pool of Workers threads; a 401 is seen by the calls that have
\* not started yet.
Refining(k) == Least(Refinable, Len(k.todo))
Skips(k) == k.refused
CallModel(s) ==
  /\ scan[s].pc = "refine" /\ scan[s].asked < Refining(scan[s]) /\ scan[s].calls < Workers
  /\ Go(s, [scan[s] EXCEPT !.asked = @ + 1, !.calls = IF Skips(scan[s]) THEN @ ELSE @ + 1])
  /\ UNCHANGED <<found, quoted, dec, human, caps, events>>
ModelAnswers(s) ==
  /\ scan[s].pc = "refine" /\ scan[s].calls > 0
  /\ LET k == [scan[s] EXCEPT !.calls = @ - 1, !.late = IF scan[s].refused THEN @ + 1 ELSE @]
     IN (Go(s, k) /\ UNCHANGED events) \/ (Go(s, [k EXCEPT !.refused = TRUE]) /\ Event)
  /\ UNCHANGED <<found, quoted, dec, human, caps>>
Refined(s) ==
  /\ scan[s].pc = "refine" /\ scan[s].asked = Refining(scan[s]) /\ scan[s].calls = 0
  /\ Go(s, [scan[s] EXCEPT !.pc = "create"])
  /\ UNCHANGED <<found, quoted, dec, human, caps, events>>

\* create_decision(): the row is committed first, unless its key is taken; everybody
\* sees it from then on.
Taken(t) == dec[t].status # "none"
Insert(s) ==
  /\ scan[s].pc = "create" /\ scan[s].todo # <<>>
  /\ LET t == Head(scan[s].todo) IN
     IF Taken(t) THEN Go(s, [scan[s] EXCEPT !.todo = Tail(@), !.taken = @ \union {t}]) /\ UNCHANGED dec
     ELSE /\ dec' = [dec EXCEPT ![t] = [None EXCEPT !.status = "proposed"]]
          /\ scan' = [r \in Scans |-> IF r = s THEN [scan[s] EXCEPT !.pc = "gate", !.made = @ \union {t}] ELSE Opened(scan[r])]
  /\ UNCHANGED <<found, quoted, human, caps, events>>
\* Then its evidence, which must be a quote.  A row whose evidence is refused is
\* removed; where it was retired meanwhile, the conflict also ends the scan.
Gate(s) ==
  /\ scan[s].pc = "gate"
  /\ LET t == Head(scan[s].todo)
         k == [scan[s] EXCEPT !.pc = "create", !.todo = Tail(@)]
     IN IF dec[t].status = "retired" THEN dec' = [dec EXCEPT ![t] = None] /\ Go(s, IdleScan)
        ELSE IF t \notin quoted
        THEN dec' = [dec EXCEPT ![t] = None] /\ Go(s, [k EXCEPT !.made = @ \ {t}, !.errors = @ \union {t}])
        ELSE dec' = [dec EXCEPT ![t].backed = TRUE] /\ Go(s, k)
  /\ UNCHANGED <<found, quoted, human, caps, events>>
Done(s) ==
  /\ scan[s].pc = "create" /\ scan[s].todo = <<>> /\ Go(s, IdleScan)
  /\ UNCHANGED <<found, quoted, dec, human, caps, events>>
\* The process dies; a row without its evidence stays.
Die(s) ==
  /\ scan[s].pc # "idle" /\ Event /\ Go(s, IdleScan) /\ UNCHANGED <<found, quoted, dec, human, caps>>

Next ==
  \/ Configure
  \/ \E t \in Topics : Confirm(t) \/ Retire(t) \/ Restore(t) \/ Ask(t) \/ Rewrite(t)
  \/ \E s \in Scans :
       \/ Count(s) \/ Know(s) \/ Detect(s) \/ CallModel(s) \/ ModelAnswers(s) \/ Refined(s)
       \/ Insert(s) \/ Gate(s) \/ Done(s) \/ Die(s)
Spec == Init /\ [][Next]_scanVars

-----------------------------------------------------------------------------
(* Properties. *)

\* The queue-flood guard of the docstring: a run creates at most what it may, and
\* lifts the open proposals above the cap only by those others opened meanwhile.
WithinCap == \A s \in Scans : scan'[s].made \ scan[s].made # {} =>
  /\ Cardinality(scan'[s].made) <= scan[s].caps.new
  /\ Cardinality(OpenServer') <= scan[s].caps.open + scan[s].extra
CapKept == [][WithinCap]_scanVars

\* Whatever the cap cuts off is the less urgent part: when a run has made a
\* proposal, it has dealt with every more urgent one it found.
UrgentFirst ==
  \A s \in Scans : \A t \in scan[s].made, u \in scan[s].fresh :
    Rank(u) < Rank(t) => u \in scan[s].made \union scan[s].errors \union scan[s].taken

\* A question put aside is not asked again: only a person brings it back, unless it was
\* put aside before its evidence was there.
AsksNewOnly == \A t \in Topics :
  /\ \A s \in Scans : t \in scan'[s].made \ scan[s].made => dec[t].status = "none"
  /\ dec[t].status = "retired" /\ dec'[t].status # "retired" => dec'[t].status = dec[t].before \/ ~dec[t].backed
NotAskedAgain == [][AsksNewOnly]_scanVars

\* Once the key of the language model is refused, only the calls already on the
\* way end after that: at most Workers - 1 of them (class Run).
RefusalStops == \A s \in Scans : scan[s].late <= Workers - 1
=============================================================================
