------------------------------ MODULE MCMapSync ------------------------------
(* Instances of MapSync for TLC. *)
EXTENDS MapSync, TLC

CONSTANTS s1, s2, r1, r2

\* One source with two pages under its first root and one under its second.
OneSource == [r \in {r1, r2} |-> s1]
TwoRoots  == (1 :> r1) @@ (2 :> r1) @@ (3 :> r2)
NoSeeds   == [s \in {s1} |-> {}]

\* Two sources of one root and one page each; page 3 is an explicit page of
\* the first, under no root.
TwoSources == (r1 :> s1) @@ (r2 :> s2)
LoneSeed   == (1 :> r1) @@ (2 :> r2) @@ (3 :> None)
OneSeed    == (s1 :> {3}) @@ (s2 :> {})

\* The calls.
Full      == FullSync
CrawlOnly == [Full EXCEPT !.ingest = FALSE]
DryFull   == [Full EXCEPT !.dry = TRUE]
OneRoot   == [Full EXCEPT !.only = r1, !.limit = 1]
FirstOnly == [Full EXCEPT !.sources = {s1}]

FullCalls    == {Full}
DryCalls     == {Full, DryFull}
MixedCalls   == {Full, CrawlOnly, OneRoot, FirstOnly}
RealInv      == {[dry |-> FALSE, ingest |-> TRUE]}
NoInv        == {}

\* Budgets: which faults may happen, once each.
Once(F)      == [f \in Fault |-> IF f \in F THEN 1 ELSE 0]
CrawlFaults  == Once({"page", "search", "delete"})
LateFaults   == Once({"ingest", "page", "crash"})
IngestFault  == Once({"ingest"})
DeleteFault  == Once({"delete"})
=============================================================================
