--------------------------- MODULE MCDecisionStore ---------------------------
(* Instances of DecisionStore for TLC. *)
EXTENDS DecisionStore, TLC

\* Budgets: how often documents are edited, reviews fall due, calls die and
\* scans run.
Events(e, o, c, s) == [f \in Event |-> CASE f = "edit"    -> e
                                         [] f = "overdue" -> o
                                         [] f = "crash"   -> c
                                         [] f = "scan"    -> s]
EditsReviewScan == Events(2, 1, 0, 1)

EditScan     == Events(1, 0, 0, 1)
CrashScan    == Events(0, 1, 1, 1)

\* Decisions, nonces, contents and requests are interchangeable.
Interchangeable == Permutations(Decision) \cup Permutations(Nonce)
                   \cup Permutations(Hash) \cup Permutations(Call)
=============================================================================
