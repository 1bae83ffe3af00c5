----------------------------- MODULE Answering -----------------------------
(***************************************************************************)
(* One question to the assistant (rag/pipeline.py): search, pack what was    *)
(* found into numbered sources, let the model write with those numbers, and  *)
(* say how far the answer can be trusted (rag/packer.py, trust/engine.py).   *)
(* run_fast_rag answers at once, stream_rag piece by piece.                  *)
(*                                                                          *)
(* The model is the environment: it may say anything, nothing, or fail.  Of  *)
(* a text only this is kept: whether it is blank, declines, is longer than   *)
(* 40 characters, and which [C#] it holds.  Levels are ranks, as in          *)
(* _level_rank.  Prompts, snippets and wording are left out.                 *)
(***************************************************************************)
EXTENDS SequencesExt, Integers

CONSTANTS
  Inquiry,      \* questions: mode, backend, and what the search found
  Says,         \* texts of the model
  ContextBudget, MaxSiblings,
  MaxDeltas     \* bound: pieces of a stream

Weak == 2  Medium == 3  Strong == 4
Levels == [abstain |-> 0, empty |-> 1, weak |-> Weak, medium |-> Medium, strong |-> Strong]

VARIABLES
  asked,    \* the question
  stage,
  packed,   \* the sources C1, C2, ... given to the model
  model,    \* the model's text
  answer,   \* the text of the answer, with what the code adds to it
  llmError,   \* llm_error
  heard,    \* how often the model was asked, or pieces received
  result
answerVars == <<asked, stage, packed, model, answer, llmError, heard, result>>

\* What is kept of a text.
Text == [blank : BOOLEAN, declines : BOOLEAN, long : BOOLEAN, cites : SUBSET Nat]
ASSUME AnswersAssumption ==
  /\ Says \subseteq Text /\ (\A r \in Says : IsFiniteSet(r.cites)) /\ MaxDeltas \in Nat
  /\ \A q \in Inquiry : q.found.trust \in {"empty", "weak", "medium", "strong"}
NoText == [blank |-> TRUE, declines |-> TRUE, long |-> FALSE, cites |-> {}]
NoResult == [level |-> 0, used |-> {}, abstained |-> FALSE, shown |-> "nothing"]
Stream == asked.mode = "stream"
Retrieval == Levels[asked.found.trust]

AnswersInit ==
  /\ asked \in Inquiry /\ stage = "search" /\ packed = <<>> /\ model = NoText /\ answer = NoText
  /\ llmError = "no" /\ heard = 0 /\ result = NoResult

-----------------------------------------------------------------------------
(* _prepare                                                                   *)

\* The other chunks of the found documents that say most.
Siblings(f) ==
  LET best == SortSeq(f.near, LAMBDA a, b : a.score > b.score)
  IN SelectSeq(SubSeq(best, 1, IF Len(best) < MaxSiblings THEN Len(best) ELSE MaxSiblings), LAMBDA c : c.score >= 3)
Current(c) == c.decision = "current"
Enriched(f) == LET all == f.hits \o Siblings(f) IN SelectSeq(all, Current) \o SelectSeq(all, LAMBDA c : ~Current(c))
\* pack_chunks: up to the first that does not fit; the first always does.
Fits(s, n) == FoldLeft(LAMBDA sum, c : sum + c.size, 0, SubSeq(s, 1, n)) <= ContextBudget
Pack(s) == SubSeq(s, 1, Max({n \in 0..Len(s) : n = 1 \/ Fits(s, n)} \intersect 0..Len(s)))

Refuse == [level |-> 0, used |-> {}, abstained |-> TRUE, shown |-> "refusal"]
Prepare ==
  /\ stage = "search"
  /\ LET p == Pack(Enriched(asked.found)) IN
     IF p = <<>> \/ asked.found.trust = "empty"
     THEN stage' = "done" /\ result' = Refuse /\ UNCHANGED packed
     ELSE stage' = (IF Stream THEN "stream" ELSE "ask") /\ packed' = p /\ UNCHANGED result
  /\ UNCHANGED <<asked, model, answer, llmError, heard>>

-----------------------------------------------------------------------------
(* run_fast_rag                                                               *)

Uncited(r) == ~r.blank /\ ~r.declines /\ r.cites = {}
Says1(r) == model' = r /\ answer' = r /\ heard' = heard + 1 /\ UNCHANGED <<asked, packed, llmError, result>>

Complete(r) ==
  /\ stage = "ask" /\ Says1(r)
  /\ stage' = IF r.blank THEN "again" ELSE IF Uncited(r) THEN "rewrite" ELSE "finish"
Again(r) ==
  /\ stage = "again" /\ Says1(r)
  /\ stage' = IF Uncited(r) THEN "rewrite" ELSE "finish"
\* A blank rewrite leaves the first text.
Rewrite(r) ==
  /\ stage = "rewrite" /\ stage' = "finish"
  /\ IF r.blank THEN heard' = heard + 1 /\ UNCHANGED <<asked, packed, model, answer, llmError, result>> ELSE Says1(r)

-----------------------------------------------------------------------------
(* stream_rag                                                                 *)

Joined(text, r) ==
  IF text.blank THEN r
  ELSE [blank |-> FALSE, declines |-> text.declines \/ r.declines, long |-> TRUE, cites |-> text.cites \union r.cites]
Delta(r) ==
  /\ stage = "stream" /\ heard < MaxDeltas /\ ~r.blank
  /\ model' = Joined(model, r) /\ answer' = Joined(model, r) /\ heard' = heard + 1
  /\ UNCHANGED <<asked, stage, packed, llmError, result>>
EndOfStream == stage = "stream" /\ stage' = "finish" /\ UNCHANGED <<asked, packed, model, answer, llmError, heard, result>>

\* LLMChatError: the answer becomes a summary of the snippets.
Fail ==
  /\ stage \in {"ask", "again", "rewrite", "stream"} /\ stage' = "finish" /\ llmError' = "error"
  /\ UNCHANGED <<asked, packed, model, answer, heard, result>>
\* llm_chat.py turns a broken connection into an LLMChatError for Fabrix only.
Break ==
  /\ stage \in {"ask", "again", "rewrite", "stream"} /\ asked.backend = "openrouter" /\ stage' = "broken"
  /\ UNCHANGED <<asked, packed, model, answer, llmError, heard, result>>

-----------------------------------------------------------------------------
(* What the code adds, and _finalize.                                         *)

Listed == 1..(IF Len(packed) < 3 THEN Len(packed) ELSE 3)
MutMarked == Listed
\* The [C#] of the sources appended to an uncited answer: run_fast_rag writes them
\* without brackets.
Marked == IF Stream THEN Listed ELSE {}
Close ==
  /\ stage = "finish" /\ stage' = "finalize"
  /\ llmError' = IF llmError = "no" /\ answer.blank THEN "empty" ELSE llmError
  /\ answer' = IF llmError = "no" /\ Uncited(answer) THEN [answer EXCEPT !.cites = Marked, !.long = TRUE] ELSE answer
  /\ UNCHANGED <<asked, packed, model, heard, result>>

Used == IF llmError # "no" THEN {} ELSE answer.cites \intersect DOMAIN packed
MutVerified(S) == Cardinality(S)
Verified(S) == Cardinality({c \in S : packed[c].eligible})
\* assess_trust
Evidence(n) == IF n >= 2 /\ Len(packed) >= 2 THEN Strong ELSE IF n >= 1 THEN Medium ELSE Weak
Lesser(a, b) == IF a < b THEN a ELSE b
Level(n, faith) ==
  LET l == Lesser(Retrieval, Evidence(n)) IN
  IF Retrieval = Weak /\ Evidence(n) = Weak THEN Levels.abstain
  ELSE IF Used = {} /\ llmError = "no" /\ answer.long THEN Weak
  ELSE IF faith = "weak" /\ l = Strong THEN Medium ELSE l
\* Words in common with the snippets; a blank answer has none to compare.
Faith == IF llmError # "no" THEN {"n/a"} ELSE {"n/a", "ok", "medium", "weak"}
Finalize(faith) ==
  /\ stage = "finalize" /\ stage' = "done" /\ faith \in Faith
  /\ LET level == Level(Verified(Used), faith)
         abstain == level = Levels.abstain
     IN result' = [used |-> Used, abstained |-> abstain,
                   level |-> IF llmError # "no" THEN Lesser(level, Weak) ELSE level,
                   shown |-> IF llmError # "no" THEN "snippets" ELSE IF abstain THEN "sources" ELSE "text"]
  /\ UNCHANGED <<asked, packed, model, answer, llmError, heard>>

AnswersNext ==
  \/ Prepare \/ EndOfStream \/ Fail \/ Break \/ Close
  \/ \E r \in Says : Complete(r) \/ Again(r) \/ Rewrite(r) \/ Delta(r)
  \/ \E f \in {"n/a", "ok", "medium", "weak"} : Finalize(f)
AnswersSpec == AnswersInit /\ [][AnswersNext]_answerVars

-----------------------------------------------------------------------------
(* Properties                                                                 *)

AnswersTypeOK ==
  /\ model \in Text /\ answer \in Text
  /\ stage \in {"search", "ask", "again", "rewrite", "stream", "finish", "finalize", "done", "broken"}
  /\ llmError \in {"no", "empty", "error"} /\ result.level \in 0..4
  /\ result.used \subseteq DOMAIN packed /\ heard \in 0..(MaxDeltas + 3)

Done == stage = "done"
OwnVerified == {c \in model.cites \intersect DOMAIN packed : packed[c].eligible}
\* assess_trust: an answer is called medium only when the model itself cited a source
\* that may serve as evidence, and strong only when it cited two and the search was
\* strong; the text of a model is shown for a weak search only with such a source.
\* Streamed answers without a citation are excepted, see CitesAreTheModels.
TrustIsEarned == Done /\ (~Stream \/ model.cites # {}) =>
  /\ result.level >= Medium => Cardinality(OwnVerified) >= result.level - Weak /\ Retrieval >= result.level
  /\ result.shown = "text" /\ Retrieval = Weak => OwnVerified # {}
\* _finalize: a failed generation claims no citation and is never called more than weak,
\* whatever had been written before it failed.
FailureIsHonest == Done /\ llmError # "no" => result.used = {} /\ result.level <= Weak /\ result.shown = "snippets"
\* rag/pipeline.py: the trust an answer shows is earned by what the model cited, and an
\* answer without the model says so.
AnswersAreEarned == AnswersTypeOK /\ TrustIsEarned /\ FailureIsHonest

\* _prepare: a confirmed decision that stands is the first source the model sees, and no
\* sibling takes the place of a hit of the same standing.
DecisionFirst == packed # <<>> =>
  /\ (\E i \in DOMAIN asked.found.hits : Current(asked.found.hits[i])) => Current(packed[1])
  /\ \A i \in DOMAIN asked.found.hits : \A j \in DOMAIN packed :
       (packed[j].near /\ (Current(asked.found.hits[i]) \/ ~Current(packed[j]))) => \E k \in 1..j : packed[k] = asked.found.hits[i]

\* test_rag_pipeline_citation_repair.py: the citations counted for an answer are the
\* model's own; the list of candidates appended to an uncited one is not counted.
CitesAreTheModels == Done => result.used \subseteq model.cites
=============================================================================
