------------------------------- MODULE Matching -------------------------------
(***************************************************************************)
(* What is like that which was observed.                                     *)
(*                                                                          *)
(* failure_buckets/match.py and match_buckets(): which known patterns of     *)
(* failure fit what was observed.  Each signal of a bucket is judged on its  *)
(* own: it is hit when at least half its words were observed, where words of *)
(* one group of terms (terms.py) count as the same.  Hits and the confidence *)
(* of the bucket make a score, the score a label, and every answer says how  *)
(* many hits a label would have taken.                                       *)
(*                                                                          *)
(* Scores are counted in thirty-thousandths, in which all the weights, the   *)
(* ratios over 1 to 4 and a confidence of three digits are whole.            *)
(*                                                                          *)
(* si/retrieve.py and bundles/match.py: which past incidents are like a      *)
(* symptom, whether what was done then applies, and the advice prepared for  *)
(* it.  A document is the words of its title, its frame and its snippet, and *)
(* what the search of its source type gave it; scores are counted in         *)
(* sixty-thousandths, in which 1/(1 + i) is whole up to the sixth.           *)
(***************************************************************************)
EXTENDS Integers, FiniteSets, Sequences, SequencesExt, FiniteSetsExt

CONSTANTS
  Questions,   \* [kind : "pattern", observed : sets of words, buckets : sequence of buckets, environment, top]
               \* or [kind : "incident", tokens, types, environment, top, docs, trust, bundles]
  Canon,       \* word -> the canonical word of its group of terms
  Forms,       \* word -> the words that count as the same, _TOKEN_EQUIV and itself
  SourceTypes, \* SI_SOURCE_TYPES, in order
  InjectLimit  \* frames of one type that are added to what the search found

VARIABLES question, ranking
matchVars == <<question, ranking>>

Whichever == "any"       \* no filter; a bucket whose environment is not known
Unit == 30000
RatioCap == 4

Words(S) == {Canon[x] : x \in S}
Observed(q) == UNION {Words(S) : S \in q.observed}
Hit(obs, signal) == Words(signal) # {} /\ 2 * Cardinality(Words(signal) \intersect obs) >= Cardinality(Words(signal))
Matched(obs, b)      == {n \in DOMAIN b.signals : Hit(obs, b.signals[n])}
Contradicted(obs, b) == {n \in DOMAIN b.counters : Hit(obs, b.counters[n])}

Least(m, n)  == IF m <= n THEN m ELSE n
Most(m, n)   == IF m >= n THEN m ELSE n
Denominator(b) == Most(1, Least(Len(b.signals), RatioCap))
Confidence(b)  == IF b.confidence = 0 THEN 500 ELSE b.confidence     \* 0 counts as not given
Score(obs, b) ==
  LET hits == Least(Cardinality(Matched(obs, b)), RatioCap)
      score == (18000 * hits) \div Denominator(b) + 12 * Confidence(b) - 15000 * Cardinality(Contradicted(obs, b))
  IN Most(0, Least(Unit, score))
Possible    == 21000
Conditional == 12000
Label(obs, b) ==
  CASE Contradicted(obs, b) # {} -> "advised against"
    [] Contradicted(obs, b) = {} /\ Score(obs, b) >= Possible /\ Matched(obs, b) # {} -> "possible"
    [] Contradicted(obs, b) = {} /\ Score(obs, b) >= Conditional /\ ~(Score(obs, b) >= Possible /\ Matched(obs, b) # {}) -> "conditional"
    [] OTHER -> "advised against"
\* _needed_matches(): the least number of hits that reaches a threshold, or None.
None == 0
MutNeeded(threshold, b) ==     \* mutant: rounded down
  LET n == Most(1, ((threshold - 12 * Confidence(b)) * Denominator(b)) \div 18000) IN IF n <= Denominator(b) THEN n ELSE None
Needed(threshold, b) ==
  LET wanting == (threshold - 12 * Confidence(b)) * Denominator(b)
      n == Most(1, IF wanting <= 0 THEN 1 ELSE (wanting + 17999) \div 18000)
  IN IF n <= Denominator(b) THEN n ELSE None

\* Stable, the highest key first: keyed holds <<key, position, value>>.
Sorted(keyed) == SortSeq(keyed, LAMBDA x, y : x[1] > y[1] \/ (x[1] = y[1] /\ x[2] < y[2]))
Values(keyed) == [k \in DOMAIN keyed |-> keyed[k][3]]

\* match_buckets(): active buckets of the domain and environment, the best first.
Fits(q, b) == b.status = "active" /\ (q.environment = Whichever \/ b.environment \in {q.environment, Whichever})
Shown(obs, b) == [id |-> b.id, label |-> Label(obs, b), confidence |-> (Score(obs, b) + 15) \div 30,
                  matched |-> Cardinality(Matched(obs, b)), contradicted |-> Cardinality(Contradicted(obs, b)),
                  forConditional |-> Needed(Conditional, b), forPossible |-> Needed(Possible, b)]
Ranked(q) ==
  LET fit == SelectSeq(q.buckets, LAMBDA b : Fits(q, b))
      row(n) == LET r == Shown(Observed(q), fit[n]) IN <<r.confidence, n, r>>
  IN Values(SubSeq(Sorted([n \in DOMAIN fit |-> row(n)]), 1, Least(q.top, Len(fit))))

-----------------------------------------------------------------------------
(* similar_incidents(); a place is a word, or not known. *)

Nowhere == 0
Records(q)  == DOMAIN q.docs
NoFrame  == [quality |-> -1, words |-> {}, components |-> {}, cause |-> FALSE, resolution |-> FALSE, environment |-> Nowhere]
Framed(d) == d.frame # NoFrame
Types(q) == SelectSeq(SourceTypes, LAMBDA t : q.types = {} \/ t \in q.types)
Refused(q) == q.types \ ToSet(SourceTypes) # {}      \* ValueError, told as 422
Named(q, words) == Cardinality({n \in DOMAIN q.tokens : Forms[q.tokens[n]] \intersect words # {}})

\* The searches' hits, in one order of scores; a sort that keeps the order of equals.
MutByScore(q, s) == s      \* mutant: one type after the other
ByScore(q, s) == Values(Sorted([k \in DOMAIN s |-> <<q.docs[s[k]].hit, k, s[k]>>]))
Active(q, t) == {d \in Records(q) : q.docs[d].type = t /\ q.docs[d].active}
Found(q, t) == SetToSortSeq({d \in Active(q, t) : q.docs[d].hit > 0}, LAMBDA x, y : q.docs[x].hit > q.docs[y].hit \/ (q.docs[x].hit = q.docs[y].hit /\ x < y))
Hits(q) == ByScore(q, FlattenSeq([k \in DOMAIN Types(q) |-> Found(q, Types(q)[k])]))
\* Frames of quality 0.45 and more that hold a word of the question, the best of each type.
Injectable(q, t) == {d \in Active(q, t) : q.docs[d].frame.quality >= 45 /\ Named(q, q.docs[d].frame.words \union q.docs[d].title) > 0}
Injected(q, t) ==
  LET s == SetToSortSeq(Injectable(q, t), LAMBDA x, y : q.docs[x].frame.quality > q.docs[y].frame.quality \/ (q.docs[x].frame.quality = q.docs[y].frame.quality /\ x < y))
  IN SelectSeq(SubSeq(s, 1, Least(InjectLimit, Len(s))), LAMBDA d : d \notin ToSet(Hits(q)))
Candidates(q) == Hits(q) \o FlattenSeq([k \in DOMAIN Types(q) |-> Injected(q, Types(q)[k])])

Blob(d) == d.title \union (IF d.hit > 0 THEN d.snippet ELSE {}) \union d.frame.words \union d.frame.components
TextBoost(n)     == IF n >= 3 THEN 33000 + 3000 * Least(n - 3, 4) ELSE 7200 * n
TitleBoost(q, d) == LET n == Named(q, d.title) IN IF d.title # {} /\ n = Len(q.tokens) /\ n >= 2 THEN 90000 ELSE 15000 * n
Site(d) == IF Framed(d) /\ d.frame.environment # Nowhere THEN d.frame.environment ELSE d.environment
SiteBoost(q, d) == IF Nowhere \in {q.environment, Site(d)} THEN 0 ELSE IF q.environment = Site(d) THEN 9000 ELSE -18000
FrameBoost(d) == IF Framed(d) THEN 210 * d.frame.quality + (IF d.frame.cause /\ d.frame.resolution THEN 12000 ELSE 0) ELSE 0
Likeness(q, d, i) ==      \* of the i-th candidate
  (IF d.hit > 0 THEN 60000 \div i ELSE 3000) + FrameBoost(d) + TextBoost(Named(q, Blob(d))) + SiteBoost(q, d) + TitleBoost(q, d)

\* _applicability(); here words of the question count only as they are written.
Advice(q, d) ==
  LET words   == ToSet(q.tokens)
      hits    == Cardinality({n \in DOMAIN q.tokens : q.tokens[n] \in Blob(d)})
      overlap == Most(Cardinality(d.frame.components \intersect words), Least(hits, 3))
      quality == IF Framed(d) THEN d.frame.quality ELSE 10
      score   == Least(10000, 2000 + 1500 * Least(overlap, 3) + 25 * Least(quality, 100) + (IF d.frame.resolution THEN 2000 ELSE 0)
                              + (IF Site(d) \in words THEN 1000 ELSE 0) + (IF hits >= 3 THEN 1000 ELSE 0))
  IN CASE ~d.frame.resolution \/ quality < 25 -> "abstain"
       [] d.frame.resolution /\ quality >= 25 /\ score >= 7000 /\ (overlap >= 1 \/ hits >= 2) -> "possible"
       [] d.frame.resolution /\ quality >= 25 /\ score >= 4500 /\ ~(score >= 7000 /\ (overlap >= 1 \/ hits >= 2)) -> "conditional"
       [] OTHER -> "advised against"
Case(q, d) == [doc |-> d, advice |-> Advice(q, q.docs[d]), bare |-> ~Framed(q.docs[d]),
               cause |-> q.docs[d].frame.cause, resolution |-> q.docs[d].frame.resolution]
Cases(q, c) == LET scored == Sorted([i \in DOMAIN c |-> <<Likeness(q, q.docs[c[i]], i), i, c[i]>>])
               IN [k \in 1..Least(q.top, Len(c)) |-> Case(q, scored[k][3])]
\* match_bundles(): two of the bundles whose hints or components the question names.
BundleScore(q, b) == 40 * Cardinality(b.hints \intersect ToSet(q.tokens)) + 25 * Cardinality(b.components \intersect ToSet(q.tokens))
Bundles(q) ==
  LET named == SelectSeq([k \in DOMAIN q.bundles |-> <<BundleScore(q, q.bundles[k]), k, k>>], LAMBDA b : b[1] > 0)
  IN Values(SubSeq(Sorted(named), 1, Least(2, Len(named))))
Trust == <<"weak", "medium", "strong">>
Similar(q, c) ==      \* c its cases
  LET ranks == {n \in DOMAIN Trust : Trust[n] \in {q.trust[t] : t \in ToSet(Types(q))}} IN
  [cases |-> c, actions |-> SelectSeq(SubSeq(c, 1, Least(2, Len(c))), LAMBDA k : k.resolution),
   trust |-> IF ranks = {} THEN "empty" ELSE Trust[Max(ranks)], bundles |-> Bundles(q)]

-----------------------------------------------------------------------------
Init == question \in Questions /\ ranking = <<>>
Rank     == question.kind = "pattern"  /\ ranking = <<>> /\ ranking' = << Ranked(question) >> /\ UNCHANGED question
Refusal == [cases |-> <<>>, actions |-> <<>>, trust |-> "refused", bundles |-> <<>>]
Retrieve ==
  /\ question.kind = "incident" /\ ranking = <<>> /\ UNCHANGED question
  /\ \/ Refused(question) /\ ranking' = <<Refusal>>
     \/ ~Refused(question) /\ \E c \in {Candidates(question)} : \E cases \in {Cases(question, c)} : ranking' = <<Similar(question, cases)>>
Next == Rank \/ Retrieve
Spec == Init /\ [][Next]_matchVars

-----------------------------------------------------------------------------
(* Properties. *)

Answered == ranking # <<>>
Rows == {ranking[1][k] : k \in DOMAIN ranking[1]}
Bucket(id) == CHOOSE b \in {question.buckets[n] : n \in DOMAIN question.buckets} : b.id = id
Better(label) == CASE label = "possible" -> 2 [] label = "conditional" -> 1 [] OTHER -> 0

\* label_basis: an uncontradicted bucket with a hit has a label exactly when it has as
\* many hits as the answer says that label takes.
BasisIsTrue == \A r \in Rows : r.contradicted = 0 /\ r.matched > 0 =>
  LET hits == Least(r.matched, RatioCap) IN
  /\ r.label = "possible" <=> (r.forPossible # None /\ hits >= r.forPossible)
  /\ Better(r.label) >= 1 <=> (r.forConditional # None /\ hits >= r.forConditional)
\* Seeing more never lowers a label, unless it meets a counter-signal; and a bucket
\* that is contradicted or has no hit is never called possible.
MoreNeverLowers == \A r \in Rows, x \in DOMAIN Canon :
  LET more == Observed(question) \union {Canon[x]}
      b == Bucket(r.id)
  IN /\ Contradicted(more, b) = {} => Better(Label(more, b)) >= Better(r.label) /\ Score(more, b) >= Score(Observed(question), b)
     /\ r.label = "possible" => r.contradicted = 0 /\ r.matched > 0
\* A pattern is known again from its own signals, in whichever words of a group.
KnowsItself == \A n \in DOMAIN question.buckets :
  LET b == question.buckets[n]
      own == UNION {Words(b.signals[k]) : k \in DOMAIN b.signals}
  IN /\ \A k \in DOMAIN b.signals : b.signals[k] # {} => k \in Matched(own, b)
     /\ (\A k \in DOMAIN b.signals : b.signals[k] # {}) /\ b.signals # <<>> /\ Contradicted(own, b) = {} /\ Confidence(b) >= 250 => Label(own, b) = "possible"
\* Of the buckets that fit, none left out has a higher score than one shown.
BestShown ==
  /\ \A r \in Rows : Fits(question, Bucket(r.id))
  /\ \A j, k \in DOMAIN ranking[1] : j < k => ranking[1][j].confidence >= ranking[1][k].confidence /\ ranking[1][j].id # ranking[1][k].id
  /\ \A n \in DOMAIN question.buckets : LET b == question.buckets[n] IN
       Fits(question, b) => \/ \E r \in Rows : r.id = b.id
                            \/ Len(ranking[1]) = question.top /\ \A r \in Rows : 30 * r.confidence + 15 >= Score(Observed(question), b)
MatchFits == Answered /\ question.kind = "pattern" => BasisIsTrue /\ MoreNeverLowers /\ KnowsItself /\ BestShown

\* si/retrieve.py: of the past incidents.
Answer == ranking[1]
At(d)  == IF \E k \in DOMAIN Answer.cases : Answer.cases[k].doc = d THEN CHOOSE k \in DOMAIN Answer.cases : Answer.cases[k].doc = d ELSE question.top + 1
\* e is in no respect behind d, and the search, whichever type's, put it before d.
Fit(d) == IF Nowhere \in {question.environment, Site(d)} THEN 0 ELSE IF question.environment = Site(d) THEN 1 ELSE -1
Ahead(e, d) ==
  /\ e.hit > d.hit /\ e.frame.quality >= d.frame.quality /\ Fit(e) >= Fit(d)
  /\ d.frame.cause /\ d.frame.resolution => e.frame.cause /\ e.frame.resolution
  /\ \A n \in DOMAIN question.tokens : LET forms == Forms[question.tokens[n]] IN
       (forms \intersect d.title # {} => forms \intersect e.title # {}) /\ (forms \intersect Blob(d) # {} => forms \intersect Blob(e) # {})
\* Two source types are one ranking: what is ahead in every respect is shown before.
OneRanking == \A d, e \in ToSet(Candidates(question)) : Ahead(question.docs[e], question.docs[d]) => At(e) <= At(d)
\* A good frame with a word of the question is a candidate, however the search ranked
\* it, unless InjectLimit frames of its own type, as good or better, are: no type
\* crowds out the other.
NotCrowdedOut == \A t \in ToSet(Types(question)) : \A d \in Injectable(question, t) \ ToSet(Candidates(question)) :
  Cardinality({e \in ToSet(Candidates(question)) : question.docs[e].type = t /\ question.docs[e].frame.quality >= question.docs[d].frame.quality}) >= InjectLimit
\* Advice is only taken from what was done: nothing is applicable without a resolution
\* on record, better records of a case never lower it, and no action is quoted of a case
\* that has none.
Rated(advice) == CASE advice = "possible" -> 3 [] advice = "conditional" -> 2 [] advice = "advised against" -> 1 [] OTHER -> 0
AdviceEarned ==
  /\ \A k \in DOMAIN Answer.cases : LET c == Answer.cases[k]  d == question.docs[c.doc] IN
       /\ c.bare => c.advice = "abstain" /\ ~c.cause
       /\ ~c.bare => \A better \in {[d EXCEPT !.frame.quality = @ + 10], [d EXCEPT !.frame.words = @ \union ToSet(question.tokens)], [d EXCEPT !.frame.resolution = TRUE]} :
            Rated(Advice(question, better)) >= Rated(c.advice)
  /\ \A k \in DOMAIN Answer.actions : Rated(Answer.actions[k].advice) = 0 => question.docs[Answer.actions[k].doc].frame.quality < 25
\* Only active documents of the types that were asked for, each once, and none where the
\* type is not one of them.
WithinTypes == \A j, k \in DOMAIN Answer.cases : LET d == question.docs[Answer.cases[k].doc] IN
  /\ d.active /\ d.type \in ToSet(Types(question)) /\ ~Refused(question)
  /\ j # k => Answer.cases[j].doc # Answer.cases[k].doc
\* si/retrieve.py: the four together.
SimilarFits == Answered /\ question.kind = "incident" => OneRanking /\ NotCrowdedOut /\ AdviceEarned /\ WithinTypes
=============================================================================
