------------------------------- MODULE Search -------------------------------
(***************************************************************************)
(* One search (retrieval/search.py, fusion.py) and the merge of several      *)
(* (multi_query.py), from the request (routers/search.py, and the two of     *)
(* external_compat.py) over the matches in PostgreSQL to the page of hits.   *)
(*                                                                          *)
(* A text is the variants and the other questions the code makes of it, in   *)
(* order, and what the database would answer about it: the rank of each      *)
(* matching chunk and expansion, the chunks whose title or header holds a    *)
(* variant or an identifier, the chunks as the vector index returns them     *)
(* (none where no embedding was to be had).  Chunks are numbered by id.      *)
(* Scores are millionths, weights hundredths.  The fields of a hit that are  *)
(* only shown are left out.                                                  *)
(***************************************************************************)
EXTENDS SequencesExt, Integers

CONSTANTS
  Doc,         \* documents: a function from numbers to records
  Questions,   \* requests: the way in, multi_query, audit, the documents the cached lists
               \* of source types and domains were made of, and searches: [q, kind]
  Sources, Alias, Section,   \* KNOWN_SOURCE_TYPES, SOURCE_TYPE_ALIASES, _SECTION_MAP
  Spellings, Lower,          \* the ways to write a domain, sorted, and each in small letters
  FtsLimit, VecLimit, PromoteLimit, LikeLimit, MaxQueries,
  ExpansionWeight    \* SEARCH_DOC_EXPANSION_WEIGHT, 0 where the branch is off

VARIABLES
  question,    \* the request
  pages,       \* what its searches answered so far, one after the other
  answer,
  logged       \* a row of the request among the queries (audit/log.py)
searchVars == <<question, pages, answer, logged>>

Score(x) == 1000000 * x
DocOf(q, c) == Doc[q.chunks[c]]
Chunks(q) == DOMAIN q.chunks
Top(s) == Max({s[c] : c \in DOMAIN s})

-----------------------------------------------------------------------------
(* Candidates.                                                                *)

\* Unless the caller says, rows of the map that are not technical are left out,
\* but where the map is what is asked for.
ShowsMaps(f) == f.maps = "yes" \/ (f.maps = "unset" /\ f.source = "map")
Allowed(f, d) ==
  /\ d.status \in IF f.superseded /\ f.status = "active" THEN {"active", "superseded"} ELSE {f.status}
  /\ f.source # "any" => d.source = f.source
  /\ f.domain # "any" => d.domain = f.domain
  /\ f.fields \subseteq d.fields    \* environment, work type, path
  /\ d.ext \notin f.pages /\ d.source \notin f.sources
  /\ d.ext \notin f.trees /\ d.above \intersect f.trees = {}
  /\ ShowsMaps(f) \/ d.source # "map" \/ d.tech
Restricted(f) == f.source = "checkitem" \/ f.domain # "any"
Eligible(q) == {c \in Chunks(q) : Allowed(q.filter, DocOf(q, c))}
Limited(s, n) == SubSeq(s, 1, IF Len(s) < n THEN Len(s) ELSE n)
ByScore(S, s) == SetToSortSeq(S, LAMBDA a, b : s[a] > s[b] \/ (s[a] = s[b] /\ a < b))

\* `scored' is a dictionary: chunks keep the order in which they came in.
\* build_fts_variants: the code of all Linux check items is a variant only where the
\* request is not restricted to such things.  _variant_weight; rare ones count in full.
WeightOf == [code |-> 140, fs |-> 130, phrase |-> 100, word |-> 55, common |-> 25]
Weight(v) == IF v.rare THEN 100 ELSE WeightOf[v.kind]
Variants(q) == SelectSeq(q.variants, LAMBDA v : v.kind = "code" => ~Restricted(q.filter))

NoneScored(q) == [keys |-> <<>>, score |-> [c \in Chunks(q) |-> 0]]
Credited(t, c, x) == [keys |-> IF c \in Range(t.keys) THEN t.keys ELSE Append(t.keys, c), score |-> [t.score EXCEPT ![c] = x]]
Added(scored, contrib) == IF contrib > scored THEN contrib ELSE scored + (15 * (contrib \div 100))

\* fts_search: the best contribution of any variant and a little of the others; a
\* variant of rare words that finds few chunks is placed above all.
Matching(q, v) == Limited(ByScore({c \in Eligible(q) : v.rank[c] > 0}, v.rank), FtsLimit)
Selective(v, hits) == v.rare /\ Len(hits) < FtsLimit
Contribution(v, hits, c) == (Weight(v) * v.rank[c] * 10000) + IF Selective(v, hits) THEN Score(1000) ELSE 0
Body(q, t, v) == LET hits == Matching(q, v) IN
  FoldLeft(LAMBDA u, c : Credited(u, c, Added(u.score[c], Contribution(v, hits, c))), t, hits)
Bodies(q) == FoldLeft(LAMBDA t, v : Body(q, t, v), NoneScored(q), Variants(q))

\* The expansions of documents, where they are not stale, for the first variants;
\* each credits the first chunk of its document by place.
Expanded(q, v) ==
  Limited(ByScore({d \in DOMAIN Doc : Allowed(q.filter, Doc[d]) /\ Doc[d].fresh /\ v.expansion[d] > 0}, v.expansion), FtsLimit)
Representative(q, d) == CHOOSE c \in Chunks(q) : q.chunks[c] = d /\ c \in q.first
ExpansionOf(q, t, v) == FoldLeft(
  LAMBDA u, d : LET c == Representative(q, d) IN Credited(u, c, Added(u.score[c], ExpansionWeight * Weight(v) * v.expansion[d] * 100)),
  t, SelectSeq(Expanded(q, v), LAMBDA d : d \in Range(q.chunks)))
Expansions(q) == FoldLeft(
  LAMBDA t, v : IF ExpansionWeight > 0 THEN ExpansionOf(q, t, v) ELSE t,
  Bodies(q), Limited(SelectSeq(Variants(q), LAMBDA v : ~v.rare), 4))

\* The phrases, not the whole question and no synonym, that a title, a header or an id
\* holds.
Phrases(q) == Limited(SelectSeq(Variants(q), LAMBDA v : ~v.rare /\ ~v.whole /\ ~v.synonym /\ Weight(v) >= 100), 6)
Phrase(q, t, term) == LET list == Limited(SetToSortSeq(term \intersect Eligible(q), <), LikeLimit) IN
  FoldLeft(LAMBDA u, i : Credited(u, list[i], u.score[list[i]] + (80000 \div i)), t, [i \in DOMAIN list |-> i])
FtsScores(q) == FoldLeft(LAMBDA t, v : Phrase(q, t, v.like), Expansions(q), Phrases(q))
Fts(t) ==
  LET order == SetToSortSeq(DOMAIN t.keys, LAMBDA i, j : LET a == t.score[t.keys[i]] b == t.score[t.keys[j]] IN a > b \/ (a = b /\ i < j))
  IN Limited([i \in DOMAIN order |-> t.keys[order[i]]], FtsLimit)
Vec(q) == Limited(SelectSeq(q.near, LAMBDA c : c \in Eligible(q)), VecLimit)

\* A title that holds every word of the question.
Titled(q, c) == q.chunks[c] \in q.titled
\* hybrid_search: chunks found by title, then by each identifier, go to the front of
\* the list one by one, each before the last.
InFront(S, list) ==
  Reverse(SelectSeq(Limited(SetToSortSeq(S, <), PromoteLimit), LAMBDA c : c \notin Range(list))) \o list
Promoted(q, fts) ==
  FoldLeft(LAMBDA list, token : InFront(token.named \intersect Eligible(q), list),
    InFront(IF q.words > 1 THEN {c \in Eligible(q) : Titled(q, c)} ELSE {}, fts), q.exact)

-----------------------------------------------------------------------------
(* Scores.                                                                    *)

\* reciprocal_rank_fusion; a question for check items trusts words more.
Share(list, w, c) == IF c \in Range(list) THEN (w * 10000) \div (60 + IndexFirstSubSeq(<<c>>, list)) ELSE 0
Fused(q, fts, vec) == [c \in Range(fts) \union Range(vec) |->
  Share(fts, IF q.items THEN 135 ELSE 100, c) + Share(vec, IF q.items THEN 55 ELSE 100, c)]
ItemBonus(q, s) == [c \in DOMAIN s |-> IF ~q.items THEN s[c] ELSE
  s[c] + (IF DocOf(q, c).source = "checkitem" THEN 20000 ELSE 0)
       + IF DocOf(q, c).linux /\ q.linux /\ ~Restricted(q.filter) THEN 15000 ELSE 0]
YearBonus(q, s) == [c \in DOMAIN s |->
  IF DocOf(q, c).source = "support_history" /\ DocOf(q, c).year \in q.years THEN s[c] + (15 * Top(s)) \div 100 ELSE s[c]]
\* title_match_bonus
BonusOf(top) == LET b == Max({(12 * top) \div 10, 50000}) IN IF b < 250000 THEN b ELSE 250000
TitleBonus(q, s) == [c \in DOMAIN s |-> IF q.words > 1 /\ Titled(q, c) THEN s[c] + BonusOf(Top(s)) ELSE s[c]]
\* Rows of the map are pointers, not evidence, unless there is nothing else.
IsPointer(q, c) == DocOf(q, c).source = "map"
Spared(q, s) == q.filter.source = "map" \/ \A c \in DOMAIN s : IsPointer(q, c)
Demoted(q, s) == [c \in DOMAIN s |-> IF IsPointer(q, c) /\ ~Spared(q, s) THEN (q.pointer * s[c]) \div 100 ELSE s[c]]
Confirmed(q, c) == DocOf(q, c).source = "confirmed_decision" /\ DocOf(q, c).decided = "confirmed" /\ ~DocOf(q, c).recheck
Raised(q, s) == [c \in DOMAIN s |-> IF Confirmed(q, c) THEN (15 * s[c]) \div 10 ELSE s[c]]
\* apply_exact_boost: once for each identifier the row holds.
Held(q, c) == Cardinality({i \in DOMAIN q.exact : c \in q.exact[i].named \union q.exact[i].inside})
Boosted(q, s) == [c \in DOMAIN s |-> s[c] + (150000 * Held(q, c))]
ScoresOf(q, fts, vec) == Boosted(q, Raised(q, Demoted(q, TitleBonus(q, YearBonus(q, ItemBonus(q, Fused(q, fts, vec)))))))

-----------------------------------------------------------------------------
(* The page of hits.                                                          *)

Before(q, s, a, b) ==
  \/ s[a] > s[b]
  \/ s[a] = s[b] /\ (q.chunks[a] < q.chunks[b] \/ (q.chunks[a] = q.chunks[b] /\ a < b))
\* quality_gate
Gated(q, s) ==
  LET ordered == SetToSortSeq(DOMAIN s, LAMBDA a, b : Before(q, s, a, b)) IN
  IF ordered = <<>> \/ s[ordered[1]] < 12000 THEN <<>> ELSE Limited(ordered, 5 * q.top)
\* seen_docs
Unique(q, list) == FoldLeft(
  LAMBDA kept, c : IF \E i \in DOMAIN kept : q.chunks[kept[i]] = q.chunks[c] THEN kept ELSE Append(kept, c), <<>>, list)
\* collapse_map_copies: 0 is a title too short to tell copies by.
NoKey == 0
Heads(list, key) == FoldLeft(
  LAMBDA kept, x : IF key[x] # NoKey /\ \E i \in DOMAIN kept : key[kept[i]] = key[x] THEN kept ELSE Append(kept, x), <<>>, list)
Folded(list, x, key, count) ==
  count[x] + FoldLeft(LAMBDA n, y : IF y # x /\ key[x] # NoKey /\ key[y] = key[x] THEN n + 1 + count[y] ELSE n, 0, list)
CopyKey(q, c) == IF q.filter.copies /\ DocOf(q, c).source = "map" THEN DocOf(q, c).key ELSE NoKey
CopyKeys(q) == [c \in Chunks(q) |-> CopyKey(q, c)]
MutDistinct(q, list) == Heads(list, CopyKeys(q))
Distinct(q, list) == Heads(Unique(q, list), CopyKeys(q))
Hit(q, s, fts, c, list) == [chunk |-> c, doc |-> q.chunks[c], score |-> s[c], first |-> fts # <<>> /\ fts[1] = c,
  copies |-> Folded(list, c, CopyKeys(q), [x \in Chunks(q) |-> 0])]
\* lexical_supported: in the full-text list, or a word of the question in what is shown.
Supported(q, fts, c) == c \in Range(fts) \/ q.words = 0 \/ Titled(q, c) \/ c \in q.worded
Empty(g) == [status |-> 200, hits |-> <<>>, total |-> 0, gated |-> g, trust |-> "empty"]
\* retrieval_trust: the first place among the words lifts by one step only.
Trust(hits) ==
  IF hits = <<>> THEN "empty"
  ELSE IF hits[1].score >= 50000 THEN "strong"
  ELSE IF hits[1].score < 20000 THEN "weak"
  ELSE IF hits[1].first THEN "strong" ELSE "medium"
\* check_query_identifiers: `missing' when no identifier of the question exists.
Adjusted(q, trust) == IF q.missing /\ trust \in {"strong", "medium"} THEN "weak" ELSE trust
Hybrid(q, fts, s) ==
  LET list == Gated(q, s)
      unique == Unique(q, list)
      distinct == Distinct(q, list)
      page == Limited(distinct, q.top)
  IN IF page = <<>> \/ \A i \in DOMAIN page : ~Supported(q, fts, page[i]) THEN Empty(DOMAIN s # {})
     ELSE LET hits == [i \in DOMAIN page |-> Hit(q, s, fts, page[i], unique)]
          IN [status |-> 200, hits |-> hits, total |-> Len(distinct), gated |-> FALSE, trust |-> Adjusted(q, Trust(hits))]

-----------------------------------------------------------------------------
(* The request, before it searches.                                           *)

\* filter_args.py: an alias is replaced by what it stands for, a domain by its first
\* stored spelling; the lists of both are up to five minutes old.  /api/wiki/search has
\* names of its own, and /v1/external/search takes what it is given.
Refused == "refused"
Types == Sources \union {Doc[d].source : d \in question.known}
Named(s) ==
  IF s = "any" \/ question.way = "external" THEN s
  ELSE IF question.way = "wiki" /\ s \in DOMAIN Section THEN Section[s]
  ELSE IF s \in Types THEN s
  ELSE IF s \in DOMAIN Alias THEN Alias[s] ELSE Refused
Stored(s) == SelectSeq(Spellings, LAMBDA n : Lower[n] = Lower[s] /\ \E d \in question.known : Doc[d].status = "active" /\ Doc[d].domain = n)
Spelled(s) == IF s = "any" \/ question.way = "external" \/ Stored(s) = <<>> THEN s ELSE Stored(s)[1]
Normal(q) == [q EXCEPT !.filter.source = Named(@), !.filter.domain = Spelled(@), !.filter.sources = {Named(s) : s \in @}]
Invalid(q) == Refused \in {Normal(q).filter.source} \union Normal(q).filter.sources

-----------------------------------------------------------------------------
(* multi_hybrid_search: the best weighted hit per external id.                *)

\* expand_queries: the question, without its shell, identifiers, phrases, names, then
\* variants; a common word is no question by itself.
Asked(x) == x.kind # "common"
\* _query_weight
QueryWeight == [own |-> 100, id |-> 115, faq |-> 110, long |-> 95, pair |-> 85, single |-> 55]
\* The question's own words are worth more where the title names the topic they name.
Weighted(h, x) == LET s == (QueryWeight[x.kind] * h.score) \div 100 IN
  [h EXCEPT !.score = IF x.kind = "own" /\ Doc[h.doc].az THEN (115 * s) \div 100 ELSE s]
Ext(h) == Doc[h.doc].ext
Better(x, y) == x.score > y.score
Kept(best, h) ==
  LET same == {i \in DOMAIN best : Ext(best[i]) = Ext(h)} IN
  IF same = {} THEN Append(best, h)
  ELSE [i \in DOMAIN best |-> IF i \in same /\ Better(h, best[i]) THEN h ELSE best[i]]
Searches == IF question.multi THEN Limited(SelectSeq(question.searches, Asked), MaxQueries) ELSE SubSeq(question.searches, 1, 1)
Sought(i) == Normal(Searches[i].q)
AllHits == FoldLeft(LAMBDA all, i : all \o [k \in DOMAIN pages[i].hits |-> Weighted(pages[i].hits[k], Searches[i])],
  <<>>, [i \in DOMAIN Searches |-> i])
HitKey(h) == IF Doc[h.doc].source = "map" THEN Doc[h.doc].key ELSE NoKey
Multi(q) ==
  LET best == FoldLeft(Kept, <<>>, AllHits)
      merged == SetToSortSeq(Range(best), LAMBDA a, b : a.score > b.score \/ (a.score = b.score /\ a.doc < b.doc))
      key == [h \in Range(merged) |-> HitKey(h)]
      count == [h \in Range(merged) |-> h.copies]
      heads == IF q.filter.copies THEN Heads(merged, key) ELSE merged
      counted == [i \in DOMAIN heads |-> IF ~q.filter.copies THEN heads[i] ELSE
                    [heads[i] EXCEPT !.copies = Folded(merged, heads[i], key, count)]]
      page == Limited(counted, q.top)
  IN [status |-> 200, hits |-> page, total |-> Len(heads), gated |-> page = <<>>, trust |-> Adjusted(q, Trust(page))]

\* A request is one search, or those it was rewritten to, the question itself first.
NoAnswer == [status |-> 0, hits |-> <<>>, total |-> -1, gated |-> FALSE, trust |-> "empty"]
Init == question \in Questions /\ pages = <<>> /\ answer = NoAnswer /\ logged = FALSE
Waits == answer = NoAnswer
Fails(status) == answer' = [NoAnswer EXCEPT !.status = status] /\ UNCHANGED <<question, pages, logged>>
\* A source type that nobody knows (400), and anything that goes wrong (500).
Refuse == Waits /\ pages = <<>> /\ Invalid(question.searches[1].q) /\ Fails(400)
Break == Waits /\ ~Invalid(question.searches[1].q) /\ Fails(500)
Seek ==
  /\ Waits /\ ~Invalid(question.searches[1].q) /\ Len(pages) < Len(Searches)
  /\ \E q \in {Sought(Len(pages) + 1)} : \E t \in {FtsScores(q)} : \E fts \in {Promoted(q, Fts(t))}, vec \in {Vec(q)} :
       \E s \in {ScoresOf(q, fts, vec)} : pages' = Append(pages, Hybrid(q, fts, s))
  /\ UNCHANGED <<question, answer, logged>>
\* The row is written when the caller asks for it; that it could not be is no error.
Answer ==
  /\ Waits /\ Len(pages) = Len(Searches)
  /\ answer' = IF question.multi THEN Multi(Sought(1)) ELSE pages[1]
  /\ logged' \in {FALSE, question.audit} /\ UNCHANGED <<question, pages>>
Next == Refuse \/ Break \/ Seek \/ Answer
Spec == Init /\ [][Next]_searchVars

-----------------------------------------------------------------------------
(* Properties: of an answer to one search, and to several.                    *)

Answered == answer.status = 200
Single == Answered /\ ~question.multi
Whole == {Sought(1)}    \* the question itself
Listed(q) == {Promoted(q, Fts(t)) : t \in {FtsScores(q)}}
Hits == answer.hits

\* _RARE_AND_BASE: a chunk that a selective variant of rare words finds comes before
\* every chunk that none finds.
Rarely(q, c) == \E i \in DOMAIN Variants(q) : LET v == Variants(q)[i] IN
  v.rare /\ v.rank[c] > 0 /\ Cardinality({d \in Eligible(q) : v.rank[d] > 0}) < FtsLimit
RareAhead == Single => \A q \in Whole : \A t \in {FtsScores(q)} : \A f \in {Fts(t)} :
  \A i, j \in DOMAIN f : Rarely(q, f[j]) /\ ~Rarely(q, f[i]) => j < i

\* title_match_bonus: unless an identifier or a confirmed decision competes, a
\* document whose title holds every word of the question comes first, a pointer too.
TitleFirst == Single /\ Hits # <<>> =>
  \A q \in Whole : q.words > 1 /\ q.exact = <<>> =>
    \A fts \in Listed(q) : \A found \in {Range(fts) \union Range(Vec(q))} :
      (\E c \in found : Titled(q, c)) /\ (\A c \in found : ~Confirmed(q, c)) => Hits[1].doc \in q.titled

\* The page holds what a caller is promised: one hit per document, its best chunk, no
\* later copy of a page before it, best first, none the filter excludes, and nothing
\* better among the first 5 * top_k candidates left out.
SameAs(q, c, d) == q.chunks[d] = q.chunks[c] \/ (CopyKey(q, c) # NoKey /\ CopyKey(q, d) = CopyKey(q, c))
Leaders(q, s) == {c \in DOMAIN s :
  /\ Cardinality({d \in DOMAIN s : Before(q, s, d, c)}) < 5 * q.top
  /\ \A d \in DOMAIN s : d # c /\ SameAs(q, c, d) => ~Before(q, s, d, c)}
BestOfEach == Single /\ Hits # <<>> =>
  \A q \in Whole : \A fts \in Listed(q), vec \in {Vec(q)} : \A s \in {ScoresOf(q, fts, vec)} : \A leaders \in {Leaders(q, s)} :
    LET shown == {Hits[i].chunk : i \in DOMAIN Hits} IN
    /\ answer.total = Cardinality(leaders) /\ shown \subseteq leaders
    /\ \A c \in leaders \ shown : \A d \in shown : Before(q, s, d, c)
    /\ Cardinality(shown) = IF answer.total < q.top THEN answer.total ELSE q.top
    /\ \A i \in DOMAIN Hits : Allowed(q.filter, Doc[Hits[i].doc])

\* Nothing that the words of the question matched is thrown away by the demotion of
\* pointers or by the threshold: when nothing is returned, nothing was found, or the
\* page was full of neighbours that hold no word of it.
EmptyForAReason == Single /\ Hits = <<>> =>
  \A q \in Whole : \A fts \in Listed(q) :
    fts = <<>> \/ Cardinality({c \in Range(fts) \union Range(Vec(q)) : ~Supported(q, fts, c)}) >= q.top

\* A merged answer shows each external id once, with the best weighted score that any
\* of its searches gave it, and no two copies of a page.
MergedBest == Answered /\ question.multi =>
  LET all == AllHits IN
  /\ \A i, j \in DOMAIN Hits : i # j => Ext(Hits[i]) # Ext(Hits[j])
  /\ \A i \in DOMAIN Hits : \A k \in DOMAIN all : Ext(all[k]) = Ext(Hits[i]) => all[k].score <= Hits[i].score
  /\ Sought(1).filter.copies => \A i, j \in DOMAIN Hits : i < j /\ HitKey(Hits[i]) # NoKey => HitKey(Hits[i]) # HitKey(Hits[j])
  /\ (answer.gated <=> all = <<>>)
=============================================================================
