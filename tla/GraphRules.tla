----------------------------- MODULE GraphRules -----------------------------
(***************************************************************************)
(* The rules of the knowledge graph, without its state.                     *)
(*                                                                          *)
(* What a query shows: POST /v1/graph/explore, apps/api/app/routers/graph.py *)
(* over graph/neo4j_client.py (two hops around an anchor) and               *)
(* graph/explore.py (exclusions, copies of one page, exposure, order, pages). *)
(* What is written: graph/extract.py, graph/failure_bucket.py,              *)
(* pipeline.py:143 and the merge transactions of graph/neo4j_client.py.     *)
(*                                                                          *)
(* Nodes are numbers.  A world w is what the two stores hold:               *)
(*   edges   sets of two nodes (Neo4j)         hub     components (Neo4j)   *)
(*   page, anc, source   of each document, the same in both stores          *)
(*   status  of each document in PostgreSQL, "missing" if it has no row     *)
(*   grade   rank of its evidence grade        retired failure buckets      *)
(* Titles, tags, relations and the text of the route are left out of it.    *)
(* Where edges are written, one is [src, rel, dst, tag, stamped].  Edges    *)
(* written before the direction of PARENT_OF was turned round carry no      *)
(* extractor version: they are the unstamped ones.                          *)
(***************************************************************************)
EXTENDS Integers, FiniteSets, FiniteSetsExt, Sequences, SequencesExt, Functions

CONSTANTS Documents, Components, FailureBuckets, \* disjoint sets of numbers
          Pages, NoPage,                         \* external ids
          Cap                                    \* MAX_RESULTS_PER_CATEGORY

Nodes == Documents \union Components \union FailureBuckets
InPG(w, d) == w.status[d] # "missing"
Collapsible == {"confluence_map", "confluence_docs", "tech_repo"}

(* identity.py: active before archived, then grade, source tier and id.      *)
SourceTier(s) == CASE s \in {"tech_repo", "confluence_docs", "checkitem"} -> 1
                   [] s = "incident_reports" -> 2
                   [] OTHER -> 3
Before(w, c, d) ==
  LET key(x) == <<IF w.status[x] = "active" THEN 0 ELSE 1, w.grade[x], SourceTier(w.source[x]), x>>
  IN \E i \in 1..4 : key(c)[i] < key(d)[i] /\ \A j \in 1..(i - 1) : key(c)[j] = key(d)[j]
Representative(w, S) == CHOOSE c \in S : \A d \in S \ {c} : Before(w, c, d)

(* One document is excluded by its page, its tree or its source.             *)
IsExcluded(w, q, d) ==
  \/ w.page[d] \in q.pages \union q.trees
  \/ w.source[d] \in q.sources
  \/ w.anc[d] \intersect q.trees # {}

(***************************************************************************)
(* Neo4jClient.explore: neighbours at one hop, whatever they are, and at    *)
(* two hops through a node that is neither a hub nor excluded.              *)
(***************************************************************************)
Adjacent(w, x, y) == {x, y} \in w.edges
MutBridge(w, q, p) == p \notin w.hub      \* exclusions applied to the ends only
Bridge(w, q, p) == /\ p \notin w.hub
                   /\ p \in Documents => ~IsExcluded(w, q, p)
Far == 99
Hops(w, q, a, n) ==
  IF Adjacent(w, a, n) THEN 1
  ELSE IF \E p \in Nodes : Adjacent(w, a, p) /\ Adjacent(w, p, n) /\ Bridge(w, q, p) THEN 2 ELSE Far
Neighbours(w, q, a) == {n \in Nodes \ {a} : Hops(w, q, a, n) # Far}

(***************************************************************************)
(* The anchors of a request, q.value.  A document is named by its id or its *)
(* page and stands for every copy of that page; a symptom stands for the    *)
(* components its words name.                                               *)
(***************************************************************************)
CopiesOf(w, v) ==
  LET ext == IF v \in Documents /\ InPG(w, v) THEN w.page[v] ELSE v
      same == {d \in Documents : InPG(w, d) /\ w.page[d] = ext}
  IN IF ext = NoPage \/ same = {} THEN {v} ELSE same

PageExcluded(w, q, S) ==
  \E d \in S \intersect Documents : InPG(w, d) /\
      (w.page[d] \in q.pages \union q.trees \/ w.anc[d] \intersect q.trees # {})
AnchorCopies(w, q) == UNION {CopiesOf(w, v) : v \in q.value}
Starts(w, q) ==
  IF q.type = "document"
  THEN {d \in AnchorCopies(w, q) : ~(d \in Documents /\ InPG(w, d) /\ w.source[d] \in q.sources)}
  ELSE q.value
Filtered(w, q) == q.type = "document" /\ (PageExcluded(w, q, AnchorCopies(w, q)) \/ Starts(w, q) = {})
\* A hub that is an anchor is reported and not walked from.
Walked(w, q) == Starts(w, q) \ w.hub
Found(w, q) == \E a \in Starts(w, q) : a \in w.nodes

(***************************************************************************)
(* From the raw neighbours to the list that is shown.                       *)
(***************************************************************************)
Closest(w, q, n) == Min({Hops(w, q, a, n) : a \in Walked(w, q) \ {n}} \union {Far})
Raw(w, q) == UNION {Neighbours(w, q, a) : a \in Walked(w, q) \intersect w.nodes}
Candidates(w, q) ==
  {d \in Raw(w, q) \intersect Documents :
     ~IsExcluded(w, q, d) /\ (q.type = "document" => d \notin Starts(w, q))}

\* Copies of one page become one entry: the representative, with the shortest
\* distance of all.
Group(w, S, d) ==
  IF InPG(w, d) /\ w.source[d] \in Collapsible /\ w.page[d] # NoPage
  THEN {e \in S : InPG(w, e) /\ w.source[e] \in Collapsible /\ w.page[e] = w.page[d]}
  ELSE {d}
Entries(w, q) ==
  LET S == Candidates(w, q)
      entry(d) == LET g == Group(w, S, d) rep == Representative(w, g) IN
                  [id |-> rep, hops |-> Min({Closest(w, q, e) : e \in g}), copies |-> g \ {rep}]
  IN {entry(d) : d \in S}

\* Archived documents are hidden unless asked for; a node without a row is not.
Shown(w, q) == {e \in Entries(w, q) : q.archived \/ w.status[e.id] # "archived"}
ShownComponents(w, q) == Raw(w, q) \intersect (Components \ w.hub)
ShownBuckets(w, q) == Raw(w, q) \intersect (FailureBuckets \ w.retired)

\* shape_explore_result: order by distance, grade and id, then one page.
GradeRank(w, d) == IF InPG(w, d) THEN w.grade[d] ELSE 3
Earlier(w, e, f) ==
  LET key(x) == <<x.hops, GradeRank(w, x.id), x.id>>
  IN \E i \in 1..3 : key(e)[i] < key(f)[i] /\ \A j \in 1..(i - 1) : key(e)[j] = key(f)[j]
Rank(w, S, e) == Cardinality({f \in S : Earlier(w, f, e)})
PageOf(w, S, offset) == {e \in S : Rank(w, S, e) >= offset /\ Rank(w, S, e) < offset + Cap}
Truncated(w, S, offset) == offset + Cardinality(PageOf(w, S, offset)) < Cardinality(S)

Status(w, q) ==
  CASE q.type = "symptom" /\ q.value = {} -> "no_match"
    [] Filtered(w, q) -> "filtered"
    [] ~Filtered(w, q) /\ ~Found(w, q) -> IF q.type = "symptom" THEN "not_found" ELSE "404"
    [] OTHER -> IF Shown(w, q) # {} \/ ShownComponents(w, q) # {} \/ ShownBuckets(w, q) # {}
                THEN "found" ELSE "isolated"
-----------------------------------------------------------------------------
(* What is extracted from a document or a failure bucket, and merged. *)

Resolve(w, p) ==      \* the document a page id stands for, if the corpus has it
  LET same == {d \in Documents : InPG(w, d) /\ w.page[d] = p}
  IN IF same = {} THEN {} ELSE {Representative(w, same)}

NewEdge(src, rel, dst, tag) ==
  [src |-> src, rel |-> rel, dst |-> dst, tag |-> tag, stamped |-> TRUE]

(* The last ancestor that is not the page itself is the parent; one that is  *)
(* not in the corpus stays a page without a document.  The edge is written   *)
(* from the parent to the child.                                             *)
Parent(w, d, chain) ==
  LET others == SelectSeq(chain, LAMBDA p : p # w.page[d])
  IN IF others = <<>> THEN {} ELSE {Last(others)}
Hierarchy(w, d, chain) ==
  {NewEdge(p, "PARENT_OF", d, "EXTRACTED") :
     p \in UNION {IF Resolve(w, q) = {} THEN {q} ELSE Resolve(w, q) : q \in Parent(w, d, chain)}}

\* Components named by the frame or the check item, and those the lexicon
\* finds in the text; one edge for each, the extracted one if there are two.
HasComponents(d, structured, found) ==
  {NewEdge(d, "HAS_COMPONENT", c, "EXTRACTED") : c \in structured} \union
  {NewEdge(d, "HAS_COMPONENT", c, "INFERRED") : c \in found \ structured}

Mentions(d, entities) ==
  {NewEdge(d, "MENTIONS_ENTITY", e.id, "EXTRACTED") :
     e \in {f \in entities : f.type \in {"business_system", "platform"}}}

\* Tickets the text names, its own key left out.
TicketReferences(w, d, tickets) ==
  {NewEdge(d, "REFERENCES", t, "EXTRACTED") :
     t \in UNION {Resolve(w, k) : k \in tickets \ {w.page[d]}}}

DocumentEdges(w, d, x) ==
  Hierarchy(w, d, x.chain) \union HasComponents(d, x.structured, x.found)
    \union Mentions(d, x.entities) \union TicketReferences(w, d, x.tickets)

(***************************************************************************)
(* One merge replaces the edges the document owns.                          *)
(***************************************************************************)
OwnedOut == {"HAS_COMPONENT", "REFERENCES", "MENTIONS_ENTITY"}
MutOwned(d, e) ==      \* every PARENT_OF at the document, its children's too
  (e.src = d /\ e.rel \in OwnedOut) \/ (e.rel = "PARENT_OF" /\ d \in {e.src, e.dst})
Owned(d, e) ==
  \/ e.src = d /\ e.rel \in OwnedOut
  \/ e.dst = d /\ e.rel = "PARENT_OF"
  \/ e.src = d /\ e.rel = "PARENT_OF" /\ ~e.stamped
\* MERGE keeps one edge for two nodes and a relation: the last writer stamps it.
SameEdge(e, f) == e.src = f.src /\ e.rel = f.rel /\ e.dst = f.dst
Merge(g, d, new) ==
  {e \in g : ~Owned(d, e) /\ \A f \in new : ~SameEdge(e, f)} \union new

(***************************************************************************)
(* Lexicon matches in a text: a sequence of letters, 0 for a space.  Longer *)
(* variants first; what a variant matched is not matched again.             *)
(***************************************************************************)
Occurrences(text, v) ==      \* whole words only
  {<<i, i + Len(v)>> : i \in {j \in 1..(Len(text) - Len(v) + 1) :
      /\ SubSeq(text, j, j + Len(v) - 1) = v
      /\ j = 1 \/ text[j - 1] = 0
      /\ j + Len(v) > Len(text) \/ text[j + Len(v)] = 0}}
\* finditer goes from left to right and continues behind each match.
Spans(text, v) ==
  LET from[i \in Nat] ==
        IF i > Len(text) THEN {}
        ELSE IF <<i, i + Len(v)>> \in Occurrences(text, v)
             THEN {<<i, i + Len(v)>>} \union from[i + Len(v)] ELSE from[i + 1]
  IN from[1]
Overlap(s, t) == s[1] < t[2] /\ t[1] < s[2]
Free(s, taken) == \A t \in taken : ~Overlap(s, t)
\* variants: a sequence of [text, canonical] in the order of the code, longest
\* first, then alphabetical.
Scan(text, variants) ==
  LET taken[i \in 0..Len(variants)] ==
        IF i = 0 THEN {}
        ELSE taken[i - 1] \union {<<s[1], s[2], i>> : s \in {t \in Spans(text, variants[i].text) : Free(t, taken[i - 1])}}
  IN taken[Len(variants)]

(***************************************************************************)
(* Evidence of a failure bucket: evidence_ref is a set of tokens, the text  *)
(* of cause and action a set of page ids.                                   *)
(***************************************************************************)
Reason(w, t) ==
  CASE t.kind \in {"page", "ticket"} -> IF Resolve(w, t.key) # {} THEN "resolved" ELSE "target_not_ingested"
    [] t.kind \in {"capture", "log"} -> "external_artifact"
    [] t.kind = "legacy" -> "legacy_missing"
    [] OTHER -> "none"
EvidenceReasons(w, ref, links) ==
  LET count(r) == Cardinality({t \in ref : Reason(w, t) = r})
      linked == Cardinality({p \in links : Resolve(w, p) # {}})
  IN [resolved |-> count("resolved") + linked,
      target_not_ingested |-> count("target_not_ingested") + Cardinality(links) - linked,
      external_artifact |-> count("external_artifact"),
      legacy_missing |-> count("legacy_missing"),
      unresolved_reference |-> IF ref # {} /\ \A t \in ref : Reason(w, t) = "none" THEN 1 ELSE 0]
BucketEdges(w, b, ref, links, similar) ==
  {NewEdge(b, "HAS_EVIDENCE", d, "EXTRACTED") :
     d \in UNION {Resolve(w, t.key) : t \in {u \in ref : u.kind \in {"page", "ticket"}}}}
  \union {NewEdge(b, "REFERENCES", d, "EXTRACTED") : d \in UNION {Resolve(w, p) : p \in links}}
  \union {NewEdge(b, "SIMILAR_TO", c, "INFERRED") : c \in similar \ {b}}

(***************************************************************************)
(* A tiny link is the page id, four bytes with the lowest first, in groups  *)
(* of six bits without the zero groups at the end.  Groups 62 and 63 are    *)
(* characters whose variants nobody verified: the code refuses them.        *)
(***************************************************************************)
Byte(n, i) == (n \div 256^i) % 256
Triple(a, b, c) == <<a \div 4, (a % 4) * 16 + b \div 16, (b % 16) * 4 + c \div 64, c % 64>>
TinyLink(n) ==
  LET groups == Triple(Byte(n, 0), Byte(n, 1), Byte(n, 2)) \o SubSeq(Triple(Byte(n, 3), 0, 0), 1, 2)
      used == Max({i \in 1..6 : groups[i] # 0} \union {0})
  IN SubSeq(groups, 1, used)
Bytes(g) == <<g[1] * 4 + g[2] \div 16, (g[2] % 16) * 16 + g[3] \div 4, (g[3] % 4) * 64 + g[4]>>
DecodeTinyLink(code) ==
  IF code = <<>> \/ \E i \in 1..Len(code) : code[i] >= 62 THEN -1
  ELSE LET at(i) == IF i <= Len(code) THEN code[i] ELSE 0
           low == Bytes([i \in 1..4 |-> at(i)])
           high == Bytes([i \in 1..4 |-> at(i + 4)])
       IN low[1] + 256 * low[2] + 65536 * low[3] + 16777216 * high[1]
=============================================================================
