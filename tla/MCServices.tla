---------------------------- MODULE MCServices -----------------------------
(***************************************************************************)
(* The parts with state of their own beside the document pipelines, each on  *)
(* a small instance, and the pure parts.  A behaviour is about               *)
(* one part, named by `part'; the slots hold that part's variables, and the  *)
(* ones it has no use for stay 0.  The graph batch and the synonym cache have *)
(* their own variables, which rest unless they are the part.                 *)
(*                                                                          *)
(* The pure parts of graph reading are checked on all inputs of small worlds. *)
(* A job is one call with its input; answering it evaluates the definitions  *)
(* of the component, and the properties compare them with a second,          *)
(* independent definition of what the caller is promised.                    *)
(***************************************************************************)
EXTENDS GraphRules, GraphSync, SynonymCache, TLC

VARIABLES job, answered
readsVars == <<job, answered>>

\* --- explore: documents 1 and 2 are copies of page 101, 3 is page 102 below it
MCDocuments == {1, 2, 3, 4}
MCComponents == {11}
MCBuckets == {21}
MCPages == {101, 102}
PageOfDoc == <<101, 101, 102, 0>>
SourceOfDoc == <<"confluence_docs", "confluence_map", "tech_repo", "checkitem">>
GradeOfDoc == <<2, 0, 1, 3>>
AncOfDoc == <<{}, {}, {101}, {}>>
World(edges, hub, status, retired) ==
  [edges |-> edges, hub |-> hub, page |-> PageOfDoc, source |-> SourceOfDoc, anc |-> AncOfDoc,
   grade |-> GradeOfDoc, status |-> status, retired |-> retired, nodes |-> MCDocuments \union {11, 21}]
\* Each two documents in every combination.
Statuses == {<<a, b, IF (a = "active") = (b = "active") THEN "active" ELSE "archived", "active">> :
               a \in {"active", "archived"}, b \in {"active", "missing"}}
Possible == {{1, 3}, {1, 11}, {2, 11}, {3, 11}, {4, 11}, {3, 21}, {4, 21}}
Anchors == [type : {"document"}, value : {{2}, {3}, {101}}] \union
           [type : {"component", "symptom"}, value : {{11}}] \union
           [type : {"failure_bucket"}, value : {{21}}] \union [type : {"symptom"}, value : {{}}]
Request(a, p, t, s, arch) ==
  [type |-> a.type, value |-> a.value, pages |-> p, trees |-> t, sources |-> s, archived |-> arch]
ExploreJob ==
  \E e \in SUBSET Possible, hub \in {{}, {11}}, st \in Statuses, a \in Anchors,
     x \in {<<{}, {}, {}, TRUE>>, <<{}, {}, {}, FALSE>>, <<{102}, {}, {}, FALSE>>, <<{}, {101}, {}, TRUE>>, <<{}, {}, {"confluence_map"}, FALSE>>} :
    job = [algo |-> "explore", w |-> World(e, hub, st, IF {3, 21} \in e THEN {21} ELSE {}),
           q |-> Request(a, x[1], x[2], x[3], x[4])]

\* --- merging documents 1 and 3, in both orders, over what older runs left
Inputs(chains, found) == [chain : chains, structured : {{}, {11}}, found : found,
                          entities : {{[id |-> 31, type |-> "platform"], [id |-> 11, type |-> "tech_term"]}},
                          tickets : {{101}, {102}}]
Old(src, rel, dst, stamped) == [src |-> src, rel |-> rel, dst |-> dst, tag |-> "EXTRACTED", stamped |-> stamped]
Older == {Old(1, "PARENT_OF", 3, FALSE), Old(3, "PARENT_OF", 1, FALSE), Old(1, "REFERENCES", 4, TRUE),
          Old(3, "PARENT_OF", 4, TRUE), Old(21, "REFERENCES", 3, TRUE)}
MergeJob ==
  \E st \in Statuses, x \in Inputs({<<>>, <<102, 101>>, <<103, 101>>}, {{}, {11}}),
     y \in Inputs({<<101, 102>>, <<102>>}, {{11}}), g \in SUBSET Older :
    job = [algo |-> "merge", w |-> World({}, {}, st, {}), x |-> x, y |-> y, g |-> g]

\* --- matching variants in a text, tiny links, evidence of a bucket
Variants == << [text |-> <<1, 0, 2>>, canonical |-> "C"], [text |-> <<2, 0, 2>>, canonical |-> "D"],
               [text |-> <<1>>, canonical |-> "A"], [text |-> <<2>>, canonical |-> "B"] >>
TextJob == \E n \in 1..7 : \E t \in [1..n -> 0..2] : job = [algo |-> "lexicon", text |-> t]
Ids == {a + 256 * b + 65536 * c + 16777216 * d : a \in {0, 1, 55, 252}, b \in {0, 31, 224}, c \in {0, 4, 255}, d \in {0, 36, 96}}
LinkJob == \E n \in Ids : job = [algo |-> "link", n |-> n]
Tokens == {[kind |-> "page", key |-> 101], [kind |-> "page", key |-> 103], [kind |-> "ticket", key |-> 102],
           [kind |-> "log", key |-> 0], [kind |-> "legacy", key |-> 0], [kind |-> "word", key |-> 0]}
EvidenceJob == \E st \in Statuses, ref \in SUBSET Tokens, links \in SUBSET {101, 102, 103} :
  job = [algo |-> "evidence", w |-> World({}, {}, st, {}), ref |-> ref, links |-> links]

ReadsInit == answered = FALSE /\ (ExploreJob \/ MergeJob \/ TextJob \/ LinkJob \/ EvidenceJob)
Answer == answered' = ~answered /\ UNCHANGED job
ReadsSpec == ReadsInit /\ [][Answer]_readsVars

Asked(algo) == answered /\ job.algo = algo

-----------------------------------------------------------------------------
(* routers/graph.py:250 and neo4j_client.py:192: whatever is shown is not    *)
(* excluded, is not the anchor's own page, is reached from the anchor over   *)
(* nodes none of which is excluded or a hub, and no page is shown twice.     *)
Walk(w, q, a, d) == \E path \in {<<a, d>>} \union {<<a, p, d>> : p \in Nodes} :
  /\ \A i \in 1..(Len(path) - 1) : {path[i], path[i + 1]} \in w.edges
  /\ \A i \in 2..(Len(path) - 1) :
       path[i] \notin w.hub /\ (path[i] \in Documents => ~IsExcluded(w, q, path[i]))
SamePage(w, d, e) == d = e \/ (InPG(w, d) /\ InPG(w, e) /\ w.page[d] = w.page[e] /\ w.page[d] # NoPage)
Named(w, q, d) ==      \* d is what a document anchor names, or a copy of it
  \E v \in q.value : d = v \/ (InPG(w, d) /\ w.page[d] = v) \/ (v \in Documents /\ SamePage(w, d, v))
Starting(w, q) == IF q.type = "document" THEN {d \in Documents : Named(w, q, d)} ELSE q.value \ w.hub
ExploreSound ==
  Asked("explore") =>
    LET w == job.w  q == job.q  shown == Shown(w, q) IN
    Status(w, q) \in {"found", "isolated"} =>
      /\ \A e \in shown, d \in Documents : d = e.id \/ d \in e.copies =>
           /\ ~IsExcluded(w, q, d)
           /\ \E a \in Starting(w, q) : Walk(w, q, a, d)
           /\ q.type = "document" /\ InPG(w, d) => ~Named(w, q, d)
      /\ \A e, f \in shown : SamePage(w, e.id, f.id) => e = f
(* explore.py: every active document that may be shown and can be reached is *)
(* on one of the pages, under its own id or as a copy; the pages do not      *)
(* overlap and only the last one says there is no more.                      *)
Offsets(S) == {Cap * k : k \in 0..Cardinality(S)}
ExploreComplete ==
  Asked("explore") =>
    LET w == job.w  q == job.q  shown == Shown(w, q) IN
    Status(w, q) \in {"found", "isolated"} =>
      /\ \A d \in Documents :
           /\ w.status[d] = "active" /\ ~IsExcluded(w, q, d)
           /\ ~(q.type = "document" /\ Named(w, q, d))
           /\ \E a \in Starting(w, q) : Walk(w, q, a, d) /\ ~(a \in Documents /\ IsExcluded(w, q, a))
           => \E o \in Offsets(shown) : \E e \in PageOf(w, shown, o) : d = e.id \/ d \in e.copies
      /\ \A o, p \in Offsets(shown) : o < p =>
           /\ PageOf(w, shown, o) \intersect PageOf(w, shown, p) = {}
           /\ PageOf(w, shown, p) # {} => Truncated(w, shown, o)
      /\ Truncated(w, shown, 0) => PageOf(w, shown, Cap) # {}

(* routers/graph.py:113: whichever copy of a page the caller names, and by   *)
(* its id or by the page, the answer is the same.                            *)
AnyCopySameAnswer ==
  Asked("explore") /\ job.q.type = "document" =>
    \A v \in Documents : InPG(job.w, v) /\ (\E u \in job.q.value : u = job.w.page[v] \/ (u \in Documents /\ SamePage(job.w, u, v))) =>
      LET q == [job.q EXCEPT !.value = {v}] IN
      Status(job.w, q) = Status(job.w, job.q) /\ Shown(job.w, q) = Shown(job.w, job.q)

(* neo4j_client.py:486: the order in which a batch merges two documents does *)
(* not matter, merging again changes nothing, and of the edges a document    *)
(* owns exactly the extracted ones are left.                                 *)
MergesCommute ==
  Asked("merge") =>
    LET w == job.w  a == DocumentEdges(w, 1, job.x)  b == DocumentEdges(w, 3, job.y)
        g == Merge(Merge(job.g, 1, a), 3, b)
    IN /\ g = Merge(Merge(job.g, 3, b), 1, a)
       /\ Merge(g, 1, a) = g
       /\ {e \in g : Owned(1, e) \/ Owned(3, e)} = a \union b
       /\ {e \in job.g : ~Owned(1, e) /\ ~Owned(3, e)} \subseteq g

(* extract.py:21: nobody becomes its own parent, and a page has one parent.  *)
OneForeignParent ==
  Asked("merge") =>
    LET up == {e.src : e \in Hierarchy(job.w, 1, job.x.chain)} IN
    Cardinality(up) <= 1 /\ \A p \in up : p # 101 /\ ~(p \in Documents /\ SamePage(job.w, p, 1))

(* extract.py:130: what is matched never overlaps, and every occurrence that *)
(* is not counted lies under one at least as long, or overlaps an earlier    *)
(* occurrence of the same variant, behind which the search went on.          *)
LongestMatchWins ==
  Asked("lexicon") =>
    LET taken == Scan(job.text, Variants) IN
    /\ \A s, t \in taken : s = t \/ ~Overlap(s, t)
    /\ \A i \in 1..Len(Variants) : LET all == Occurrences(job.text, Variants[i].text) IN
         \A s \in all : \/ \E t \in taken : Overlap(s, t) /\ t[2] - t[1] >= s[2] - s[1]
                        \/ \E t \in all : Overlap(s, t) /\ t[1] < s[1]

(* failure_bucket.py:80: a tiny link is decoded to the page it was made from *)
(* or refused, never to another page.                                        *)
TinyLinkExact ==
  Asked("link") =>
    LET code == TinyLink(job.n) IN
    DecodeTinyLink(code) = IF code = <<>> \/ \E i \in 1..Len(code) : code[i] >= 62 THEN -1 ELSE job.n

(* failure_bucket.py:39: the reasons shown for a bucket agree with its edges *)
(* and account for everything the bucket names.                              *)
EvidenceAccounted ==
  Asked("evidence") =>
    LET r == EvidenceReasons(job.w, job.ref, job.links)
        words == {t \in job.ref : t.kind = "word"}
    IN /\ r.resolved > 0 <=> BucketEdges(job.w, 21, job.ref, job.links, {21}) # {}
       /\ r.resolved + r.target_not_ingested + r.external_artifact + r.legacy_missing
            = Cardinality(job.ref \ words) + Cardinality(job.links)
       /\ r.unresolved_reference = 1 <=> (job.ref # {} /\ job.ref = words)

-----------------------------------------------------------------------------
CONSTANTS x, y    \* two scans, or two runs of the graph batch, interchangeable
CONSTANTS u, v    \* two contents
Symmetric == Permutations({x, y}) \union Permutations({u, v})

VARIABLES part, s1, s2, s3, s4, s5, s6, s7, s8, s9, s10, s11, s12
slots == <<s1, s2, s3, s4, s5, s6, s7, s8, s9, s10, s11, s12>>
all   == <<part, slots, readsVars, vars, cacheVars>>

\* Topic a asks about a gap, p about a policy that may settle it; b is the urgent one.
\* One setting lets one proposal be opened per scan, the other one be open at all; the
\* first is in force until somebody configures the second.
Proposals == INSTANCE TopicScan WITH Topics <- {"a", "b", "p"}, High <- {"b"}, Ruled <- {"a"},
  Detector <- [a |-> "bucket_gap", b |-> "deadline", p |-> "policy"], DocOf <- [a |-> 2, b |-> 2, p |-> 3],
  Caps <- {[new |-> 1, open |-> 2], [new |-> 2, open |-> 1]}, Refinable <- 2, Workers <- 1, Scans <- {x, y}, MaxEvents <- 2,
  found <- s1, quoted <- s2, dec <- s3, human <- s4, scan <- s5, caps <- s6, events <- s7
Failures == INSTANCE FailureBuckets WITH Rows <- {1, 2}, Calls <- {"p", "q"}, Signals <- {"u", "v"}, FirstBody <- {"u"}, MaxCalls <- 3, MaxDeaths <- 1,
  class <- s1, row <- s2, mirror <- s3, call <- s4, votes <- s5, raced <- s6, cut <- s7, twice <- s8, calls <- s9, deaths <- s10
\* Batch 1 yields two groups, batch 2 one of them again.
Mining == INSTANCE Synonyms WITH Groups <- {"g", "h"}, Batches <- {1, 2}, Yield <- <<{"g", "h"}, {"h"}>>, Outs <- {"o", "p", "q"}, Fresh <- {"p", "q"},
  Commits <- {"p"}, MaxEvents <- 4, MaxFaults <- 1,
  tickets <- s1, cand <- s2, proc <- s3, ckpt <- s4, result <- s5, exit <- s6, meta <- s7, api <- s8, orphans <- s9, events <- s10, faults <- s11
Expansion == INSTANCE DocExpansion WITH Sites <- {"dev", "prod"}, Docs <- {1, 2}, Contents <- {"u", "v"}, First <- "u", AbortAfter <- 2,
  MaxEvents <- 4, MaxFaults <- 1,
  doc <- s1, row <- s2, run <- s3, file <- s4, events <- s5, faults <- s6

\* Incidents: similar and dissimilar causes, classes, two domains, two customers and
\* those told by their titles, vague causes with and without an answer, one untitled.
Unsaid == [blank |-> TRUE, long |-> FALSE, unsure |-> FALSE, grams |-> {}]
Cause(grams) == [blank |-> FALSE, long |-> TRUE, unsure |-> FALSE, grams |-> grams]
Vague(grams) == [Cause(grams) EXCEPT !.unsure = TRUE]
Incident == [domains |-> {"os"}, customer |-> "A", titled |-> "A", recent |-> TRUE, status |-> "done", fo |-> FALSE, external |-> FALSE, alike |-> FALSE,
  pick |-> "none", named |-> TRUE, class |-> "none", text |-> [k \in {"final", "root", "direct", "detail", "initial", "class", "reason"} |-> Unsaid]]
Saying(i, k, t) == [i EXCEPT !.text[k] = t]
Final(grams) == Saying(Incident, "final", Cause(grams))
Classed(i) == [Saying(i, "class", Cause({9})) EXCEPT !.class = "c"]
Both == [Incident EXCEPT !.domains = {"os", "net"}]
Collected == [Incident EXCEPT !.customer = "several customers"]
Incidents == << Final({1, 2}), Final({2, 3, 4}), Final({4, 5}), Final({7}), Classed(Final({1})), Classed(Saying(Both, "final", Cause({1}))),
  Saying(Collected, "final", Cause({1})), Saying([Incident EXCEPT !.fo = TRUE], "initial", Cause({1, 2})),
  Saying(Saying([Both EXCEPT !.pick = "final"], "initial", Vague({1})), "final", Vague({2})),
  Saying(Saying([Incident EXCEPT !.named = FALSE], "initial", Cause({3})), "final", Cause({4})),
  Saying([Incident EXCEPT !.status = "open"], "initial", Vague({1})), Saying(Incident, "initial", Vague({1, 2})),
  Classed(Saying([Collected EXCEPT !.titled = "B", !.external = TRUE], "final", Cause({1}))) >>
Years == {s \in [1..4 -> DOMAIN Incidents] : \A i \in 1..3 : s[i] <= s[i + 1]}
Ruled(verdict) == [status |-> "confirmed", verdict |-> verdict]
Gaps == INSTANCE BucketGaps WITH Domains <- <<"os", "net">>, FbDomains <- [os |-> {"os"}, net |-> {"net"}],
  MinCount <- 2, MaxGroups <- 2, MaxItems <- 4, MaxSize <- 2, GroupLimit <- 4,
  Worlds <- {[incident |-> [n \in 1..4 |-> Incidents[year[n]]], buckets |-> [b \in {"os", "net"} |-> IF b = "os" THEN 0 ELSE r[1]],
              ruled |-> [fo |-> Ruled(r[2]), external |-> Ruled(r[2])], open |-> r[3]] : year \in Years,
              r \in {<<0, "exclude", {}>>, <<1, "include", {}>>, <<0, "include", {[key |-> <<"os", "Z", <<"all">>>>, items |-> <<1, 2>>]}>>}},
  world <- s1, found <- s2

\* Buckets of up to five signals, with counter-signals, at confidences on both sides of
\* what each label takes; words 3 and 7 are of one group of terms.
Pattern(id, signals, counters, confidence) ==
  [id |-> id, status |-> "active", environment |-> "any", signals |-> signals, counters |-> counters, confidence |-> confidence]
Patterns == {Pattern(1, s, c, k) : c \in {<<>>, <<{6}>>, <<{6}, {5, 6}>>}, k \in {0, 143, 250, 667, 750, 1000},
  s \in {<<>>, <<{1}>>, <<{1}, {2, 3}>>, <<{1}, {2, 3}, {4}>>, <<{1}, {2}, {3}, {4, 5, 6}>>, <<{1}, {2}, {3}, {4}, {5}>>}}
\* Tickets and incident reports with good, poor and no frames, found or not, known and
\* unknown places; words 1 and 2 are two spellings, 3 and 4 a component and a place.
Told(quality, words, cause, done, place) == [quality |-> quality, words |-> words, components |-> IF 3 \in words THEN {3} ELSE {}, cause |-> cause,
  resolution |-> done, environment |-> place]
Untold == [Told(-1, {}, FALSE, FALSE, 0) EXCEPT !.components = {}]
Record(type, hit, title, frame, place) == [type |-> type, active |-> TRUE, hit |-> hit, title |-> title, snippet |-> {1}, frame |-> frame, environment |-> place]
PastFrames == {Untold, Told(24, {1, 3}, TRUE, TRUE, 0), Told(45, {2}, TRUE, FALSE, 0), Told(45, {2, 3, 5}, TRUE, TRUE, 4), Told(100, {3}, FALSE, TRUE, 6)}
Pasts == {<< Record("support_history", h, {2, 5}, f, 0), Record("support_history", 5 - h, {1}, Told(50, {3}, TRUE, TRUE, 6), 4),
             [Record("support_history", 0, {5}, Told(90, {1}, TRUE, TRUE, 4), 4) EXCEPT !.active = g > 0],
             Record("incident_reports", g, {1, 3}, e, 4), Record("incident_reports", 3, {5}, Told(60, {1, 2}, TRUE, TRUE, 0), 0) >> :
           h \in {0, 3}, g \in {0, 3}, f, e \in PastFrames}
Prepared == << [hints |-> {1}, components |-> {}], [hints |-> {5}, components |-> {3}], [hints |-> {}, components |-> {3}], [hints |-> {2}, components |-> {5}] >>
Asking == {[kind |-> "incident", tokens |-> w, types |-> t, environment |-> IF 4 \in ToSet(w) THEN 4 ELSE 0, top |-> k, docs |-> d, bundles |-> Prepared,
            trust |-> [support_history |-> "weak", incident_reports |-> "strong"]] :
             w \in {<<>>, <<2>>, <<1, 3>>, <<1, 3, 5, 4>>}, t \in {{}, {"incident_reports"}, {"manuals"}}, k \in {1, 3}, d \in Pasts}
Scores == INSTANCE Matching WITH Canon <- <<1, 2, 3, 4, 5, 6, 3>>, Forms <- <<{1, 2}, {1, 2}, {3}, {4}, {5}, {6}>>,
  SourceTypes <- <<"support_history", "incident_reports">>, InjectLimit <- 1,
  Questions <- {[kind |-> "pattern", observed |-> {o, m}, environment |-> "csp", top |-> t,
                 buckets |-> <<Pattern(2, <<{1, 2}, {3}>>, <<>>, 500), b, [Pattern(3, <<{1}>>, <<>>, 500) EXCEPT !.environment = "msp"]>>] :
                o \in SUBSET {1, 2, 3, 4}, m \in {{7}, {5, 6}}, b \in Patterns, t \in {1, 2}} \union Asking,
  question <- s1, ranking <- s2

\* The graph batch where it is not the part.
GraphRests == Init /\ \A i \in Items : doc[i] = Absent

ServicesInit ==
  \/ /\ part = "Graph" /\ Init /\ CacheInit /\ answered = FALSE /\ job = [algo |-> "none"]
     /\ s1 = 0 /\ s2 = 0 /\ s3 = 0 /\ s4 = 0 /\ s5 = 0 /\ s6 = 0 /\ s7 = 0 /\ s8 = 0 /\ s9 = 0 /\ s10 = 0 /\ s11 = 0 /\ s12 = 0
  \/ /\ part = "Reads" /\ GraphRests /\ CacheInit /\ ReadsInit
     /\ s1 = 0 /\ s2 = 0 /\ s3 = 0 /\ s4 = 0 /\ s5 = 0 /\ s6 = 0 /\ s7 = 0 /\ s8 = 0 /\ s9 = 0 /\ s10 = 0 /\ s11 = 0 /\ s12 = 0
  \/ /\ answered = FALSE /\ job = [algo |-> "none"] /\ GraphRests /\ CacheInit
     /\ \/ /\ part = "Cache"
           /\ s1 = 0 /\ s2 = 0 /\ s3 = 0 /\ s4 = 0 /\ s5 = 0 /\ s6 = 0 /\ s7 = 0 /\ s8 = 0 /\ s9 = 0 /\ s10 = 0 /\ s11 = 0 /\ s12 = 0
        \/ part = "Proposals" /\ Proposals!Init /\ s6.new = 1 /\ s8 = 0 /\ s9 = 0 /\ s10 = 0 /\ s11 = 0 /\ s12 = 0
        \/ part = "Buckets" /\ Failures!Init /\ s11 = 0 /\ s12 = 0
        \/ /\ (part = "Gaps" /\ Gaps!Init) \/ (part = "Scores" /\ Scores!Init)
           /\ s3 = 0 /\ s4 = 0 /\ s5 = 0 /\ s6 = 0 /\ s7 = 0 /\ s8 = 0 /\ s9 = 0 /\ s10 = 0 /\ s11 = 0 /\ s12 = 0
        \/ part = "Mining" /\ Mining!Init /\ s12 = 0
        \/ part = "Expansion" /\ Expansion!Init /\ s7 = 0 /\ s8 = 0 /\ s9 = 0 /\ s10 = 0 /\ s11 = 0 /\ s12 = 0
ServicesNext ==
  /\ UNCHANGED part
  /\ \/ part = "Graph" /\ Next /\ UNCHANGED <<readsVars, slots, cacheVars>>
     \/ part = "Cache" /\ CacheNext /\ UNCHANGED <<readsVars, slots, vars>>
     \/ /\ UNCHANGED <<vars, cacheVars>>
        /\ \/ part = "Reads" /\ Answer /\ UNCHANGED slots
           \/ part = "Proposals" /\ Proposals!Next /\ UNCHANGED <<readsVars, s8, s9, s10, s11, s12>>
           \/ part = "Buckets" /\ Failures!Next /\ UNCHANGED <<readsVars, s11, s12>>
           \/ part = "Gaps" /\ Gaps!Next /\ UNCHANGED <<readsVars, s3, s4, s5, s6, s7, s8, s9, s10, s11, s12>>
           \/ part = "Scores" /\ Scores!Next /\ UNCHANGED <<readsVars, s3, s4, s5, s6, s7, s8, s9, s10, s11, s12>>
           \/ part = "Mining" /\ Mining!Next /\ UNCHANGED <<readsVars, s12>>
           \/ part = "Expansion" /\ Expansion!Next /\ UNCHANGED <<readsVars, s7, s8, s9, s10, s11, s12>>
ServicesSpec == ServicesInit /\ [][ServicesNext]_all

-----------------------------------------------------------------------------
(* The properties of the parts: conjunctions of what their modules state.    *)

\* What the reads compute.  routers/graph.py: what is shown may be shown and is reached,
\* all of it is on one of the pages, and every copy of a page asks the same question;
\* neo4j_client.py and failure_bucket.py: merges commute, a page has one parent, the
\* reasons shown for a bucket account for its edges; extract.py:130 and
\* failure_bucket.py:80: the longest variants win without overlaps, and a tiny link names
\* its own page or none.  scan.py: what is asked about recurs, every group of confirmed
\* incidents with one cause, each once, and overlaps are told.  match.py: a label is the
\* one its basis explains, seeing more never lowers it, and the best patterns are shown.
\* retrieve.py: past incidents of both source types are one ranking, none crowds out a
\* good record of the other, and what is advised was done.
ReadsFit ==
  /\ part = "Reads" =>
       /\ ExploreSound /\ ExploreComplete /\ AnyCopySameAnswer
       /\ MergesCommute /\ OneForeignParent /\ EvidenceAccounted
       /\ LongestMatchWins /\ TinyLinkExact
  /\ part = "Gaps" => Gaps!GapsFit
  /\ part = "Scores" => Scores!MatchFits /\ Scores!SimilarFits
\* scan.py and refine.py: a scan opens no more proposals than there was room for,
\* the most urgent first, asks nothing people have dealt with, and after a 401
\* only the calls already under way come back.
ProposalsFit == [][part = "Proposals" =>
  Proposals!WithinCap /\ Proposals!AsksNewOnly /\ Proposals!UrgentFirst' /\ Proposals!RefusalStops']_all
\* failure_buckets/service.py: retired buckets are hidden, votes are counted and
\* fingerprints registered once, but for requests that crossed; an undisturbed
\* request leaves row and mirror in agreement.
BucketsAgree == [][part = "Buckets" =>
  Failures!RetiredHidden' /\ Failures!CountsKept' /\ Failures!RegisteredOnce' /\ Failures!IndexedAlone]_all
\* synonyms/cli.py and runner.py: `ok' means every batch of these tickets, the
\* page runs one miner, but for those it lost sight of, and only people change
\* what people decided.
MiningIsTrue == [][part = "Mining" => Mining!OkIsWhole' /\ Mining!MinersAlone' /\ Mining!OnlyPeopleChange]_all
\* docexp: a row that counts as up to date was made from the document's text, and
\* exit code 0 means that every document was dealt with.
RowsAreTrue == [][part = "Expansion" => Expansion!UpToDateIsTrue' /\ Expansion!EndsComplete]_all
=============================================================================
