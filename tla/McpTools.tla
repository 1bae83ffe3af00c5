------------------------------ MODULE McpTools ------------------------------
(***************************************************************************)
(* mcp-server/server.py: the kb_* tools an assistant calls, each a request   *)
(* to the API with a time limit.  What an answer says is a class: found,     *)
(* nothing, done; a status line (invalid_request, not_found, backend_error); *)
(* error, a sentence that names the code; raised.  The API may work on after *)
(* the tool has given up.  An assistant sends again what it was told is      *)
(* retryable: ours is the most it may do.  The wording of answers, the       *)
(* clamped numbers and ids other than these are left out.                    *)
(***************************************************************************)
EXTENDS Integers, FiniteSets, TLC

CONSTANTS
  Used,                  \* the tools called
  Nodes, PageSize,       \* how many nodes a graph exploration finds, 50
  MaxCalls, Tries,       \* calls, and how often each is sent
  MaxFaults

-----------------------------------------------------------------------------
(* The tools: what they write, what they insist on before a request is sent, *)
(* and the codes they answer themselves.                                     *)

Code == {"ok", "refused", "forbidden", "missing", "conflict", "off", "broken", "timeout", "unreachable"}
Failed == Code \ {"ok", "timeout", "unreachable"} \* codes >= 400
NoOwn == [c \in {} |-> "error"]
Read(name, own) == [name |-> name, writes |-> FALSE, insists |-> FALSE, own |-> own]
Write(name, own) == [Read(name, own) EXCEPT !.writes = TRUE]
Strict(tool) == [tool EXCEPT !.insists = TRUE]
Missing == [c \in {"missing"} |-> "not_found"]
\* A code of 400 or more is told as an invalid request, whatever it is.
Flat(first) == [c \in Failed |-> IF c \in DOMAIN first THEN first[c] ELSE "invalid_request"]
Plainly(first) == [c \in Failed |-> IF c \in DOMAIN first THEN first[c] ELSE "error"]

SearchTools == {Strict(Read("kb_search", NoOwn)), Strict(Read("wiki_search", NoOwn))}
DocTools == {Read("kb_get_document", [c \in {"missing", "forbidden"} |-> IF c = "missing" THEN "not_found" ELSE "error"])}
DecisionTools == {Read("kb_list_decisions", Flat(NoOwn)), Read("kb_get_decision", Missing),
                  Write("kb_propose_decision", Flat(NoOwn)), Write("kb_add_decision_evidence", Flat(Missing))}
AskTools == {Read("kb_ask", [c \in Failed \union {"timeout", "unreachable"} |-> "raised"])}
QueryTool == {Read("kb_query", NoOwn)}
TicketTools == {Read("kb_list_tickets", NoOwn), Read("kb_recent_changes", [c \in {"refused"} |-> "invalid_request"])}
AnalyticsTools == {Read("kb_analytics", NoOwn), Strict(Read("kb_entity_share", NoOwn)), Read("kb_title_tokens", NoOwn)}
IncidentTool == {Strict(Read("kb_similar_incident", NoOwn))}
ExploreTool == {Strict(Read("kb_graph_explore", Missing))}
UploadTool == {Strict(Write("kb_upload_document", NoOwn))}
CheckTools == {Read("kb_list_checkitems", NoOwn), Read("kb_capacity_estimate", NoOwn)}
CheckItemTool == {Strict(Read("kb_get_checkitem", Missing))}
DiagramTools == {Read("kb_confluence_find_pages", Plainly(NoOwn)), Read("kb_confluence_list_diagrams", Plainly(NoOwn)),
                 Read("kb_confluence_get_diagram", Plainly(Missing)), Write("kb_confluence_put_diagram", Plainly(NoOwn))}
BucketWrites == {Strict(Write("kb_register_failure_bucket", NoOwn)), Strict(Write("kb_refine_failure_bucket", Missing))}
BucketReads == {Strict(Read("kb_match_failure_bucket", NoOwn)), Read("kb_list_failure_buckets", NoOwn)}
BucketStates == {Strict(Write("kb_retire_failure_bucket", Missing)), Strict(Write("kb_restore_failure_bucket", Missing)),
                 Strict(Read("kb_get_failure_bucket", Missing))}
TicketTool == {Strict(Read("kb_ticket", Missing))}
StatusTools == {Read("kb_health", NoOwn), Read("kb_graph_status", NoOwn), Read("kb_stats", NoOwn)}
DomainTools == {Read("kb_citec_domain_catalog", NoOwn), Read("kb_citec_recurring_patterns", Plainly(NoOwn)),
                Read("kb_citec_failure_bucket_coverage", NoOwn)}
Tools == UNION {SearchTools, DocTools, DecisionTools, AskTools, QueryTool, TicketTools, AnalyticsTools, IncidentTool, ExploreTool, UploadTool,
                CheckTools, CheckItemTool, DiagramTools, BucketWrites, BucketReads, BucketStates, TicketTool, StatusTools, DomainTools}

\* _classify_http_error: a code that is not named is a backend error not worth sending again.
Err(code) == CASE code \in {"refused", "forbidden"} -> "invalid_request" [] code = "missing" -> "not_found" [] OTHER -> "backend_error"
Retryable(code) == code \in {"timeout", "unreachable", "off", "broken"}
\* fold_ask_events: the text of a stream that ended with `done', marked when anything failed.
Fold(r) == IF ~r.done \/ ~r.text THEN "raised" ELSE IF r.failed THEN "snippets" ELSE "found"
\* What a tool says to a response.  Without the check of the code, an error body reads as an empty result.
MutAnswer(tool, r) == IF r.code = "ok" THEN IF tool.writes THEN "done" ELSE IF tool \in AskTools THEN Fold(r) ELSE IF r.rows THEN "found" ELSE "nothing"
                      ELSE IF r.code \in DOMAIN tool.own THEN tool.own[r.code] ELSE IF r.code = "broken" THEN "nothing" ELSE Err(r.code)
Answer(tool, r) == IF r.code = "ok" THEN IF tool.writes THEN "done" ELSE IF tool \in AskTools THEN Fold(r) ELSE IF r.rows THEN "found" ELSE "nothing"
                   ELSE IF r.code \in DOMAIN tool.own THEN tool.own[r.code] ELSE Err(r.code)

\* _search_impl: which of the two endpoints is asked, and what the request carries of
\* the filters: category only the old one, those of `only' only the new one.
Filters == {"section", "category", "exclude", "other"}
MutRoute(v1, asked) == [v1 |-> v1, told |-> "", carries |-> IF v1 THEN asked \ {"category"} ELSE asked \intersect {"section", "category"}]
Route(v1, asked) ==
  LET only == asked \intersect {"exclude", "other"} IN
  IF ~v1 /\ "category" \in asked /\ only # {} THEN [v1 |-> v1, told |-> "error", carries |-> {}]
  ELSE IF v1 \/ only # {} THEN [v1 |-> TRUE, told |-> IF v1 THEN "" ELSE "note", carries |-> asked \ {"category"}]
  ELSE [v1 |-> FALSE, told |-> "", carries |-> asked]

-----------------------------------------------------------------------------
VARIABLES
  call,    \* the assistant's call
  wire,    \* requests the API has not finished: call, try and whether they write
  back,    \* the answer on its way to the current try, or Lost
  applied, \* how often each call's write was applied
  search,  \* the last search request
  walk,    \* an exploration page by page
  calls, faults
vars == <<call, wire, back, applied, search, walk, calls, faults>>

Lost == [code |-> "none"]
Idle == [at |-> "idle"]
NoWalk == [offset |-> 0, shown |-> {}, more |-> FALSE]
TypeOK ==
  /\ call.at \in {"idle", "sent", "told"} /\ (call.at # "idle" => call.tool \in Tools)
  /\ wire \subseteq [n : 1..MaxCalls, try : 1..Tries, writes : BOOLEAN] /\ applied \in [1..MaxCalls -> 0..Tries] /\ calls \in 0..MaxCalls /\ faults \in 0..MaxFaults
Init ==
  /\ call = Idle /\ wire = {} /\ back = Lost /\ applied = [n \in 1..MaxCalls |-> 0] /\ search = [asked |-> {}, v1 |-> TRUE, got |-> Route(TRUE, {})]
  /\ walk = NoWalk /\ calls = 0 /\ faults = 0

Sent(n, try, tool) == [n |-> n, try |-> try, writes |-> tool.writes]
\* A call: refused before it is sent, or sent.
Called(tool) ==
  /\ call.at \in {"idle", "told"} /\ calls < MaxCalls /\ calls' = calls + 1 /\ back' = Lost
  /\ \/ tool.insists /\ call' = [at |-> "told", tool |-> tool, try |-> 0, said |-> "error", code |-> "none", open |-> FALSE] /\ UNCHANGED wire
     \/ call' = [at |-> "sent", tool |-> tool, try |-> 1, said |-> "", code |-> "none", open |-> FALSE] /\ wire' = wire \union {Sent(calls + 1, 1, tool)}
  /\ IF tool.name = "kb_search" THEN \E v1 \in BOOLEAN : \E asked \in SUBSET Filters : search' = [asked |-> asked, v1 |-> v1, got |-> Route(v1, asked)]
     ELSE UNCHANGED search
  /\ UNCHANGED <<applied, walk, faults>>
\* The API: what was asked is done and answered; refused; or it breaks, before or after the
\* write.  Nobody may be waiting any more.
Current(w) == call.at = "sent" /\ w.n = calls /\ w.try = call.try
Serve(w) ==
  /\ w \in wire /\ wire' = wire \ {w}
  /\ \E code \in Code \ {"timeout", "unreachable"} : \E after \in BOOLEAN : \E ev \in [done : BOOLEAN, text : BOOLEAN, failed : BOOLEAN, rows : BOOLEAN] :
       /\ after => code = "broken" /\ w.writes
       /\ code # "ok" => ev = [done |-> FALSE, text |-> FALSE, failed |-> FALSE, rows |-> FALSE]
       /\ (code = "ok" /\ ~(Current(w) /\ call.tool \in AskTools)) => ev.done /\ ev.text /\ ~ev.failed
       /\ faults' = IF code \in {"broken", "off"} THEN faults + 1 ELSE faults
       /\ applied' = IF w.writes /\ (code = "ok" \/ after) THEN [applied EXCEPT ![w.n] = @ + 1] ELSE applied
       /\ back' = IF Current(w) THEN [code |-> code] @@ ev ELSE back
  /\ faults' <= MaxFaults /\ UNCHANGED <<call, search, walk, calls>>
Told(code, said) == call' = [call EXCEPT !.at = "told", !.said = said, !.code = code]
\* The answer arrives; or the tool gives up before, or never reached the API at all.
Receive ==
  /\ call.at = "sent" /\ back # Lost /\ Told(back.code, Answer(call.tool, back)) /\ back' = Lost
  /\ UNCHANGED <<wire, applied, search, walk, calls, faults>>
Timeout ==
  /\ call.at = "sent" /\ faults < MaxFaults /\ faults' = faults + 1 /\ back' = Lost
  /\ \/ Told("timeout", Answer(call.tool, [code |-> "timeout"])) /\ UNCHANGED wire
     \/ \E w \in wire : Current(w) /\ wire' = wire \ {w} /\ Told("unreachable", Answer(call.tool, [code |-> "unreachable"]))
  /\ UNCHANGED <<applied, search, walk, calls>>
\* The assistant sends the call again.
Again ==
  /\ call.at = "told" /\ call.said = "backend_error" /\ Retryable(call.code) /\ call.try < Tries
  /\ call' = [call EXCEPT !.at = "sent", !.try = @ + 1, !.open = TRUE]
  /\ wire' = wire \union {Sent(calls, call.try + 1, call.tool)}
  /\ UNCHANGED <<back, applied, search, walk, calls, faults>>
\* kb_graph_explore: every node of the page is shown, and the offset of the next page.
Page(offset) == {i \in 1..Nodes : i > offset /\ i <= offset + PageSize}
Shown(page) == page
Walk ==
  /\ call.at = "told" /\ call.tool.name = "kb_graph_explore" /\ call.said = "found" /\ (walk = NoWalk \/ walk.more)
  /\ LET page == Page(walk.offset) IN
     walk' = [offset |-> walk.offset + Cardinality(page), shown |-> walk.shown \union Shown(page), more |-> walk.offset + Cardinality(page) < Nodes]
  /\ UNCHANGED <<call, wire, back, applied, search, calls, faults>>

Next ==
  \/ \E tool \in Tools : tool.name \in Used /\ Called(tool)
  \/ (\E w \in wire : Serve(w)) \/ Receive \/ Timeout \/ Again \/ Walk
Spec == Init /\ [][Next]_vars

-----------------------------------------------------------------------------
\* A failure is never told as a result: an empty result was the API's, not_found
\* means 404, an answer of kb_ask comes from a stream that finished, and what is
\* called done was applied.
Honest == call.at = "told" =>
  /\ call.said \in {"found", "nothing", "snippets"} => call.code = "ok"
  /\ call.said = "done" => applied[calls] > 0
  /\ call.said = "not_found" => call.code = "missing"
\* A write that was applied is not told as refused, unless an earlier try was left
\* open; the two decision tools that call every code an invalid request apart.
RefusalsAreTrue == call.at = "told" /\ call.said \in {"invalid_request", "not_found"} /\ applied[calls] > 0 => call.open \/ call.code \in DOMAIN call.tool.own
\* A filter the new endpoint alone knows, an exclusion above all, is carried or the
\* call is an error; with the old endpoint asked for, so is category.
FiltersCarried == search.got.told = "error" \/ (search.asked \ (IF search.v1 THEN {"category"} ELSE {})) \subseteq search.got.carries
\* Following the offsets shows every node found.
PagesCover == walk.offset >= Nodes => walk.shown = 1..Nodes
\* Refuted: no filter is dropped without a word.  With use_v1, the default, category is.
NoFilterDropped == search.got.told = "error" \/ search.asked \subseteq search.got.carries
\* Refuted: an invalid request is one the API refused.
InvalidIsRefused == call.at = "told" /\ call.said = "invalid_request" => call.code \in {"refused", "forbidden"}
=============================================================================
