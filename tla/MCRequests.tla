--------------------------------- MODULE MCRequests ---------------------------------
(***************************************************************************)
(* What answers requests: the decision store under one request at a time,    *)
(* search, planning, answers, the tools for assistants, API tokens and       *)
(* signing in, each on a small instance.  A behaviour is about one part,     *)
(* named by `part', while the decisions, the tokens and the answer rest as   *)
(* they begin; the slots hold the variables of the other parts, and the ones *)
(* a part has no use for stay 0.                                             *)
(***************************************************************************)
EXTENDS MCDecisionStore, Tokens, Answering

VARIABLES part, s1, s2, s3, s4, s5, s6, s7, s8, s9, s10
slots == <<s1, s2, s3, s4, s5, s6, s7, s8, s9, s10>>
all == <<part, slots, vars, tokenVars, answerVars>>
\* A part leaves the slots after its own unused.
Zero10 == s10 = 0
Zero9 == s9 = 0 /\ Zero10
Zero8 == s8 = 0 /\ Zero9
Zero7 == s7 = 0 /\ Zero8
Zero6 == s6 = 0 /\ Zero7
Zero5 == s5 = 0 /\ Zero6
Zero4 == s4 = 0 /\ Zero5
Zero1 == s1 = 0 /\ s2 = 0 /\ s3 = 0 /\ Zero4
rest9 == <<s9, s10>>
rest8 == <<s8, rest9>>
rest7 == <<s7, rest8>>
rest6 == <<s6, rest7>>
rest5 == <<s5, rest6>>
rest4 == <<s4, rest5>>

\* Documents: tickets with and without the words, a page and its child, a confirmed
\* decision, a check item that copies ticket 2, a page that is not technical, a
\* decision that was superseded.  Identifier 12 names ticket 2 and the check item.
Paper(source, key, ext) == [source |-> source, key |-> key, ext |-> ext,
  status |-> "active", domain |-> "os", fields |-> {}, fresh |-> TRUE, tech |-> TRUE, decided |-> "confirmed", recheck |-> FALSE, year |-> 0,
  above |-> {}, linux |-> FALSE, az |-> FALSE]
Papers == << [Paper("support_history", 0, 11) EXCEPT !.year = 2026, !.az = TRUE], Paper("support_history", 0, 12),
  Paper("map", 7, 13), [Paper("map", 7, 14) EXCEPT !.above = {13}], Paper("confirmed_decision", 0, 15),
  [Paper("checkitem", 0, 12) EXCEPT !.linux = TRUE], [Paper("map", 0, 16) EXCEPT !.tech = FALSE],
  [Paper("confirmed_decision", 0, 17) EXCEPT !.status = "superseded", !.decided = "superseded", !.fresh = FALSE] >>
NoFilter == [source |-> "any", status |-> "active", superseded |-> FALSE, domain |-> "any", fields |-> {}, pages |-> {}, sources |-> {}, trees |-> {},
  maps |-> "unset", copies |-> TRUE]
Variant(kind, ranks, rare) == [kind |-> kind, rank |-> ranks, rare |-> rare, whole |-> kind = "word", synonym |-> FALSE,
  like |-> IF kind = "fs" THEN {1, 3} ELSE {}, expansion |-> [d \in 1..8 |-> IF d = 1 /\ ~rare THEN 1 ELSE 0]]
Query == [filter |-> NoFilter, chunks |-> <<1, 2, 3>>, first |-> {1, 2, 3}, titled |-> {2, 4}, variants |-> <<>>, near |-> <<>>, words |-> 2, exact |-> <<>>,
  items |-> FALSE, linux |-> TRUE, years |-> {}, pointer |-> 85, worded |-> {2}, top |-> 1, missing |-> FALSE]
\* The chunks' documents, and which chunks come first in theirs.
Assigned == {<<<<1, 1, 2>>, {2, 3}>>, <<<<1, 2, 3>>, 1..3>>, <<<<1, 3, 4>>, 1..3>>, <<<<3, 3, 4>>, {1, 3}>>, <<<<1, 4, 4>>, {1, 3}>>,
  <<<<3, 5, 6>>, 1..3>>, <<<<2, 6, 7>>, 1..3>>, <<<<5, 8, 1>>, 1..3>>}
Neighbours == {<<>>, <<1>>, <<1, 2, 3>>, <<3, 2, 1>>, <<2, 3>>}
Ranks == {<<0, 0, 0>>, <<1, 2, 0>>, <<0, 1, 3>>}
Pairs == {<<Variant("word", a, FALSE), Variant("phrase", b, rare)>> : a \in Ranks, b \in Ranks, rare \in BOOLEAN}
  \union {<<Variant("fs", a, FALSE), Variant("code", <<0, 1, 3>>, FALSE)>> : a \in Ranks}
Shapes == {Query, [Query EXCEPT !.top = 2], [Query EXCEPT !.items = TRUE, !.pointer = 50],
  [Query EXCEPT !.exact = <<[named |-> {2}, inside |-> {}], [named |-> {}, inside |-> {2, 3}]>>, !.top = 2],
  [Query EXCEPT !.years = {2026}, !.words = 1, !.missing = TRUE], [Query EXCEPT !.filter.source = "pages", !.top = 2],
  [Query EXCEPT !.filter.trees = {13}, !.filter.copies = FALSE, !.top = 2], [Query EXCEPT !.filter.superseded = TRUE, !.filter.pages = {11}],
  [Query EXCEPT !.filter.domain = "OS", !.filter.source = "checkitem"]}
Queries == {[s EXCEPT !.chunks = a[1], !.first = a[2], !.variants = v, !.near = n] : s \in Shapes, a \in Assigned, v \in Pairs \union {<<>>}, n \in Neighbours}
Rewritten == {[Query EXCEPT !.top = 2, !.titled = t, !.chunks = a, !.variants = <<Variant("phrase", r, FALSE)>>, !.near = n] :
  t \in {{2, 4}, {}}, a \in {<<1, 3, 4>>, <<2, 6, 3>>}, r \in Ranks, n \in {<<>>, <<2, 3>>, <<3>>}}
Of(q, kind) == [q |-> q, kind |-> kind]
Asks(way, multi, searches) == [way |-> way, multi |-> multi, audit |-> TRUE, known |-> 1..8, searches |-> searches]
\* The same filter in the three ways in, and while nobody remembers a document.
Written == {[Query EXCEPT !.filter.source = s, !.filter.domain = d, !.filter.sources = x, !.variants = <<Variant("word", <<1, 2, 0>>, FALSE)>>] :
  s \in {"any", "map", "pages", "general", "unheard"}, d \in {"any", "os", "OS"}, x \in {{}, {"pages"}, {"unheard"}}}
Finds == INSTANCE Search WITH Doc <- Papers, FtsLimit <- 2, VecLimit <- 2, PromoteLimit <- 1, LikeLimit <- 2, ExpansionWeight <- 50, MaxQueries <- 2,
  Sources <- {"support_history", "confirmed_decision"}, Alias <- [pages |-> "map"], Section <- [general |-> "any"],
  Spellings <- <<"OS", "os">>, Lower <- [OS |-> "os", os |-> "os"],
  Questions <- {Asks("v1", FALSE, <<Of(q, "own")>>) : q \in Queries} \union {Asks("v1", TRUE, <<Of(q, "own")>>) : q \in Rewritten}
    \union {Asks("v1", TRUE, <<Of(q, "own"), Of(r, "common"), Of(r, "single"), Of(q, "id")>>) : q \in Rewritten, r \in Rewritten}
    \union {[Asks(w, m, <<Of(q, "own")>>) EXCEPT !.known = k] : w \in {"v1", "wiki", "external"}, m \in BOOLEAN, q \in Written, k \in {{}, 1..8}},
  question <- s1, pages <- s2, answer <- s3, logged <- s4

Hit(id, eligible, decision, size) == [id |-> id, eligible |-> eligible, decision |-> decision, size |-> size, score |-> 0, near |-> FALSE]
Near(hit, id, score) == [hit EXCEPT !.id = id, !.near = TRUE, !.score = score]
Ticket1 == Hit(1, TRUE, "none", 2)
Ticket2 == Hit(2, TRUE, "none", 3)
MapPage == Hit(3, FALSE, "none", 2)
Ruling == Hit(4, TRUE, "current", 2)
Recheck == Hit(5, TRUE, "recheck", 2)
Found == {[trust |-> "empty", hits |-> <<>>, near |-> <<>>]} \union {[trust |-> t, hits |-> h, near |-> n] : t \in {"weak", "medium", "strong"},
  h \in {<<>>, <<Ticket1>>, <<MapPage>>, <<Ticket1, Ticket2>>, <<MapPage, Ticket2, Ruling>>, <<Recheck, MapPage>>, <<Ticket2, MapPage>>},
  n \in {<<>>, <<Near(Ticket1, 6, 2), Near(Ticket1, 7, 6)>>, <<Near(Ruling, 8, 3), Near(MapPage, 9, 4)>>}}
QuestionsAsked == {[mode |-> m, backend |-> b, found |-> f] : m \in {"fast", "stream"}, b \in {"fabrix", "openrouter"}, f \in Found}
Texts == {[blank |-> TRUE, declines |-> TRUE, long |-> FALSE, cites |-> {}]} \union
  {[blank |-> FALSE, declines |-> d, long |-> l, cites |-> c] : d \in BOOLEAN, l \in BOOLEAN, c \in {{}, {1}, {1, 2}, {3, 9}}}
Unasked == [mode |-> "fast", backend |-> "fabrix", found |-> [trust |-> "empty", hits |-> <<>>, near |-> <<>>]]

\* Leap days, half dates, ranges over New Year and in the wrong order, a day to a month.
Span(form, from, to) == [form |-> form, from |-> from, to |-> to]
NoSpan == Span("none", <<2024, 1, 1>>, <<2024, 1, 1>>)
Spans == {Span("half", <<2024, 1, 1>>, <<2024, 1, 1>>), Span("date", <<2024, 1, 1>>, <<2024, 1, 1>>), Span("days", <<2024, 9, 7>>, <<2024, 2, 29>>),
  Span("days", <<2025, 2, 29>>, <<2025, 3, 1>>), Span("months", <<2024, 12, 1>>, <<2024, 12, 1>>), Span("months", <<2024, 11, 1>>, <<2024, 2, 1>>),
  Span("mixed", <<2024, 9, 7>>, <<2024, 10, 1>>)}
Phrase(kind) == [kind |-> kind, n |-> 0, recent |-> kind \in {"last_30", "last_90", "last_n_weeks"}]
NoPhrase == Phrase("none")
Phrases == {Phrase(k) : k \in {"yesterday", "this_week", "last_week", "this_month", "last_month", "this_year", "last_year", "last_30", "last_90", "last_n_days", "today"}}
  \union {[Phrase("last_n_weeks") EXCEPT !.n = 99]}
\* 1 March 2024, 5 January 2025, 30 December 2024, 31 March 2025: after a leap day,
\* in the first week of a year, in the last one, at the end of a quarter.
Sunday == 9136
Days == {8826, Sunday, 9130, 9221}
Said == {"listed", "count", "tickets", "tech", "techjobs", "trouble", "swim", "kinds", "axis", "status", "owner", "yearly", "monthly", "share", "title",
  "notice", "redis", "units", "effort", "cases", "similar", "prevent", "all", "check", "groups"}
Say(words, spans, phrases, years, days) == [words : words, span : spans, rel : phrases, year : years, today : days]
Plans == INSTANCE Planner WITH Questions <-
    Say({{v, w} : v, w \in Said}, {NoSpan}, {NoPhrase, Phrase("last_month")}, {0}, {Sunday}) \union Say({{v, w} : v, w \in Said}, Spans, {NoPhrase}, {0}, {Sunday})
    \union Say({{"count"}, {"tickets"}, {"trouble"}}, {NoSpan}, Phrases, {0, 2024}, Days) 
    \union Say({{"count"}, {"tickets"}, {"count", "redis"}}, Spans, Phrases \union {NoPhrase}, {0, 2025}, Days),
  q <- s1, plan <- s2, out <- s3

Tools == INSTANCE McpTools WITH Used <- {"kb_search", "kb_propose_decision", "kb_ask", "kb_graph_explore", "kb_refine_failure_bucket"},
  Nodes <- 3, PageSize <- 2, MaxCalls <- 2, Tries <- 2, MaxFaults <- 2,
  call <- s1, wire <- s2, back <- s3, applied <- s4, search <- s5, walk <- s6, calls <- s7, faults <- s8
\* Who shares the credentials: two requests and the host, two administrators and the
\* host, or a request and an administrator.
Together == {{"q1", "q2", "h1"}, {"w1", "w2", "h1"}, {"q1", "w1"}}
\* Both providers, with and without a local secret, every way to expect an audience, a
\* provider that is reached under another name, and spellings of AUTH_MODE.
Settings(mode, secret, issuer, audience, base) == [mode |-> mode, secret |-> secret, issuer |-> issuer, client |-> issuer # "none", audience |-> audience,
  dotted |-> issuer = "idp", base |-> base]
Signs == INSTANCE Login WITH Configs <- {Settings("oidc", FALSE, "mock", "ours", TRUE), Settings("off", TRUE, "mock", "unset", FALSE),
    Settings("oidc", FALSE, "idp", "any", TRUE), Settings("apikey", TRUE, "idp", "unset", TRUE), Settings("oidc_stub", TRUE, "none", "unset", TRUE),
    Settings("false", FALSE, "idp", "ours", TRUE)},
  People <- {"p", "q"}, Claims <- [p |-> [claim |-> {"reviewer", "user"}, realm |-> {"kb-admin"}, groups |-> {}], q |-> [claim |-> {}, realm |-> {}, groups |-> {"editor"}]],
  Paths <- {"/wiki"}, Shapes <- {[aud |-> {}, azp |-> "ours"], [aud |-> {"ours", "account"}, azp |-> "else"]}, KeyRoles <- {{}, {"admin"}},
  Logins <- {"l1"}, Requests <- {1, 2}, StateLife <- 2, CodeLife <- 1, TokenLife <- 2, DocLife <- 2, MaxTime <- 3, MaxFaults <- 1,
  cfg <- s1, now <- s2, redis <- s3, doc <- s4, key <- s5, kept <- s6, code <- s7, login <- s8, req <- s9, faults <- s10

Decides == part = "Decisions"
Guards == part = "Keys"
Replies == part = "Answers"
RequestsInit ==
  /\ Init /\ TokensInit /\ (Guards \/ team = {"q1", "w1"})
  /\ AnswersInit /\ (Replies \/ asked = Unasked)
  /\ \/ (Decides \/ Guards \/ Replies) /\ Zero1
     \/ part = "Finds" /\ Finds!Init /\ Zero5
     \/ part = "Plans" /\ Plans!Init /\ Zero4
     \/ part = "Tools" /\ Tools!Init /\ Zero9
     \/ part = "Signs" /\ Signs!Init
RequestsNext ==
  /\ UNCHANGED part
  /\ \/ Decides /\ Next /\ UNCHANGED <<slots, tokenVars, answerVars>>
     \/ Guards /\ TokensNext /\ UNCHANGED <<slots, vars, answerVars>>
     \/ Replies /\ AnswersNext /\ UNCHANGED <<slots, vars, tokenVars>>
     \/ UNCHANGED <<vars, tokenVars, answerVars>> /\
          \/ part = "Finds" /\ Finds!Next /\ UNCHANGED rest5
          \/ part = "Plans" /\ Plans!Next /\ UNCHANGED rest4
          \/ part = "Tools" /\ Tools!Next /\ UNCHANGED rest9
          \/ part = "Signs" /\ Signs!Next
RequestsSpec == RequestsInit /\ [][RequestsNext]_all

-----------------------------------------------------------------------------
(* The properties of the parts: conjunctions of what their modules state.    *)

\* search.py, multi_query.py, planner.py: identifiers and titles win, a document is
\* shown by its best chunk, a page is empty for a reason, rewrites only add; and the
\* dates a question names are the ones its handler gets, of the records it asks about.
\* rag/pipeline.py: a confirmed decision reaches the model before what it settles.
QueriesMeant ==
  /\ part = "Finds" => Finds!RareAhead /\ Finds!TitleFirst /\ Finds!BestOfEach /\ Finds!EmptyForAReason /\ Finds!MergedBest
  /\ part = "Plans" => Plans!TypeOK /\ Plans!RangeIsMeant /\ Plans!SwimStays
  /\ Replies => DecisionFirst
\* mcp-server/server.py: what a tool tells the assistant is what the API did, and
\* filters and pages arrive whole.  oidc.py, routers/auth.py: a person comes back signed
\* in to where the login was begun, a code is spent once, and a token counts until it ends.
RepliesAreTrue ==
  /\ part = "Tools" => Tools!TypeOK /\ Tools!Honest /\ Tools!RefusalsAreTrue /\ Tools!FiltersCarried /\ Tools!PagesCover
  /\ part = "Signs" => Signs!TypeOK /\ Signs!SignedIn /\ Signs!LandsWhereAsked /\ Signs!CodeSpentOnce /\ Signs!StaysSignedIn
=============================================================================
