------------------------------ MODULE WikiClient ------------------------------
(***************************************************************************)
(* How the api talks to Confluence (confluence/client.py), and the diagrams  *)
(* it reads and writes there (confluence/service.py, macro.py and            *)
(* routers/confluence.py).  A crawl paces its requests and repeats those      *)
(* that were refused for the moment; a call about diagrams does neither.     *)
(* Both are charged to one account, whose tokens come back one by one, as    *)
(* client.py:52 takes them to.                                               *)
(*                                                                          *)
(* A title is a base and an extension; "none" is a title without one.  What  *)
(* a body or a file says is reduced to who wrote it.  Connections that the    *)
(* transport opens again (retries=2) are part of one request.  The search    *)
(* for pages of a space, a body that is no UTF-8, and a page that is gone     *)
(* are left out.                                                             *)
(***************************************************************************)
EXTENDS Integers, FiniteSets, Sequences, FiniteSetsExt, SequencesExt

CONSTANTS
  Calls,           \* calls about the diagrams of one page
  Mixes,           \* which processes meet: calls, what they may ask ([op, name]), pages to crawl,
                   \* changes by people; time, tokens at first, whether there are credentials,
                   \* and the page's attachments at first: a sequence of [id, title, text]
  Inline,          \* names of the diagrams in the page's body, in order
  Edited,          \* titles people edit
  Lower, Plain,    \* base -> in small letters; and stripped of blanks too
  Limit,           \* attachments one listing returns
  Interval, MaxRetries, Second, MinDelay, LongestBackoff,
  Refill, Burst,   \* ticks until another token comes; tokens at most
  Afters,          \* what Retry-After says, Unsaid where it is missing or no number
  MaxFaults
Unsaid == -1

VARIABLES
  mix, now,
  tokens, due,     \* of the account, and ticks until the next one
  rival,           \* a token was taken since the crawl's last request
  crawl,           \* the crawl: where it is, its page, attempt, and until when it sleeps
  last,            \* when the limiter let the last request pass
  trace,           \* history: the crawl's requests
  page,            \* attachments of the page, in the order the listing has them
  log,             \* history: changes of the page
  call,
  edits, faults
wikiVars == <<mix, now, tokens, due, rival, crawl, last, trace, page, log, call, edits, faults>>
crawlVars == <<crawl, last, trace>>
pageVars == <<page, log>>

Free == [at |-> "free", op |-> "none", name |-> [base |-> "", ext |-> "none"], seen |-> <<>>, found |-> 0, from |-> 0, listed |-> 0,
         wrote |-> 0, until |-> 0, status |-> "none", got |-> "none"]
Init ==
  /\ mix \in Mixes /\ now = 0 /\ tokens = mix.tokens /\ due = Refill /\ rival = FALSE
  /\ crawl = [at |-> "pace", page |-> 1, attempt |-> 0, until |-> 0] /\ last = -Interval /\ trace = <<>>
  /\ page = mix.page /\ log = <<>> /\ call = [c \in Calls |-> Free] /\ edits = 0 /\ faults = 0
Fault == faults < MaxFaults /\ faults' = faults + 1
Token == tokens > 0 /\ tokens' = tokens - 1
Tick ==
  /\ now < mix.time /\ now' = now + 1
  /\ IF tokens >= Burst THEN UNCHANGED <<tokens, due>>
     ELSE IF due = 1 THEN tokens' = tokens + 1 /\ due' = Refill ELSE due' = due - 1 /\ UNCHANGED tokens
  /\ UNCHANGED <<mix, rival, crawlVars, pageVars, call, edits, faults>>

-----------------------------------------------------------------------------
(* The crawl: RateLimiter.wait() and _get_with_retry().                      *)

Backoff(k) == Second * Min({2^k, LongestBackoff})
MutDelay(k, after, told) == Max({IF after = Unsaid THEN Backoff(k) ELSE after, MinDelay})   \* mutant: Retry-After is believed
Delay(k, after, told) ==     \* told: the answer has the X-RateLimit headers
  Max({IF after = Unsaid THEN Backoff(k) ELSE after, IF told THEN Refill ELSE 0, MinDelay})
Retryable == {"429", "503", "lost"}
\* One request of the crawl: the next one is for the next page, or for this one later on.
Answered(answer, told, delay) ==
  /\ last' = now /\ rival' = FALSE
  /\ trace' = Append(trace, [t |-> now, page |-> crawl.page, answer |-> answer, told |-> told, rival |-> rival])
  /\ crawl' = IF answer \in Retryable /\ crawl.attempt < MaxRetries
              THEN [crawl EXCEPT !.at = "sleep", !.attempt = @ + 1, !.until = now + delay]
              ELSE [crawl EXCEPT !.at = "pace", !.attempt = 0, !.page = @ + 1]
  /\ UNCHANGED <<mix, now, due, pageVars, call, edits>>
Passes == crawl.at = "pace" /\ crawl.page <= mix.pages /\ now >= last + Interval
Send ==
  /\ Passes
  /\ \/ Token /\ UNCHANGED faults /\ Answered("200", FALSE, 0)
     \/ Token /\ Fault /\ Answered("other", FALSE, 0)     \* 401, 404, 500: raised at once
     \/ Token /\ Fault /\ \E a \in Afters : Answered("503", FALSE, Delay(crawl.attempt, a, FALSE))
     \/ UNCHANGED tokens /\ Fault /\ Answered("lost", FALSE, Backoff(crawl.attempt))
     \/ /\ tokens = 0 /\ UNCHANGED <<tokens, faults>>
        /\ \E a \in Afters, told \in BOOLEAN : Answered("429", told, Delay(crawl.attempt, a, told))
Wake ==
  /\ crawl.at = "sleep" /\ now >= crawl.until /\ crawl' = [crawl EXCEPT !.at = "pace"]
  /\ UNCHANGED <<mix, now, tokens, due, rival, last, trace, pageVars, call, edits, faults>>

-----------------------------------------------------------------------------
(* Diagrams.                                                                 *)

Source == {"drawio", "DRAWIO", "xml"}      \* _DIAGRAM_SOURCE_EXTENSIONS, in any case
\* match_attachment_for_diagram(): the first that fits the first rule that any fits.
MutRules(n, atts) ==      \* mutant: the stem is compared without looking at the extension
  << {i \in DOMAIN atts : n.ext = "none" /\ atts[i].title = [base |-> n.base, ext |-> "drawio"]},
     {i \in DOMAIN atts : atts[i].title = n},
     {i \in DOMAIN atts : n.ext = "none" /\ atts[i].title.ext # "none" /\ Lower[atts[i].title.base] = Plain[n.base]} >>
Rules(n, atts) ==
  << {i \in DOMAIN atts : n.ext = "none" /\ atts[i].title = [base |-> n.base, ext |-> "drawio"]},
     {i \in DOMAIN atts : atts[i].title = n},
     {i \in DOMAIN atts : n.ext = "none" /\ atts[i].title.ext \in Source /\ Lower[atts[i].title.base] = Plain[n.base]} >>
Match(n, atts) ==      \* 0 for none
  LET hits == SelectSeq(Rules(n, atts), LAMBDA S : S # {})
  IN IF hits = <<>> THEN 0 ELSE atts[Min(Head(hits))].id
\* list_diagrams(): what the body names, and the other .drawio files.
Items(atts) ==
  LET inline == {[name |-> n, id |-> Match(n, atts)] : n \in Range(Inline)}
      other  == {a \in Range(atts) : a.title.ext = "drawio" /\ a.id \notin {x.id : x \in inline}}
  IN inline \union {[name |-> [base |-> a.title.base, ext |-> "none"], id |-> a.id] : a \in other}

Place(id) == {i \in DOMAIN page : page[i].id = id}
Titled(t) == {i \in DOMAIN page : page[i].title = t}
NewId == Max({page[i].id : i \in DOMAIN page} \union {k.id : k \in Range(log)} \union {0}) + 1
Change(how, id, title, by) == log' = Append(log, [how |-> how, id |-> id, title |-> title, by |-> by])
PutUnder(t, by) ==      \* a file under a title: a new version of the one there, or a new one
  IF Titled(t) # {} THEN LET i == Min(Titled(t)) IN page' = [page EXCEPT ![i].text = by] /\ Change("update", page[i].id, t, by)
  ELSE page' = Append(page, [id |-> NewId, title |-> t, text |-> by]) /\ Change("create", NewId, t, by)
Edit ==
  /\ edits < mix.edits /\ edits' = edits + 1
  /\ \/ \E t \in Edited : PutUnder(t, "people")
     \/ \E i \in DOMAIN page : page' = RemoveAt(page, i) /\ Change("delete", page[i].id, page[i].title, "people")
  /\ UNCHANGED <<mix, now, tokens, due, rival, crawlVars, call, faults>>

Begin(c, op, n) ==
  /\ c \in mix.calls /\ call[c].at = "free"
  /\ call' = [call EXCEPT ![c] = [Free EXCEPT !.at = IF ~mix.configured THEN "done" ELSE IF op = "list" THEN "body" ELSE "attach",
                !.op = op, !.name = n, !.from = Len(log), !.status = IF mix.configured THEN "none" ELSE "503"]]
  /\ UNCHANGED <<mix, now, tokens, due, rival, crawlVars, pageVars, edits, faults>>
Ended(k, status) == [k EXCEPT !.at = "done", !.status = status, !.until = Len(log')]
Asks == Token /\ rival' = TRUE /\ UNCHANGED <<mix, now, due, crawlVars, edits>>
Body(c) == Asks /\ call[c].at = "body" /\ call' = [call EXCEPT ![c].at = "attach"] /\ UNCHANGED <<pageVars, faults>>
Attach(c) ==
  /\ Asks /\ call[c].at = "attach" /\ UNCHANGED <<pageVars, faults>>
  /\ LET atts == SubSeq(page, 1, Min({Limit, Len(page)}))
         k == [call[c] EXCEPT !.seen = atts, !.found = Match(call[c].name, atts), !.listed = Len(log)]
     IN call' = [call EXCEPT ![c] = CASE k.op = "list" -> Ended(k, "200")
                                      [] k.op = "get" /\ k.found = 0 -> Ended(k, "404")
                                      [] k.op = "get" /\ k.found # 0 -> [k EXCEPT !.at = "download"]
                                      [] OTHER -> [k EXCEPT !.at = "write"]]
\* The link names the version that was listed; the older one may be served, or the newer.
Download(c) ==
  /\ Asks /\ call[c].at = "download" /\ UNCHANGED <<pageVars, faults>>
  /\ \E a \in Range(call[c].seen) \union Range(page) : a.id = call[c].found /\
       call' = [call EXCEPT ![c] = IF Place(a.id) = {} THEN Ended(@, "404")
                                   ELSE IF a.text = "binary" THEN Ended(@, "502") ELSE [Ended(@, "200") EXCEPT !.got = a.text]]
\* update_attachment_data() keeps the title; create_attachment() takes the bare name.
Written(c, status) ==
  LET k == call[c] IN
  IF k.found # 0
  THEN IF Place(k.found) = {} THEN UNCHANGED pageVars /\ call' = [call EXCEPT ![c] = Ended(@, "404")]
       ELSE LET i == Min(Place(k.found)) IN
            /\ page' = [page EXCEPT ![i].text = c] /\ Change("update", k.found, page[i].title, c)
            /\ call' = [call EXCEPT ![c] = [Ended(@, status) EXCEPT !.wrote = Len(log')]]
  ELSE IF Titled(k.name) # {} THEN UNCHANGED pageVars /\ call' = [call EXCEPT ![c] = Ended(@, "duplicate")]      \* 400, told as 502
       ELSE PutUnder(k.name, c) /\ call' = [call EXCEPT ![c] = [Ended(@, status) EXCEPT !.wrote = Len(log')]]
Write(c) ==
  /\ Asks /\ call[c].at = "write"
  /\ \/ Written(c, "200") /\ UNCHANGED faults
     \/ Written(c, "502") /\ Fault      \* the answer is lost
\* No connection, a time-out, or a status that is an error: refused with 502, and so is
\* a request for which no token is left.  Nothing is tried again.
Fails(c) ==
  /\ call[c].at \notin {"free", "done"}
  /\ (tokens = 0 /\ UNCHANGED faults) \/ Fault
  /\ UNCHANGED <<mix, now, tokens, due, rival, crawlVars, pageVars, edits>>
  /\ call' = [call EXCEPT ![c] = Ended(@, "502")]

Next ==
  \/ Tick \/ Send \/ Wake \/ Edit
  \/ \E c \in Calls :
       \/ \E x \in mix.asks : Begin(c, x.op, x.name)
       \/ Body(c) \/ Attach(c) \/ Download(c) \/ Write(c) \/ Fails(c)
Spec == Init /\ [][Next]_wikiVars

-----------------------------------------------------------------------------
(* Properties. *)

Requests == DOMAIN trace
Later(i) == i + 1 \in Requests /\ trace[i + 1].page = trace[i].page      \* the same call goes on
\* The crawl keeps its distance between requests, over calls, sleeps and failures.
Paced == \A i, j \in Requests : i < j => trace[j].t >= trace[i].t + Interval
\* client.py:44: an answer that tells its rates is not followed by another refusal, be its
\* Retry-After 0 as it may, unless somebody else took the token that came meanwhile.
NoStorm == \A i \in Requests : Later(i) /\ trace[i].told /\ trace[i + 1].answer = "429" => trace[i + 1].rival
\* A page is given up after MaxRetries + 1 requests that were refused for the moment, or
\* after one that was refused for good, which is not tried again.
GivesUpLate ==
  /\ \A i \in Requests : Later(i) => trace[i].answer \in Retryable
  /\ \A p \in 1..(crawl.page - 1) : LET mine == {i \in Requests : trace[i].page = p} IN
       /\ Cardinality(mine) <= MaxRetries + 1
       /\ trace[Max(mine)].answer \in Retryable => Cardinality(mine) = MaxRetries + 1

Over(c) == call[c].at = "done"
Cut(c) == Len(call[c].seen) = Limit      \* the listing may have ended before the page did
\* A diagram that was put is read by whoever asks for its name before the page changes
\* again, unless the page changed under the put, or has more than the listing shows.
PutIsRead == \A p, g \in Calls :
  /\ call[p].wrote > 0 /\ call[p].wrote = call[p].listed + 1
  /\ call[g].op = "get" /\ Over(g) /\ call[g].name = call[p].name /\ call[g].from >= call[p].wrote /\ call[g].until = call[p].wrote
  => call[g].got = p \/ call[g].status = "502" \/ Cut(g)
\* What a list names under an attachment is got by that name from this attachment, and
\* what it names without one is not found.
ListedIsRead == \A l, g \in Calls :
  /\ call[l].op = "list" /\ call[l].status = "200" /\ call[g].op = "get" /\ Over(g) /\ call[g].seen # <<>>
  /\ call[l].listed = call[g].listed
  => \A x \in Items(call[l].seen) : x.name = call[g].name => x.id = call[g].found /\ (x.id = 0 <=> call[g].found = 0)
\* macro.py:23: a name without an extension never stands for a preview or a lock file, so
\* that no put overwrites one.
SourcesOnly == \A k \in Range(log) : k.by \in Calls /\ call[k.by].name.ext = "none" => k.title.ext \in Source \union {"none"}
\* A put is refused as a duplicate only when somebody added the name after it had looked,
\* or the name was beyond what its listing showed.
DuplicateIsNew == \A c \in Calls : call[c].status = "duplicate" =>
  \/ \E i \in (call[c].listed + 1)..call[c].until : log[i].how = "create" /\ log[i].title = call[c].name
  \/ Cut(c)
ClientFits == Paced /\ NoStorm /\ GivesUpLate /\ PutIsRead /\ ListedIsRead /\ SourcesOnly /\ DuplicateIsNew
=============================================================================
