------------------------------- MODULE Tokens -------------------------------
(***************************************************************************)
(* API tokens: which credentials the api accepts, and who changes that.      *)
(* Two files hold tokens: config/auth.json, written by people and by         *)
(* scripts/issue_system_token.py on the host, which takes no lock, and       *)
(* <data_dir>/auth_tokens.json, written by the administrators' page under    *)
(* flock.  A request looks its credential up in a table that is cached under *)
(* the stat() of both files (auth/principal.py).                             *)
(*                                                                          *)
(* A file is what it says about each name: the number of its token, or Gone; *)
(* `ver' stands for mtime, size and inode, new with every replacement.       *)
(* AUTH_TOKENS_JSON, fixed while the api runs, roles and the identity        *)
(* provider are left out.                                                    *)
(***************************************************************************)
EXTENDS Integers, FiniteSets

CONSTANTS
  Names, Askers, Admins, Hosts,
  Teams,                  \* which of them take part in a behaviour
  MaxTokens, MaxEdits     \* bounds of the environment

Gone == 0
Tokens == 1..MaxTokens

VARIABLES
  conf,    \* config/auth.json: its version, whether it parses, a token per name
  adm,     \* auth_tokens.json, the same
  known,   \* _token_cache: a key and a table
  busy,    \* holder of _token_cache_lock
  flock,   \* holder of auth_tokens.json.lock
  act,     \* every request, administrator's call and run of the script
  fresh,   \* tokens handed out so far
  team,    \* who takes part
  edits,   \* edits of config/auth.json by hand
  given, ended,   \* history: tokens the page has shown, and those it has revoked or rotated
  hosted   \* history: names the host wrote beside the page's own
files == <<conf, adm>>
hist  == <<given, ended, hosted>>
tokenVars == <<conf, adm, known, busy, flock, act, team, fresh, edits, given, ended, hosted>>

Procs == Askers \union Admins \union Hosts
Nobody == "nobody"
ASSUME TokensAssumption ==
  /\ MaxTokens \in Nat
  /\ Nobody \notin Procs
  /\ Askers \intersect Admins = {} /\ Askers \intersect Hosts = {} /\ Admins \intersect Hosts = {}
NoKey == [conf |-> 0, adm |-> 0]
NoTokens == [n \in Names |-> Gone]
Rest == [pc |-> "rest", name |-> "", what |-> "", tok |-> Gone, key |-> NoKey, table |-> {}, seen |-> NoTokens, was |-> {}]
Held(f) == {f.toks[n] : n \in Names} \ {Gone}
\* A file that does not parse contributes nothing (_build_token_table).
Contributes(f) == IF f.ok THEN Held(f) ELSE {}
Verdict(table, t) == IF t \in table THEN "accepted" ELSE "refused"
Valid(c, a, t) == Verdict(Contributes(c) \union Contributes(a), t)

TokensInit ==
  /\ conf = [ver |-> 1, ok |-> TRUE, toks |-> NoTokens]
  /\ adm  = [ver |-> 1, ok |-> TRUE, toks |-> NoTokens]
  /\ known = [key |-> NoKey, table |-> {}] /\ busy = Nobody /\ flock = Nobody
  /\ act = [p \in Procs |-> Rest] /\ team \in Teams /\ fresh = 0 /\ edits = 0
  /\ given = {} /\ ended = {} /\ hosted = {}

At(p, pc) == act[p].pc = pc
\* What every open request could have been told, now that the files are c and a.
Watched(c, a) == [p \in Procs |->
  IF p \in Askers /\ ~At(p, "rest") THEN [act[p] EXCEPT !.was = @ \union {Valid(c, a, act[p].tok)}] ELSE act[p]]
WithToken(f, n, t) == [f EXCEPT !.ver = @ + 1, !.toks[n] = t]

-----------------------------------------------------------------------------
(* A request: _token_cache_key(), then _load_token_table() under its lock.    *)

Present(q, t) ==
  /\ At(q, "rest") /\ t <= fresh
  /\ act' = [act EXCEPT ![q] = [Rest EXCEPT !.pc = "stat", !.tok = t, !.key = [NoKey EXCEPT !.conf = conf.ver], !.was = {Valid(conf, adm, t)}]]
  /\ UNCHANGED <<files, known, busy, flock, fresh, edits, hist>>
StatAdmin(q) ==
  /\ At(q, "stat")
  /\ act' = [act EXCEPT ![q].pc = "enter", ![q].key.adm = adm.ver]
  /\ UNCHANGED <<files, known, busy, flock, fresh, edits, hist>>
Answer(q, table) == act' = [act EXCEPT ![q].pc = "told", ![q].table = table \intersect {act[q].tok}, ![q].key = NoKey]
Enter(q) ==
  /\ At(q, "enter") /\ busy = Nobody
  /\ IF known.key = act[q].key THEN Answer(q, known.table) /\ UNCHANGED busy
     ELSE act' = [act EXCEPT ![q].pc = "build", ![q].table = Contributes(conf)] /\ busy' = q
  /\ UNCHANGED <<files, known, flock, fresh, edits, hist>>
MutKeyed(q) == [conf |-> conf.ver, adm |-> adm.ver]    \* mutant: under the files as they are by now
Keyed(q) == act[q].key
Build(q) ==
  /\ At(q, "build") /\ busy' = Nobody
  /\ LET table == act[q].table \union Contributes(adm) IN
     /\ known' = [key |-> Keyed(q), table |-> table]
     /\ Answer(q, table)
  /\ UNCHANGED <<files, flock, fresh, edits, hist>>
Leave(q) ==
  /\ At(q, "told") /\ act' = [act EXCEPT ![q] = Rest]
  /\ UNCHANGED <<files, known, busy, flock, fresh, edits, hist>>

-----------------------------------------------------------------------------
(* The administrators' page: issue, rotate and revoke, under flock.           *)

\* revoke_token() refuses the caller's own name before it looks at any file.
Change(w, n, what, by) ==
  /\ At(w, "rest") /\ ~(what = "revoke" /\ by = n)
  /\ act' = [act EXCEPT ![w] = [Rest EXCEPT !.pc = "wait", !.name = n, !.what = what]]
  /\ UNCHANGED <<files, known, busy, flock, fresh, edits, hist>>
MutFree(w) == TRUE
Free(w) == flock = Nobody
\* Refused: the name is in config/auth.json; it has a token and no rotation was
\* asked for; there is nothing to revoke.
Elsewhere(n) == conf.ok /\ conf.toks[n] # Gone
Refused(w) == LET a == act[w] IN
  \/ a.what # "revoke" /\ Elsewhere(a.name)
  \/ a.what = "issue"  /\ adm.toks[a.name] # Gone
  \/ a.what = "revoke" /\ adm.toks[a.name] = Gone
Take(w) ==
  /\ At(w, "wait") /\ Free(w)
  /\ IF Refused(w) THEN act' = [act EXCEPT ![w] = Rest] /\ UNCHANGED flock
     ELSE act' = [act EXCEPT ![w].pc = "write", ![w].seen = adm.toks] /\ flock' = w
  /\ UNCHANGED <<files, known, busy, fresh, edits, hist>>
\* The whole file is written from what was read, to a new file that replaces it.
Write(w) ==
  /\ At(w, "write") /\ (act[w].what = "revoke" \/ fresh < MaxTokens)
  /\ LET a == act[w] t == IF a.what = "revoke" THEN Gone ELSE fresh + 1
         new == WithToken([adm EXCEPT !.toks = a.seen], a.name, t) IN
     /\ adm' = new /\ fresh' = IF t = Gone THEN fresh ELSE t
     /\ act' = [Watched(conf, new) EXCEPT ![w].pc = "reply", ![w].tok = t]
     /\ ended' = ended \union ({a.seen[a.name]} \ {Gone})
  /\ flock' = IF flock = w THEN Nobody ELSE flock
  /\ UNCHANGED <<conf, known, busy, edits, given, hosted>>
Reply(w) ==
  /\ At(w, "reply") /\ given' = given \union ({act[w].tok} \ {Gone})
  /\ act' = [act EXCEPT ![w] = Rest]
  /\ UNCHANGED <<files, known, busy, flock, fresh, edits, ended, hosted>>
\* The process ends; the kernel lets go of its locks.
Dies(w) ==
  /\ ~At(w, "rest") /\ act' = [act EXCEPT ![w] = Rest]
  /\ flock' = IF flock = w THEN Nobody ELSE flock
  /\ UNCHANGED <<files, known, busy, fresh, edits, hist>>

-----------------------------------------------------------------------------
(* The host: issue_system_token.py, which looks at one file only and takes no *)
(* lock, and a person with an editor.                                         *)

HostReads(h, n, what) ==
  /\ At(h, "rest") /\ conf.ok
  /\ what = "issue" => conf.toks[n] = Gone
  /\ what = "revoke" => conf.toks[n] # Gone
  /\ act' = [act EXCEPT ![h] = [Rest EXCEPT !.pc = "write", !.name = n, !.what = what, !.seen = conf.toks]]
  /\ UNCHANGED <<files, known, busy, flock, fresh, edits, hist>>
Writing(n) == \E w \in Admins : flock = w /\ act[w].name = n
HostWrites(h) ==
  /\ At(h, "write") /\ (act[h].what = "revoke" \/ fresh < MaxTokens)
  /\ LET a == act[h] t == IF a.what = "revoke" THEN Gone ELSE fresh + 1
         new == WithToken([conf EXCEPT !.toks = a.seen, !.ok = TRUE], a.name, t) IN
     /\ conf' = new /\ fresh' = IF t = Gone THEN fresh ELSE t
     /\ hosted' = hosted \union {n \in Names : new.toks[n] # Gone /\ (adm.toks[n] # Gone \/ Writing(n))}
     /\ act' = [Watched(new, adm) EXCEPT ![h] = Rest]
  /\ UNCHANGED <<adm, known, busy, flock, edits, given, ended>>
\* An edit leaves the file broken, or mends it.
ByHand ==
  /\ edits < MaxEdits /\ edits' = edits + 1
  /\ LET new == [conf EXCEPT !.ver = @ + 1, !.ok = ~@] IN
     /\ conf' = new /\ act' = Watched(new, adm)
     /\ hosted' = hosted \union {n \in Names : new.toks[n] # Gone /\ (adm.toks[n] # Gone \/ Writing(n))}
  /\ UNCHANGED <<adm, known, busy, flock, fresh, given, ended>>

TokensNext ==
  /\ UNCHANGED team
  /\ \/ \E q \in Askers \intersect team : (\E t \in Tokens : Present(q, t)) \/ StatAdmin(q) \/ Enter(q) \/ Build(q) \/ Leave(q)
     \/ \E w \in Admins \intersect team :
          \/ \E n \in Names, by \in Names \union {Nobody}, what \in {"issue", "rotate", "revoke"} : Change(w, n, what, by)
          \/ Take(w) \/ Write(w) \/ Reply(w) \/ Dies(w)
     \/ \E h \in Hosts \intersect team : (\E n \in Names, what \in {"issue", "rotate", "revoke"} : HostReads(h, n, what)) \/ HostWrites(h) \/ Dies(h)
     \/ ByHand
TokensSpec == TokensInit /\ [][TokensNext]_tokenVars

-----------------------------------------------------------------------------
(* Properties *)

TokensTypeOK ==
  /\ conf.toks \in [Names -> 0..MaxTokens] /\ adm.toks \in [Names -> 0..MaxTokens]
  /\ busy \in Askers \union {Nobody} /\ flock \in Admins \union {Nobody} /\ fresh \in 0..MaxTokens

\* principal.py: whatever files change under a request and whoever built the table
\* it is served from, the answer was right at some moment of the request.
AnswersCurrent == \A q \in Askers : At(q, "told") => Verdict(act[q].table, act[q].tok) \in act[q].was

\* admin_tokens.py: a token the page has shown to somebody is in the file until
\* the page revokes or rotates it, and stays out from then on.
ShownIsKept == given \ ended \subseteq Held(adm)
EndedIsOut == Held(adm) \intersect ended = {}

\* A name has tokens in both files only if the host put one beside the page's.
OneHome == conf.ok => \A n \in Names : conf.toks[n] # Gone /\ adm.toks[n] # Gone => n \in hosted

\* Requests are judged by the files of their time, and the tokens of the page are where
\* they belong.
KeysAgree == TokensTypeOK /\ AnswersCurrent /\ ShownIsKept /\ EndedIsOut /\ OneHome
=============================================================================
