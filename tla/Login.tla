-------------------------------- MODULE Login --------------------------------
(***************************************************************************)
(* Who a request comes from (auth/oidc.py, auth/mock_idp.py, routers/auth.py, *)
(* auth/principal.py, auth/deps.py).  A person is sent to the identity        *)
(* provider with a state kept in redis, comes back with a code, and a         *)
(* callback exchanges the code, looks at the token and sends the browser on.  *)
(* A browser may send one callback twice.  The state and the codes of the     *)
(* provider inside the api (/v1/mock-idp) are read and then deleted: two      *)
(* calls to redis.                                                            *)
(*                                                                           *)
(* A token is what its checks look at; signatures and codes cannot be         *)
(* guessed.  `ours' is the configured issuer and the configured client.       *)
(* Which API keys there are is the module Tokens.  PyJWT: a token with an     *)
(* audience is refused where none is expected, and one without where one is.  *)
(***************************************************************************)
EXTENDS Integers, FiniteSets

CONSTANTS
  Configs,      \* [mode, secret, issuer : "none"|"mock"|"idp", client, audience : "unset"|"any"|"ours", dotted, base]
  People,       \* who signs in
  Claims,       \* People -> [claim, realm, groups]: sets of role names in the token
  Paths,        \* return_to of a login, "none" where it has none
  Shapes,       \* [aud, azp]: what the tokens of an external provider carry
  KeyRoles,     \* roles of API keys
  Logins, Requests,
  StateLife, CodeLife, TokenLife, DocLife, MaxTime,
  MaxFaults
Never == -1

VARIABLES
  cfg,      \* the settings, fixed while the api runs
  now,
  redis,    \* whether it answers
  doc,      \* when the discovery document was fetched
  key,      \* the provider's signing key; the mock's is new with every process
  kept,     \* logins whose state is in redis
  code,     \* Logins -> where the code is
  login,    \* the logins
  req,      \* callbacks
  faults
vars == <<cfg, now, redis, doc, key, kept, code, login, req, faults>>

NoToken == [alg |-> "none", key |-> 0, iss |-> "none", aud |-> {}, azp |-> "none", until |-> 0, who |-> "none"]
FreeLogin == [at |-> "free", to |-> "none", begun |-> 0, coded |-> 0, who |-> "none"]
FreeRequest == [at |-> "free", of |-> "none", to |-> "none", token |-> NoToken, sub |-> "none", beside |-> {}]
TypeOK ==
  /\ cfg \in Configs /\ now \in 0..MaxTime /\ doc \in Never..MaxTime /\ kept \subseteq Logins
  /\ code \in [Logins -> {"none", "redis", "memory", "idp"}]
  /\ \A l \in Logins : login[l].at \in {"free", "away", "back", "refused"}
  /\ \A r \in Requests : req[r].at \in {"free", "state", "unstate", "code", "uncode", "check", "home", "failed"} /\ req[r].beside \subseteq Requests
Init ==
  /\ cfg \in Configs /\ now = 0 /\ redis = TRUE /\ doc = Never /\ key = 1 /\ kept = {} /\ code = [l \in Logins |-> "none"]
  /\ login = [l \in Logins |-> FreeLogin] /\ req = [r \in Requests |-> FreeRequest] /\ faults = 0

Fault == faults < MaxFaults /\ faults' = faults + 1
Go(r, at) == req' = [req EXCEPT ![r].at = at]
Mock == cfg.issuer = "mock"

-----------------------------------------------------------------------------
(* Tokens.                                                                   *)

Roles == {"viewer", "author", "senior", "admin"}
Meaning == [admin |-> {"admin", "kb-admin", "citec-admin", "administrator"}, senior |-> {"senior", "kb-senior", "citec-senior", "reviewer"},
  author |-> {"author", "kb-author", "citec-author", "editor", "writer"}, viewer |-> {"viewer", "kb-viewer", "citec-viewer", "user", "default-roles-citec"}]
\* A dotted claim is a path and has no fallback; another gives way to Keycloak's places.
RawRoles(c) == IF cfg.dotted \/ c.claim # {} THEN c.claim ELSE IF c.realm # {} THEN c.realm ELSE c.groups
RolesOf(c) == LET named == {r \in Roles : RawRoles(c) \intersect Meaning[r] # {}} IN IF named = {} THEN {"viewer"} ELSE named
Expected == IF cfg.audience = "ours" \/ (cfg.audience = "unset" /\ cfg.client) THEN {"ours"} ELSE {}
AudienceFits(t) == IF Expected = {} THEN t.aud = {} ELSE t.aud \intersect Expected # {}
PartyFits(t) == cfg.audience = "any" /\ cfg.client => t.azp \in {"none", "ours"}
Live(t) == now < t.until /\ AudienceFits(t)
\* validate_bearer_jwt: with the local secret, then with the provider's keys.
Local(t) == cfg.secret /\ t.alg = "HS" /\ (cfg.issuer # "none" => t.iss = "ours") /\ Live(t)
Signed(t) == cfg.issuer # "none" /\ t.alg = "RS" /\ t.key = key /\ t.iss = "ours" /\ Live(t) /\ PartyFits(t)
Accepted(t) == Local(t) \/ Signed(t)
\* The keys of an external provider are asked for with every token.
Asks(t) == cfg.issuer = "idp" /\ t # NoToken /\ ~Local(t)
\* get_discovery, kept for DocLife; the mock's is made on the spot.
Known == Mock \/ (doc # Never /\ now - doc < DocLife)
Discover == doc' = IF Known THEN doc ELSE now

-----------------------------------------------------------------------------
(* GET /v1/auth/login, and the provider.                                      *)

CanBegin == cfg.issuer # "none" /\ cfg.client
Begin(l, p) ==
  /\ login[l].at = "free" /\ CanBegin /\ Discover
  /\ login' = [login EXCEPT ![l] = [FreeLogin EXCEPT !.at = "away", !.to = p, !.begun = now]]
  /\ kept' = IF redis THEN kept \union {l} ELSE kept                 \* logged, and the login goes on
  /\ UNCHANGED <<cfg, now, redis, key, code, req, faults>>
\* 503: no provider, or its discovery document cannot be had.
Refuse(l) ==
  /\ login[l].at = "free" /\ login' = [login EXCEPT ![l].at = "refused"]
  /\ \/ ~CanBegin /\ UNCHANGED faults
     \/ CanBegin /\ ~Known /\ Fault
  /\ UNCHANGED <<cfg, now, redis, doc, key, kept, code, req>>
\* The provider inside the api keeps its codes in redis, or in memory while that is down.
Authorize(l, w) ==
  /\ login[l].at = "away" /\ login' = [login EXCEPT ![l].at = "back", ![l].coded = now, ![l].who = w]
  /\ code' = [code EXCEPT ![l] = IF ~Mock THEN "idp" ELSE IF redis THEN "redis" ELSE "memory"]
  /\ UNCHANGED <<cfg, now, redis, doc, key, kept, req, faults>>
\* It sends the browser back with an error: 400.
Deny(l) ==
  /\ login[l].at = "away" /\ ~Mock /\ login' = [login EXCEPT ![l].at = "refused"]
  /\ UNCHANGED <<cfg, now, redis, doc, key, kept, code, req, faults>>

-----------------------------------------------------------------------------
(* GET /v1/auth/callback.                                                     *)

Arrive(r, l) ==
  /\ req[r].at = "free" /\ login[l].at = "back" /\ req' = [req EXCEPT ![r].at = "state", ![r].of = l]
  /\ UNCHANGED <<cfg, now, redis, doc, key, kept, code, login, faults>>
\* pop_login_state: without it the callback goes on all the same.
HasState(l) == redis /\ l \in kept /\ now < login[l].begun + StateLife
GetState(r) ==
  /\ req[r].at = "state" /\ LET l == req[r].of IN
       IF HasState(l) THEN req' = [req EXCEPT ![r].at = "unstate", ![r].to = login[l].to] ELSE Go(r, "code")
  /\ UNCHANGED <<cfg, now, redis, doc, key, kept, code, login, faults>>
DropState(r) ==
  /\ req[r].at = "unstate"
  /\ IF redis THEN kept' = kept \ {req[r].of} /\ Go(r, "code")
     ELSE req' = [req EXCEPT ![r].at = "code", ![r].to = "none"] /\ UNCHANGED kept
  /\ UNCHANGED <<cfg, now, redis, doc, key, code, login, faults>>

\* exchange_code.  The mock's issuer is the host the browser asked, which need not be
\* the one the api is configured for.
Made(l) == [NoToken EXCEPT !.alg = "RS", !.key = key, !.iss = IF cfg.base THEN "ours" ELSE "else", !.aud = {"ours"}, !.until = now + TokenLife, !.who = login[l].who]
Given(l, s) == [Made(l) EXCEPT !.iss = "ours", !.aud = s.aud, !.azp = s.azp]
Holds(r, t) == req' = [req EXCEPT ![r].at = "check", ![r].token = t]
InTime(l) == now < login[l].coded + CodeLife
GetCode(r) ==
  /\ req[r].at = "code" /\ Mock /\ LET l == req[r].of IN
       IF redis
       THEN IF code[l] = "redis" /\ InTime(l)
            THEN req' = [req EXCEPT ![r].at = "uncode", ![r].beside = {q \in Requests \ {r} : req[q].at = "uncode" /\ req[q].of = l}] /\ UNCHANGED code
            ELSE Go(r, "failed") /\ UNCHANGED code
       ELSE IF code[l] = "memory" THEN code' = [code EXCEPT ![l] = "none"] /\ Holds(r, Made(l))
            ELSE Go(r, "failed") /\ UNCHANGED code
  /\ UNCHANGED <<cfg, now, redis, doc, key, kept, login, faults>>
MutSpent(l) == code
Spent(l) == [code EXCEPT ![l] = "none"]
DropCode(r) ==
  /\ req[r].at = "uncode" /\ LET l == req[r].of IN
       IF redis THEN code' = Spent(l) /\ Holds(r, Made(l)) ELSE Go(r, "failed") /\ UNCHANGED code
  /\ UNCHANGED <<cfg, now, redis, doc, key, kept, login, faults>>
\* An external provider takes a code once; its answer may not arrive.
Exchange(r) ==
  /\ req[r].at = "code" /\ ~Mock /\ LET l == req[r].of IN
       \/ /\ code[l] = "idp" /\ InTime(l) /\ Discover /\ code' = Spent(l)
          /\ \E s \in Shapes : Holds(r, Given(l, s))
          /\ UNCHANGED faults
       \/ ~(code[l] = "idp" /\ InTime(l)) /\ Discover /\ Go(r, "failed") /\ UNCHANGED <<code, faults>>
       \/ Fault /\ doc' \in {doc, IF Known THEN doc ELSE now} /\ code' \in {code, Spent(l)} /\ Go(r, "failed")
  /\ UNCHANGED <<cfg, now, redis, key, kept, login>>
\* The browser goes to return_to or to the page of logins, with the tokens and with the
\* name the token was accepted for, if it was.
Check(r) ==
  /\ req[r].at = "check"
  /\ \/ /\ req' = [req EXCEPT ![r].at = "home", ![r].sub = IF Accepted(req[r].token) THEN req[r].token.who ELSE "none"]
        /\ IF Asks(req[r].token) THEN Discover ELSE UNCHANGED doc
        /\ UNCHANGED faults
     \/ Asks(req[r].token) /\ Fault /\ Go(r, "home") /\ UNCHANGED doc
  /\ UNCHANGED <<cfg, now, redis, key, kept, code, login>>

-----------------------------------------------------------------------------
(* A request with a credential: resolve_principal and require_roles.          *)

Off == {"", "off", "disabled", "none"}
Enforced == cfg.mode \notin Off \union {"false", "0"}
Jwt(t) == [kind |-> "jwt", roles |-> {}, token |-> t]
\* POST /v1/auth/dev/token
Minted(p) == [NoToken EXCEPT !.alg = "HS", !.iss = IF cfg.issuer = "none" THEN "none" ELSE "ours",
  !.aud = IF cfg.audience = "any" THEN {"*"} ELSE Expected, !.until = now + TokenLife, !.who = p]
Credentials ==
  {[kind |-> "none", roles |-> {}, token |-> NoToken]}
  \union {[kind |-> k, roles |-> g, token |-> NoToken] : k \in {"key", "stub"}, g \in KeyRoles}
  \union {Jwt(req[r].token) : r \in {q \in Requests : req[q].at = "home"}}
  \union {Jwt(Minted(p)) : p \in IF cfg.secret THEN People ELSE {}}
As(via, who, roles) == [who |-> who, roles |-> IF cfg.mode \in Off THEN Roles ELSE IF roles = {} THEN {"viewer"} ELSE roles, via |-> via]
Principal(c) ==
  CASE c.kind = "key" -> As("apikey", "key", c.roles)
    [] c.kind = "stub" /\ cfg.mode \in {"oidc_stub", "oidc"} -> As("oidc_stub", "stub", c.roles)
    [] c.kind = "jwt" /\ cfg.mode \in Off \union {"oidc", "oidc_stub", "apikey"} /\ Accepted(c.token) ->
         As("oidc", c.token.who, RolesOf(Claims[c.token.who]))
    [] OTHER -> As("anonymous", "anonymous", {})
Gate(p, needed) == IF ~Enforced THEN 200 ELSE IF p.via = "anonymous" THEN 401 ELSE IF p.roles \intersect needed = {} THEN 403 ELSE 200
\* A token that is asked about may have the discovery document fetched again.
Resolve(c) == c.kind = "jwt" /\ Asks(c.token) /\ Discover /\ UNCHANGED <<cfg, now, redis, key, kept, code, login, req, faults>>

-----------------------------------------------------------------------------
(* The environment.                                                          *)

Tick == now < MaxTime /\ now' = now + 1 /\ UNCHANGED <<cfg, redis, doc, key, kept, code, login, req, faults>>
Redis ==
  /\ redis' = ~redis /\ IF redis THEN Fault ELSE UNCHANGED faults
  /\ UNCHANGED <<cfg, now, doc, key, kept, code, login, req>>
\* The api restarts: callbacks end, and with them the cache, the codes in memory and the
\* mock's key.  An external provider may change its key at any time.
Restart ==
  /\ Fault /\ doc' = Never /\ key' = IF Mock THEN key + 1 ELSE key
  /\ code' = [l \in Logins |-> IF code[l] = "memory" THEN "none" ELSE code[l]]
  /\ req' = [r \in Requests |-> IF req[r].at \in {"free", "home"} THEN req[r] ELSE [req[r] EXCEPT !.at = "failed"]]
  /\ UNCHANGED <<cfg, now, redis, kept, login>>
NewKey == cfg.issuer = "idp" /\ Fault /\ key' = key + 1 /\ UNCHANGED <<cfg, now, redis, doc, kept, code, login, req>>

Next ==
  \/ Tick \/ Redis \/ Restart \/ NewKey
  \/ \E l \in Logins : Refuse(l) \/ Deny(l) \/ (\E p \in Paths : Begin(l, p)) \/ (\E w \in People : Authorize(l, w))
  \/ \E r \in Requests :
       \/ GetState(r) \/ DropState(r) \/ GetCode(r) \/ DropCode(r) \/ Exchange(r) \/ Check(r)
       \/ \E l \in Logins : Arrive(r, l)
  \/ \E c \in Credentials : Resolve(c)
Spec == Init /\ [][Next]_vars

-----------------------------------------------------------------------------
Others(r) == {q \in Requests \ {r} : req[q].at # "free" /\ req[q].of = req[r].of}
Of(r) == login[req[r].of]
\* Without a fault a callback fails for a code that is too old, or that another callback
\* of the same login took; and the token it got is accepted unless it has run out, the
\* provider calls itself otherwise or the token is for somebody else.
SignedIn == \A r \in Requests : faults = 0 =>
  /\ req[r].at = "failed" => now >= Of(r).coded + CodeLife \/ \E q \in Others(r) : req[q].token # NoToken
  /\ LET t == req[r].token IN
     req[r].at = "home" /\ req[r].sub = "none" => now >= t.until \/ ~AudienceFits(t) \/ ~PartyFits(t) \/ t.iss # "ours"
\* The browser lands where the login was begun, unless the state was too old, redis was
\* down, or another callback of the same login read the state.
LandsWhereAsked == \A r \in Requests :
  req[r].at = "home" /\ req[r].to # Of(r).to => faults > 0 \/ now >= Of(r).begun + StateLife \/ \E q \in Others(r) : req[q].to = Of(r).to
\* Two callbacks get tokens for one code only when both read it before either deleted it.
CodeSpentOnce == \A r, q \in Requests :
  r # q /\ req[r].token # NoToken /\ req[q].token # NoToken /\ req[r].of = req[q].of => r \in req[q].beside \/ q \in req[r].beside
\* Who is signed in stays so until the token runs out, with the roles the provider
\* granted, and no gate takes them for somebody unknown; unless a key changed.
StaysSignedIn == \A r \in Requests : LET t == req[r].token p == Principal(Jwt(t)) IN
  /\ req[r].at = "home" /\ req[r].sub # "none" => req[r].sub = Of(r).who
  /\ req[r].at = "home" /\ req[r].sub # "none" /\ now < t.until /\ faults = 0 /\ cfg.mode \in Off \union {"oidc", "oidc_stub", "apikey"} =>
       p.who = Of(r).who /\ RolesOf(Claims[p.who]) \subseteq p.roles /\ \A needed \in SUBSET Roles : needed \intersect RolesOf(Claims[p.who]) # {} => Gate(p, needed) = 200
=============================================================================
